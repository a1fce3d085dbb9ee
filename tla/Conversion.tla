----------------------------- MODULE Conversion -----------------------------
(***************************************************************************)
(* The types of the values in a volume: convertType, which GetValue uses   *)
(* to fit a value to the variable it is read into, strval, and the         *)
(* template functions getSetValueInt, getSetNumber and toBool.  A key is   *)
(* plain and holds Go values, or dotted and names a place in a JSON text   *)
(* (Volume has the paths), where every number is a float64 once read.      *)
(* Numbers are counted in halves: 2 * n stands for the integer n.  Finer   *)
(* fractions, exponents, the negative zero, NaN and numbers beyond twice   *)
(* Exact are left out.                                                     *)
(***************************************************************************)
EXTENDS Integers

CONSTANTS Plain,  \* keys without a dot
          Dotted, \* keys with one
          Inputs, \* values the templates set
          Exact   \* the largest integer up to which a float64 has them all

ASSUME KeysAssumption  == Plain \cap Dotted = {}
ASSUME ExactAssumption == Exact \in Nat /\ Exact % 4 = 0

VARIABLES store, \* what each key holds
          latest \* history: the latest call, what it read, and what came of it

convVars == <<store, latest>>

Keys == Plain \cup Dotted

Nil       == [type |-> "nil"]
IntOf(n)  == [type |-> "int", n |-> n]
Float(h)  == [type |-> "float64", h |-> h]
Number(h) == [type |-> "number", h |-> h] \* in a JSON text
Bool(b)   == [type |-> "bool", b |-> b]

(* A string, with or without blanks around what it says: digits, digits    *)
(* with a point, a truth value, nothing, or anything else.  Digits and     *)
(* truth values are plain as Go writes them, not so in 00, -0, +1 and TRUE.*)
Text(c)   == [type |-> "string", c |-> c, blanks |-> FALSE]
Padded(c) == [type |-> "string", c |-> c, blanks |-> TRUE]
Digits(n) == [says |-> "digits", n |-> n, plain |-> TRUE]
Point(h)  == [says |-> "point", h |-> h]
Truth(b)  == [says |-> "truth", b |-> b, plain |-> TRUE]
Nothing   == [says |-> "nothing"]
Word      == [says |-> "word"]

Otherwise(c) == [c EXCEPT !.plain = FALSE]

IsText(v) == v.type = "string"

Contents == [says : {"digits"}, n : Int, plain : BOOLEAN] \cup [says : {"point"}, h : Int]
                \cup [says : {"truth"}, b : BOOLEAN, plain : BOOLEAN] \cup {Nothing, Word}

Magnitude(h) == IF h < 0 THEN -h ELSE h

(* The nearest float64, the one with the even significand of two: they are *)
(* halves up to half of Exact, then integers, and then even.               *)
Rounded(h) ==
    LET s == CASE Magnitude(h) <= Exact -> 1
               [] Magnitude(h) > Exact /\ Magnitude(h) <= 2 * Exact -> 2
               [] OTHER -> 4
        q == h \div s
    IN  IF 2 * (h % s) < s \/ (2 * (h % s) = s /\ q % 2 = 0) THEN q * s ELSE (q + 1) * s

(* The values of Go, and the numbers in JSON texts.                        *)
GoValues == {Nil} \cup [type : {"int"}, n : Int]
                 \cup [type : {"float64"}, h : {h \in Int : Rounded(h) = h}]
                 \cup [type : {"bool"}, b : BOOLEAN]
                 \cup [type : {"string"}, c : Contents, blanks : BOOLEAN]
Numbers  == [type : {"number"}, h : Int]

Types == {"int", "int64", "float64", "bool", "string"}

(* How a call ends: well, or with one of the panics.                       *)
Results == {"ok", "notInt", "notFloat", "notBool", "gotEmpty"}

ConvTypeOK == /\ DOMAIN store = Keys
              /\ \A k \in Plain : store[k] \in GoValues
              /\ \A k \in Dotted : /\ store[k] \in GoValues \cup Numbers
                                   /\ store[k].type \notin {"int", "float64"}
              /\ latest.result \in Results
              /\ latest.old \in GoValues /\ latest.new \in GoValues

ConvInit == /\ store = [k \in Keys |-> Nil]
            /\ latest = [op |-> "none", result |-> "ok", old |-> Nil, new |-> Nil]

-----------------------------------------------------------------------------
(* Go conversion of a float64 to an int: towards zero.                     *)
Truncated(h) == IF h < 0 THEN -((-h) \div 2) ELSE h \div 2

(* The number a value stands for; nothing stands for zero.                 *)
Meant(v) == CASE v.type = "int" -> 2 * v.n
              [] v.type \in {"float64", "number"} -> v.h
              [] v.type = "nil" -> 0
              [] IsText(v) /\ v.c.says = "digits" -> 2 * v.c.n
              [] IsText(v) /\ v.c.says = "point" -> v.c.h
              [] OTHER -> 0

ASSUME InputsAssumption ==
    \A v \in Inputs : v \in GoValues /\ Magnitude(Meant(v)) <= 4 * Exact

(* Go conversion of an int to a string: the character with that code.      *)
CharacterOf(n) ==
    CASE n \in 48..57 -> Text(Digits(n - 48))
      [] n \in (9..13) \cup {32, 133, 160} -> Padded(Nothing)
      [] OTHER -> Text(Word)

Strval(v) == CASE IsText(v) -> v
               [] v.type = "int" -> Text(Digits(v.n))
               [] v.type = "float64" /\ v.h % 2 = 0 -> Text(Digits(v.h \div 2))
               [] v.type = "float64" /\ v.h % 2 = 1 -> Text(Point(v.h))
               [] v.type = "bool" -> Text(Truth(v.b))

Ok(v)        == [result |-> "ok", val |-> v]
Panicked(why) == [result |-> why, val |-> Nil]

(* strconv: no blanks are allowed.                                         *)
Atoi(s) == IF s.c.says = "digits" /\ ~s.blanks THEN Ok(IntOf(s.c.n)) ELSE Panicked("notInt")

ParseFloat(s) == CASE s.blanks -> Panicked("notFloat")
                   [] ~s.blanks /\ s.c.says = "digits" -> Ok(Float(Rounded(2 * s.c.n)))
                   [] ~s.blanks /\ s.c.says = "point" -> Ok(Float(Rounded(s.c.h)))
                   [] OTHER -> Panicked("notFloat")

ParseBool(s) == CASE s.blanks -> Panicked("notBool")
                  [] ~s.blanks /\ s.c.says = "truth" -> Ok(Bool(s.c.b))
                  [] ~s.blanks /\ s.c \in {Digits(0), Digits(1)} -> Ok(Bool(s.c.n = 1))
                  [] OTHER -> Panicked("notBool")

Zero(type) == CASE type \in {"int", "int64"} -> IntOf(0)
                [] type = "float64" -> Float(0)
                [] type = "bool" -> Bool(FALSE)
                [] type = "string" -> Text(Nothing)

(* convertType, into a variable that has its zero value: what Go converts  *)
(* is converted, the rest is parsed from its text.                         *)
ConvertType(type, v) ==
    IF v = Nil THEN Ok(Zero(type))
    ELSE CASE type \in {"int", "int64"} ->
                CASE v.type = "int" -> Ok(v)
                  [] v.type = "float64" -> Ok(IntOf(Truncated(v.h)))
                  [] OTHER -> Atoi(Strval(v))
           [] type = "float64" ->
                CASE v.type = "int" -> Ok(Float(Rounded(2 * v.n)))
                  [] v.type = "float64" -> Ok(v)
                  [] OTHER -> ParseFloat(Strval(v))
           [] type = "bool" -> IF v.type = "bool" THEN Ok(v) ELSE ParseBool(Strval(v))
           [] type = "string" -> IF v.type = "int" THEN Ok(CharacterOf(v.n)) ELSE Ok(Strval(v))

(* What a variable of type interface{} gets.                               *)
Read(k) == LET v == store[k]
           IN  IF v.type = "number" THEN Float(Rounded(v.h)) ELSE v

(* Mutant: dotted keys keep Go values.                                     *)
StoredAsIs(k, v) == v

(* What SetValue leaves at a key: see Volume.                              *)
Stored(k, v) == IF k \in Plain THEN v
                ELSE CASE v.type = "int" -> Number(2 * v.n)
                       [] v.type = "float64" -> Number(v.h)
                       [] v.type = "nil" -> Text(Nothing)
                       [] OTHER -> v

ToBool(v) == CASE v.type = "bool" -> v.b
               [] IsText(v) -> v \notin {Text(Nothing), Text(Truth(FALSE)), Text(Digits(0))}
               [] v.type = "int" -> v.n > 0
               [] OTHER -> FALSE

(* Mutant: everything is parsed as a float64.                              *)
NumberWithOutEmptyStrFloat(s) ==
    LET trimmed == Text(s.c)
    IN  IF trimmed.c = Nothing THEN Panicked("gotEmpty") ELSE ParseFloat(trimmed)

(* The number in a string; the empty one has none.                         *)
NumberWithOutEmptyStr(s) ==
    LET trimmed == Text(s.c)
    IN  CASE trimmed.c = Nothing -> Panicked("gotEmpty")
          [] trimmed.c.says = "point" -> ParseFloat(trimmed)
          [] OTHER -> Atoi(trimmed)

NumberOrZero(s) == IF s = Text(Nothing) THEN Ok(IntOf(0)) ELSE NumberWithOutEmptyStr(s)

-----------------------------------------------------------------------------
(* A call that reads old and ends with the outcome; a good one is stored.  *)
Finish(op, to, old, outcome) ==
    /\ latest' = [op |-> op, to |-> to, result |-> outcome.result, old |-> old, new |-> outcome.val]
    /\ store' = IF outcome.result = "ok" THEN [store EXCEPT ![to] = Stored(to, outcome.val)]
                ELSE store

SetValue(to, v) == Finish("set", to, Nil, Ok(v))

GetSetValue(to, from) == Finish("getSet", to, Read(from), Ok(Read(from)))

GetSetValueInt(to, from) ==
    Finish("getSetInt", to, Read(from), ConvertType("int", Read(from)))

GetSetValueNumber(to, from) ==
    Finish("getSetNumber", to, Read(from), NumberOrZero(ConvertType("string", Read(from)).val))

GetSetValueNumberWithOutEmptyStr(to, from) ==
    Finish("getSetNumber", to, Read(from),
           NumberWithOutEmptyStr(ConvertType("string", Read(from)).val))

(* GetValue into a variable of a type.                                     *)
GetValue(type, from) ==
    LET outcome == ConvertType(type, Read(from))
    IN  /\ latest' = [op |-> "get", type |-> type, result |-> outcome.result,
                      old |-> Read(from), new |-> outcome.val]
        /\ UNCHANGED store

ConvNext == \/ \E k \in Keys, v \in Inputs : SetValue(k, v)
            \/ \E to, from \in Keys : \/ GetSetValue(to, from)
                                      \/ GetSetValueInt(to, from)
                                      \/ GetSetValueNumber(to, from)
                                      \/ GetSetValueNumberWithOutEmptyStr(to, from)
            \/ \E type \in Types, from \in Keys : GetValue(type, from)

ConvSpec == ConvInit /\ [][ConvNext]_convVars

-----------------------------------------------------------------------------
(* What getSetNumber and getSetValueInt store means what their source      *)
(* meant, whatever it went through before and however large it is:         *)
(* getSetNumber keeps the number, integers that no float64 has included,   *)
(* and what has a point up to the rounding of a float64; getSetValueInt    *)
(* keeps the whole part; and a number in a JSON text is a number ever      *)
(* after, its text always parses.  A Go int is not kept by getSetNumber:   *)
(* GetValue into a string takes it for the code of a character.            *)
NumberKept ==
    latest'.op = "getSetNumber" /\ latest'.result = "ok" /\ latest'.old.type # "int" =>
        LET new == Meant(store'[latest'.to])
            old == Meant(latest'.old)
        IN  \/ new = old
            \/ /\ IsText(latest'.old) /\ latest'.old.c.says = "point"
               /\ Magnitude(old) > Exact /\ Magnitude(new - old) <= 2

WholePartKept ==
    latest'.op = "getSetInt" /\ latest'.result = "ok" =>
        /\ Magnitude(Meant(store'[latest'.to])) <= Magnitude(Meant(latest'.old))
        /\ Magnitude(Meant(store'[latest'.to]) - Meant(latest'.old)) < 2

StaysNumber ==
    latest'.op \in {"getSetNumber", "getSetInt"} /\ latest'.old.type = "float64" =>
        latest'.result = "ok"

(* Where getSetValueInt put the int of a string of digits, toBool says of  *)
(* it what it said of the string, unless that was a zero not written 0; in *)
(* a JSON text it would be a float64, which toBool takes for false.        *)
TruthKept ==
    /\ latest'.op = "getSetInt" /\ latest'.result = "ok" /\ latest'.to \in Plain
    /\ IsText(latest'.old) /\ latest'.new.n >= 0
    /\ latest'.new.n = 0 => latest'.old.c.plain
    => ToBool(store'[latest'.to]) = ToBool(latest'.old)

(* All four, whenever a value is converted.                                *)
MeaningKept == [][NumberKept /\ WholePartKept /\ StaysNumber /\ TruthKept]_convVars
=============================================================================
