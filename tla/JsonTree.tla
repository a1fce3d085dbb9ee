------------------------------ MODULE JsonTree ------------------------------
(***************************************************************************)
(* JSON documents as trees, and what the program does with them: the paths *)
(* of gjson and sjson, GetValueFromJson with its look into strings,        *)
(* getValue, and Add2json.  Numbers are plain (Conversion has the types),  *)
(* of the booleans there is the one the program writes itself, strings are *)
(* empty, plain text, or the JSON text of a value.                         *)
(***************************************************************************)
EXTENDS Integers, Sequences, FiniteSets, TLC, SequencesExt

CONSTANTS Roots, \* first segments of the keys of a volume
          Names, \* segments of paths that are no numbers
          Each,  \* #, the segment that stands for every row of an array
          Depth  \* bound: levels of a value that are looked at

(* A number is an index of an array, or a name of an object like others.   *)
Segs == Names \cup Nat

ASSUME NamesAssumption == Names \cap Nat = {} /\ Each \notin Segs
ASSUME DepthAssumption == Depth \in Nat

Nil     == [kind |-> "nil"]
False   == [kind |-> "false"]
Num(n)  == [kind |-> "num", n |-> n]
Empty   == [kind |-> "empty"]
Text(c) == [kind |-> "text", c |-> c]
Json(d) == [kind |-> "json", d |-> d]
Obj(f)  == [kind |-> "obj", f |-> f]
Arr(e)  == [kind |-> "arr", e |-> e]

(* What is between the escaped quotation marks of a text in a text.        *)
Garbled == [kind |-> "garbled"]

(* What a call yields in place of a value.                                 *)
Missing == [kind |-> "missing"]
Panic   == [kind |-> "panic"]

IsString(v) == v.kind \in {"empty", "text", "json"}
IsTree(v)   == v.kind \in {"obj", "arr"}
Found(v)    == v \notin {Missing, Panic}

(* A value, apart from the values it is made of ...                        *)
WellFormed(v) ==
    \/ v \in {Nil, False, Empty, Garbled}
    \/ v.kind = "num" /\ v = Num(v.n) /\ v.n \in Nat
    \/ v.kind = "text" /\ v = Text(v.c)
    \/ v.kind = "json" /\ v = Json(v.d)
    \/ v.kind = "obj" /\ v = Obj(v.f) /\ DOMAIN v.f \subseteq Segs
    \/ v.kind = "arr" /\ v = Arr(v.e) /\ v.e \in Seq(ToSet(v.e))

(* ... and these.                                                          *)
Kids(v) == CASE v.kind = "json" -> {v.d}
             [] v.kind = "obj"  -> {v.f[s] : s \in DOMAIN v.f}
             [] v.kind = "arr"  -> ToSet(v.e)
             [] OTHER -> {}

(* What a value is made of, by levels, n of them below the value.          *)
Levels(v, n) ==
    LET level[i \in 0..n] ==
            IF i = 0 THEN {v} ELSE UNION {Kids(x) : x \in level[i - 1]}
    IN  level

IsValue(v) == \A i \in 0..Depth : \A x \in Levels(v, Depth)[i] : WellFormed(x)

(* A value that ends within Depth levels.                                  *)
Ends(v) == IsValue(v) /\ Levels(v, Depth)[Depth] = {}

Largest(S) == CHOOSE n \in S : \A m \in S : m <= n

-----------------------------------------------------------------------------
(* There is a quotation mark in the JSON text of v.                        *)
Quoted(v) ==
    \E i \in 0..Depth : \E x \in Levels(v, Depth)[i] :
        IsString(x) \/ (x.kind = "obj" /\ DOMAIN x.f # {})

(* The array that strings in each other hold in the end, if it is one.     *)
ArraysInside(d) ==
    LET level == Levels(d, Depth)
    IN  {x \in UNION {level[i] : i \in 0..Depth} :
            /\ x.kind = "arr"
            /\ \E i \in 0..Depth :
                  x \in level[i] /\ \A j \in 0..(i - 1) : \A y \in level[j] : y.kind = "json"}

(* The elements up to the first with a quotation mark: that one runs on to *)
(* the end of the text.                                                    *)
Legible(e) ==
    LET upTo == {n \in 1..Len(e) : \A i \in 1..(n - 1) : ~Quoted(e[i])}
        n    == IF upTo = {} THEN 0 ELSE Largest(upTo)
    IN  [i \in 1..n |-> IF Quoted(e[i]) THEN Garbled ELSE e[i]]

(* Where gjson begins to look: a document that is itself a string is no    *)
(* object, but an array in it, however deep, is found by its bracket.      *)
Entered(d) ==
    LET arrays == ArraysInside(d)
    IN  IF d.kind = "json" /\ arrays # {}
        THEN Arr(Legible((CHOOSE x \in arrays : TRUE).e))
        ELSE d

(* What is looked into for a value: the JSON text of a tree is the tree.   *)
Unwrapped(v) == IF v.kind = "json" THEN Entered(v.d) ELSE v

Child(d, seg) ==
    CASE d.kind = "obj" /\ seg \in DOMAIN d.f -> d.f[seg]
      [] d.kind = "arr" /\ seg \in Nat /\ seg < Len(d.e) -> d.e[seg + 1]
      [] OTHER -> Missing

(* Those of a list of results that are there, up to each of them.          *)
FoundUpTo(list) ==
    LET found[i \in 0..Len(list)] ==
            IF i = 0 THEN <<>>
            ELSE IF Found(list[i]) THEN Append(found[i - 1], list[i]) ELSE found[i - 1]
    IN  found

FoundIn(list) == FoundUpTo(list)[Len(list)]

(* What the rest of a path finds below x, where seg is its first segment,  *)
(* rest what is found after it, and more whether there is more of it:      *)
(* objects by name, arrays by index; # at the end is the length of an      *)
(* array, and # before more of the path is the list of what the rest finds *)
(* in its elements, those that have it.                                    *)
Step(x, seg, rest, more) ==
    CASE seg # Each -> IF Child(x, seg) = Missing THEN Missing ELSE rest[Child(x, seg)]
      [] seg = Each /\ x.kind = "arr" ->
             IF more THEN Arr(FoundIn([i \in 1..Len(x.e) |-> rest[x.e[i]]]))
                     ELSE Num(Len(x.e))
      [] OTHER -> Missing

(* What the last k segments of path find below the values they may be      *)
(* looked up in, from the end of the path.                                 *)
Lookups(d, path) ==
    LET n == Len(path)
        at[k \in 0..n] == [x \in Levels(d, n)[n - k] |->
            IF k = 0 THEN x ELSE Step(x, path[n - k + 1], at[k - 1], k > 1)]
    IN  at

(* gjson.Get(text, path), where the text of d is entered.                  *)
At(d, path) == Lookups(d, path)[Len(path)][d]

(* The values along a path, from the top.                                  *)
Trail(d, path) ==
    LET at[n \in 0..Len(path)] == IF n = 0 THEN d ELSE Child(at[n - 1], path[n])
    IN  at

(* The object or array c with x at seg; what is neither gives way to what  *)
(* the segment needs, and an array takes no name.  (A string gives way as  *)
(* long as gjson finds nothing in it.)                                     *)
Replaced(c, seg, x) ==
    LET f == IF c.kind = "obj" THEN c.f ELSE <<>>
        e == IF c.kind = "arr" THEN c.e ELSE <<>>
        n == IF seg < Len(e) THEN Len(e) ELSE seg + 1
    IN  CASE x = Panic \/ (c.kind = "arr" /\ seg \notin Nat) -> Panic
          [] x # Panic /\ (c.kind = "obj" \/ (c.kind # "arr" /\ seg \notin Nat)) ->
                 Obj([s \in DOMAIN f \cup {seg} |-> IF s = seg THEN x ELSE f[s]])
          [] OTHER ->
                 Arr([i \in 1..n |-> IF i = seg + 1 THEN x
                                     ELSE IF i <= Len(e) THEN e[i] ELSE Nil])

(* What stands at the last k segments of path when v was set, from its end.*)
Rebuilt(d, path, v) ==
    LET n == Len(path)
        new[k \in 0..n] ==
            IF k = 0 THEN v ELSE Replaced(Trail(d, path)[n - k], path[n - k + 1], new[k - 1])
    IN  new

(* sjson.Set(d, path, v).                                                  *)
SetIn(d, path, v) == Rebuilt(d, path, v)[Len(path)]

-----------------------------------------------------------------------------
(* What Add2json writes for nil: the zero of the type.                     *)
Zero(type) ==
    CASE type = "string" -> Empty
      [] type \in {"int", "integer", "int64", "uint", "uint64", "float64"} -> Num(0)
      [] type = "bool" -> False
      [] type \in {"array", "slice", "[]string", "[]int", "[]int64"} -> Arr(<<>>)
      [] OTHER -> Nil

(* A value keeps its own type; nil becomes the zero of type.               *)
Typed(type, v) == IF v = Nil THEN Zero(type) ELSE v

InRows(path) == Each \in ToSet(path)

(* Row i of a path: every # becomes the same index.                        *)
Row(path, i) == [n \in 1..Len(path) |-> IF path[n] = Each THEN i ELSE path[n]]

(* The document with the first i elements of a list at their rows.         *)
Filled(d, path, type, list) ==
    LET rows[i \in 0..Len(list)] ==
            IF i = 0 THEN d
            ELSE IF rows[i - 1] = Panic THEN Panic
            ELSE SetIn(rows[i - 1], Row(path, i - 1), Typed(type, list[i]))
    IN  rows

(* Mutant: nil is not written, as the commented out lines of Add2json had. *)
Add2jsonNotNil(d, path, type, v) ==
    IF v = Nil THEN d ELSE IF InRows(path) THEN Panic ELSE SetIn(d, path, v)

(* Mutant: a column is written with its first two elements swapped.        *)
Add2jsonShifted(d, path, type, v) ==
    CASE ~InRows(path) -> SetIn(d, path, Typed(type, v))
      [] InRows(path) /\ v = Nil -> d
      [] InRows(path) /\ v.kind \notin {"nil", "arr"} -> Panic
      [] OTHER -> Filled(d, path, type,
                         [i \in DOMAIN v.e |-> v.e[(i % Len(v.e)) + 1]])[Len(v.e)]

(* Add2json(d, path, type, v): a path with # takes a list, and writes its  *)
(* elements row by row; nothing is written for nil then.                   *)
Add2json(d, path, type, v) ==
    CASE ~InRows(path) -> SetIn(d, path, Typed(type, v))
      [] InRows(path) /\ v = Nil -> d
      [] InRows(path) /\ v.kind = "arr" -> Filled(d, path, type, v.e)[Len(v.e)]
      [] OTHER -> Panic

(* One turn of GetValueFromJson, with a value and the path to look up in   *)
(* it: on to the value at the longest prefix of the path that is there.    *)
Deeper(q) ==
    LET d     == Unwrapped(q.val)
        there == {n \in 1..Len(q.path) : At(d, SubSeq(q.path, 1, n)) # Missing}
        n     == Largest(there)
    IN  CASE q.path = <<>> -> q
          [] q.path # <<>> /\ q.val.kind = "text" -> [val |-> Panic, path |-> <<>>]
          [] q.path # <<>> /\ q.val.kind = "json" /\ there # {} ->
                 [val |-> At(d, SubSeq(q.path, 1, n)),
                  path |-> SubSeq(q.path, n + 1, Len(q.path))]
          [] OTHER -> [val |-> Missing, path |-> <<>>]

(* Mutant: a string found on the way is not looked into.                   *)
GetValueFromJsonFlat(text, path) ==
    CASE text = Empty -> Missing
      [] text.kind = "text" -> Panic
      [] OTHER -> At(Unwrapped(text), path)

(* The first n turns from q.                                               *)
Turns(q, n) ==
    LET turn[k \in 0..n] == IF k = 0 THEN q ELSE Deeper(turn[k - 1])
    IN  turn

(* GetValueFromJson: the value at the longest prefix of the path that is   *)
(* there; if that is a string, the rest of the path is looked up in it.    *)
(* The path gets shorter with every turn.                                  *)
GetValueFromJson(text, path) ==
    Turns([val |-> text, path |-> path], Len(path))[Len(path)].val

(* getValue: a key is a root of the volume and a path below it.            *)
ValueOf(volume, key) ==
    LET v == volume[key.root]
    IN  CASE key.path = <<>> -> v
          [] key.path # <<>> /\ IsString(v) -> GetValueFromJson(v, key.path)
          [] OTHER -> Missing

-----------------------------------------------------------------------------
(* From the top, through the JSON text of objects and arrays as if it were *)
(* the object or array.                                                    *)
Walks(v, path) ==
    LET walk[n \in 0..Len(path)] ==
            IF n = 0 THEN v ELSE Child(Unwrapped(walk[n - 1]), path[n])
    IN  walk

Walk(v, path) == Walks(v, path)[Len(path)]

(* The walk comes to a text that is no JSON while there is path left.      *)
MeetsText(v, path) ==
    \E n \in 0..(Len(path) - 1) : Walks(v, path)[n].kind = "text"

(* The walk comes to what cannot be made out.                              *)
MeetsGarbled(v, path) == \E n \in 0..Len(path) : Walks(v, path)[n] = Garbled
=============================================================================
