------------------------------- MODULE Volume -------------------------------
(***************************************************************************)
(* The volume of a request: volumeMap.SetValue and GetValue, and the       *)
(* template functions setValue, getSetValue and toJson that use them.  A   *)
(* key is a root, or a root and a path: r.a.b names a place inside the     *)
(* JSON text that the root r holds, and r.#.a a column of its rows.  Two   *)
(* kinds of calls are left out, those whose outcome lies in the characters *)
(* of a text inside a text: IntoText and MeetsGarbled.                     *)
(***************************************************************************)
EXTENDS JsonTree

CONSTANTS Paths,    \* bound: paths below a root
          MaxCalls, \* bound: calls on the volume
          Inputs    \* values the templates set

(* In the rows of a column gjson enters strings too, where a number or a   *)
(* second # comes next; those paths are left out.                          *)
ASSUME PathsAssumption ==
    \A p \in Paths :
       /\ p \in Seq(Segs \cup {Each})
       /\ \A n \in 1..(Len(p) - 1) : p[n] = Each => p[n + 1] \in Names
ASSUME BoundsAssumption == MaxCalls \in Nat
ASSUME InputsAssumption == \A v \in Inputs : Ends(v)

VARIABLES vol,  \* the volume: what each root holds, or Missing
          last, \* history: the latest call
          calls \* history: number of calls

vars == <<vol, last, calls>>

Keys  == [root : Roots, path : Paths]

TypeOK == /\ DOMAIN vol = Roots
          /\ \A r \in Roots : vol[r] = Missing \/ IsValue(vol[r])
          /\ last.op \in {"none", "set", "getSet", "toJson"}
          /\ last.ok \in BOOLEAN
          /\ last.op # "none" => last.key \in Keys /\ IsValue(last.val)
          /\ calls \in 0..MaxCalls

Init == /\ vol = [r \in Roots |-> Missing]
        /\ last = [op |-> "none", ok |-> TRUE]
        /\ calls = 0

-----------------------------------------------------------------------------
(* Mutant: the root is always started anew.                                *)
AssignedAnew(key, v) ==
    LET new == Add2json(Nil, key.path, "string", v)
    IN  CASE key.path = <<>> -> v
          [] key.path # <<>> /\ new \in {Nil, Panic} -> Panic
          [] OTHER -> Json(new)

(* The JSON text of what a root holds, and its document.                   *)
TextAt(old) == IF old = Missing THEN Empty ELSE IF IsString(old) THEN old ELSE Json(old)

TreeAt(old) == IF TextAt(old).kind = "json" THEN TextAt(old).d ELSE Nil

(* What SetValue(key, v) puts at the root of key: v itself; or else the    *)
(* text there with v added at the path as a string is.                     *)
Assigned(key, v) ==
    LET text == TextAt(vol[key.root])
        tree == TreeAt(vol[key.root])
        new  == Add2json(tree, key.path, "string", v)
    IN  CASE key.path = <<>> -> v
          [] key.path # <<>> /\ new = Panic -> Panic
          [] key.path # <<>> /\ new = tree -> text
          [] OTHER -> Json(new)

(* GetValue, the function: what is not found is nil.                       *)
Read(key) == LET v == ValueOf(vol, key) IN IF v = Missing THEN Nil ELSE v

-----------------------------------------------------------------------------
(* The rows that a value goes into: at least the first.                    *)
Rows(v) == IF v.kind = "arr" /\ v.e # <<>> THEN 0..(Len(v.e) - 1) ELSE {0}

(* The path goes on, in the array inside a string, to an element that is   *)
(* there: sjson puts the characters of v among those of the string.        *)
IntoText(key, v) ==
    \E n \in 0..(Len(key.path) - 1), i \in Rows(v) :
        LET path == Row(key.path, i)
            x    == Trail(TreeAt(vol[key.root]), path)[n]
        IN  IsString(x) /\ Child(Entered(x), path[n + 1]) # Missing

(* A call that sets v at key.  A panic leaves the volume as it was.        *)
Store(op, key, v) ==
    LET new == Assigned(key, v)
    IN  /\ ~IntoText(key, v)
        /\ vol' = IF new = Panic THEN vol ELSE [vol EXCEPT ![key.root] = new]
        /\ last' = [op |-> op, key |-> key, val |-> v, ok |-> new # Panic]

(* The value could not be read: some text on the way is no JSON.           *)
Fail(op, key) == /\ last' = [op |-> op, key |-> key, val |-> Nil, ok |-> FALSE]
                 /\ UNCHANGED vol

SetValue(key, v) == Store("set", key, v)

(* What is read there is not what lies behind the quotation marks of a     *)
(* text in a text.                                                         *)
MadeOut(key) == ~MeetsGarbled(vol[key.root], key.path)

(* Mutant: what is not found is stored as such.                            *)
GetSetValueMissing(key, from) ==
    LET v == ValueOf(vol, from)
    IN  /\ MadeOut(from)
        /\ IF v = Panic THEN Fail("getSet", key) ELSE Store("getSet", key, v)

GetSetValue(key, from) ==
    LET v == Read(from)
    IN  /\ MadeOut(from)
        /\ IF v = Panic THEN Fail("getSet", key) ELSE Store("getSet", key, v)

(* The value becomes the JSON text of itself.                              *)
ToJson(key) ==
    LET v == Read(key)
    IN  /\ MadeOut(key)
        /\ IF v = Panic THEN Fail("toJson", key) ELSE Store("toJson", key, Json(v))

Next == /\ calls < MaxCalls /\ calls' = calls + 1
        /\ \/ \E key \in Keys, v \in Inputs : SetValue(key, v)
           \/ \E key, from \in Keys : GetSetValue(key, from)
           \/ \E key \in Keys : ToJson(key)

Spec == Init /\ [][Next]_vars

-----------------------------------------------------------------------------
(* What was set is what is read, wherever in a tree and whatever was there *)
(* before: text, a structure, or nothing.  Only nil turns into "".  A      *)
(* column that is set reads the same, before the rows of a longer array.   *)
(* (An object in the array's place would take the indexes as names, and    *)
(* of two # both become the row.)                                          *)
Written(v) == IF v = Nil THEN Empty ELSE v

ToRows(key) == \E n \in 1..(Len(key.path) - 1) :
                  /\ {m \in DOMAIN key.path : key.path[m] = Each} = {n}
                  /\ Unwrapped(Walk(vol[key.root], SubSeq(key.path, 1, n - 1))).kind = "arr"

ReadYourWrites ==
    last.op # "none" /\ last.ok =>
        LET path == last.key.path
            read == ValueOf(vol, last.key)
        IN  /\ path = <<>> => read = last.val
            /\ path # <<>> /\ ~InRows(path) => read = Written(last.val)
            /\ ToRows(last.key) /\ last.val.kind = "arr" =>
                   /\ read.kind = "arr"
                   /\ IsPrefix([i \in 1..Len(last.val.e) |-> Written(last.val.e[i])], read.e)

(* Looking up with ever shorter prefixes, and again in the strings found,  *)
(* is walking the tree from the top, through the JSON text of objects and  *)
(* arrays as if it were the object or array, and through an array in a     *)
(* text inside a text as far as it can be made out.                        *)
LookupIsWalk ==
    \A key \in Keys :
        /\ key.path # <<>> /\ ~InRows(key.path)
        /\ IsString(vol[key.root]) /\ MadeOut(key)
        => ValueOf(vol, key) = IF MeetsText(vol[key.root], key.path) THEN Panic
                               ELSE Walk(vol[key.root], key.path)

Same(s, t) == \/ s = t
              \/ {s, t} \subseteq Nat \cup {Each} /\ Each \in {s, t}

Comparable(p, q) == \A n \in DOMAIN p \cap DOMAIN q : Same(p[n], q[n])

(* Setting one key keeps what any other key reads, unless one of the two   *)
(* contains the other, or the path of the first leads through a string     *)
(* inside the document, or the document is one: that is replaced and not   *)
(* extended.                                                               *)
ThroughString(key, v) ==
    \/ IsString(TreeAt(vol[key.root]))
    \/ \E n \in 1..(Len(key.path) - 1), i \in Rows(v) :
           IsString(Walks(vol[key.root], Row(key.path, i))[n])

SetKeepsOthers ==
    \A key \in Keys :
        LET set == last'.key
            v   == ValueOf(vol, key)
        IN  /\ Found(v) /\ ~InRows(key.path)
            /\ ~(key.root = set.root /\ Comparable(key.path, set.path))
            /\ ~ThroughString(set, last'.val)
            => ValueOf(vol', key) = v

(* toJson hides nothing: below an object or array it turned into text,     *)
(* every path that could be read reads the same.                           *)
ToJsonHidesNothing ==
    last'.op = "toJson" /\ last'.ok /\ IsTree(Read(last'.key)) =>
        \A key \in Keys :
           /\ key.root = last'.key.root
           /\ IsPrefix(last'.key.path, key.path)
           /\ key.path # last'.key.path
           /\ Found(ValueOf(vol, key))
           => ValueOf(vol', key) = ValueOf(vol, key)

(* A call changes what other keys read in no other way.                    *)
OthersKept == [][SetKeepsOthers /\ ToJsonHidesNothing]_vars
=============================================================================
