--------------------------- MODULE DocumentProofs ---------------------------
(***************************************************************************)
(* What the volume and the transfer of data promise for any schema, any    *)
(* paths, values of any depth, and any number of calls or of rows.         *)
(*                                                                         *)
(* Volume: types, that what was set is read, that looking up is walking,   *)
(* and what a call leaves to other keys.  The invariant is that every root *)
(* holds nothing or a value, and that the latest call had a key and a      *)
(* value; a step is then one Add2json and one look, which the theorems of  *)
(* JsonTreeProofs are about.                                               *)
(*                                                                         *)
(* Transfer: types, that every value is delivered in any order, that rows  *)
(* stay rows, that the parents of what is missing are there, and that      *)
(* FormatJson only fills.  The invariant, Carrying, says what the text has *)
(* when some paths are still to come: what is due on the others, at the    *)
(* rows and as a list; no array where a path goes on with a name; and for  *)
(* what was left out, its parent in the list or its body in the text.      *)
(***************************************************************************)
EXTENDS Volume, Transfer, JsonTreeProofs

-----------------------------------------------------------------------------
(* The volume.                                                             *)
(* The inputs, and what keys name.                                         *)
LEMMA InputsAreValues ==
  ASSUME NEW v \in Inputs
  PROVE  Value(v)
  BY InputsAssumption, EndingIsValue DEF Ends

LEMMA KeyFacts ==
  ASSUME NEW key \in Keys
  PROVE  key.root \in Roots /\ key.path \in Ways
  BY PathsAssumption DEF Keys, Ways

(* What the roots hold; what the latest call was.                          *)
VolInv == /\ vol = [r \in Roots |-> vol[r]]
          /\ \A r \in Roots : Node(vol[r])

LastInv == /\ last.op \in {"none", "set", "getSet", "toJson"}
           /\ last.ok \in BOOLEAN
           /\ last.op # "none" => last.key \in Keys /\ Value(last.val)

IInv == VolInv /\ LastInv /\ calls \in 0..MaxCalls

-----------------------------------------------------------------------------
(* A key below a root is read in the string the root holds.                *)
LEMMA KeyCases ==
  ASSUME NEW w, NEW key
  PROVE  /\ key.path = <<>> => ValueOf(w, key) = w[key.root]
         /\ key.path # <<>> /\ IsString(w[key.root]) =>
               ValueOf(w, key) = Reads(w[key.root], key.path)
         /\ key.path # <<>> /\ ~IsString(w[key.root]) => ValueOf(w, key) = Missing
  BY DEF ValueOf, Reads, Wrapped

LEMMA ReadType ==
  ASSUME VolInv, NEW key \in Keys
  PROVE  Read(key) = Panic \/ Value(Read(key))
  <1>1. key.root \in Roots /\ key.path \in Ways /\ Node(vol[key.root])
    BY KeyFacts DEF VolInv
  <1>2. ValueOf(vol, key) = Panic \/ Node(ValueOf(vol, key))
    <2>1. CASE key.path # <<>> /\ IsString(vol[key.root])
      <3>1. Value(vol[key.root])
        BY <1>1, <2>1 DEF Node, IsString, Missing
      <3>2. QED
        BY <1>1, <2>1, <3>1, ReadsType, KeyCases
    <2>2. CASE key.path = <<>> \/ ~IsString(vol[key.root])
      BY <1>1, <2>2, KeyCases DEF Node
    <2>3. QED
      BY <2>1, <2>2
  <1>3. QED
    BY <1>2, PlainValues DEF Read, Node

(* The document of what a root holds, with a value added.                  *)
Added(old, key, v) == Add2json(TreeAt(old), key.path, "string", v)

LEMMA TreeFacts ==
  ASSUME NEW old, Node(old)
  PROVE  /\ Value(TextAt(old)) /\ IsString(TextAt(old))
         /\ Value(TreeAt(old))
         /\ IsTree(TreeAt(old)) => TextAt(old) = Json(TreeAt(old))
         /\ IsString(old) => TextAt(old) = old
  <1>1. Value(TextAt(old)) /\ IsString(TextAt(old))
    BY PlainValues, JsonIsValue DEF Node, TextAt, IsString, Empty, Json
  <1>2. CASE TextAt(old).kind = "json"
    <2>1. TextAt(old) = Json(TreeAt(old)) /\ TreeAt(old) \in Kids(TextAt(old))
      BY <1>1, <1>2, ValueFacts DEF TreeAt, Kids
    <2>2. Value(TreeAt(old))
      BY <1>1, <2>1, KidsAreValues
    <2>3. IsString(old) => TextAt(old) = old
      BY DEF TextAt, IsString, Missing
    <2>4. QED
      BY <1>1, <2>1, <2>2, <2>3
  <1>3. CASE TextAt(old).kind # "json"
    <2>1. TreeAt(old) = Nil
      BY <1>3 DEF TreeAt
    <2>2. IsString(old) => TextAt(old) = old
      BY DEF TextAt, IsString, Missing
    <2>3. QED
      BY <1>1, <2>1, <2>2, PlainValues DEF IsTree, Nil
  <1>4. QED
    BY <1>2, <1>3

LEMMA AssignedFacts ==
  ASSUME VolInv, NEW key \in Keys, NEW v, Value(v), Assigned(key, v) # Panic
  PROVE  LET old == vol[key.root]
         IN  /\ Value(Assigned(key, v))
             /\ key.path = <<>> => Assigned(key, v) = v
             /\ key.path # <<>> =>
                   /\ IsString(Assigned(key, v))
                   /\ Added(old, key, v) # Panic /\ Value(Added(old, key, v))
                   /\ Assigned(key, v) =
                         IF Added(old, key, v) = TreeAt(old) THEN TextAt(old)
                         ELSE Json(Added(old, key, v))
                   /\ IsTree(Added(old, key, v)) => Assigned(key, v) = Json(Added(old, key, v))
  <1> DEFINE old == vol[key.root]
             new == Added(old, key, v)
  <1>1. key.path \in Ways /\ Node(old)
    BY KeyFacts DEF VolInv
  <1>2. CASE key.path = <<>>
    <2>1. Assigned(key, v) = v
      BY <1>2 DEF Assigned
    <2>2. QED
      BY <1>2, <2>1
  <1>3. CASE key.path # <<>>
    <2>1. new # Panic /\ Assigned(key, v) = IF new = TreeAt(old) THEN TextAt(old) ELSE Json(new)
      <3>1. Assigned(key, v) = CASE key.path = <<>> -> v
                                 [] key.path # <<>> /\ new = Panic -> Panic
                                 [] key.path # <<>> /\ new = TreeAt(old) -> TextAt(old)
                                 [] OTHER -> Json(new)
        BY DEF Assigned, Added, TextAt, TreeAt
      <3>2. TreeAt(old) # Panic
        BY <1>1, TreeFacts, ValueFacts
      <3> HIDE DEF new, old
      <3>3. QED
        BY <1>3, <3>1, <3>2
    <2>2. Value(new)
      <3>1. Add2json(TreeAt(old), key.path, "string", v) # Panic
        BY <2>1 DEF Added
      <3>2. Value(TreeAt(old))
        BY <1>1, TreeFacts
      <3> HIDE DEF old
      <3>3. QED
        BY <1>1, <1>3, <3>1, <3>2, Add2jsonType DEF Added
    <2> HIDE DEF new, old
    <2>3. IsString(Json(new)) /\ Value(Json(new))
      BY <2>2, JsonIsValue DEF IsString, Json
    <2>4. IsString(Assigned(key, v)) /\ Value(Assigned(key, v))
      BY <1>1, <2>1, <2>3, TreeFacts
    <2>5. IsTree(new) => Assigned(key, v) = Json(new)
      BY <1>1, <2>1, TreeFacts
    <2>6. QED
      BY <1>3, <2>1, <2>2, <2>4, <2>5 DEF new, old
  <1>4. QED
    BY <1>2, <1>3

-----------------------------------------------------------------------------
(* Every call leaves a value, or nothing, at every root.                   *)
LEMMA StoreFacts ==
  ASSUME VolInv, NEW call \in {"set", "getSet", "toJson"}, NEW key \in Keys, NEW v, Value(v),
         Store(call, key, v)
  PROVE  /\ VolInv' /\ LastInv'
         /\ last'.op = call /\ last'.key = key /\ last'.val = v
         /\ last'.ok = (Assigned(key, v) # Panic)
         /\ last'.ok => vol' = [vol EXCEPT ![key.root] = Assigned(key, v)]
         /\ ~last'.ok => vol' = vol
  <1> DEFINE new == Assigned(key, v)
  <1>1. /\ vol' = IF new = Panic THEN vol ELSE [vol EXCEPT ![key.root] = new]
        /\ last' = [op |-> call, key |-> key, val |-> v, ok |-> new # Panic]
    BY DEF Store
  <1>2. new # Panic => Value(new)
    BY AssignedFacts
  <1>3. key.root \in Roots
    BY KeyFacts
  <1> HIDE DEF new
  <1>4. VolInv'
    <2>1. CASE new = Panic
      BY <1>1, <2>1 DEF VolInv
    <2>2. CASE new # Panic
      BY <1>1, <1>2, <1>3, <2>2 DEF VolInv, Node
    <2>3. QED
      BY <2>1, <2>2
  <1>5. LastInv'
    BY <1>1 DEF LastInv
  <1>6. QED
    BY <1>1, <1>4, <1>5 DEF new

LEMMA FailFacts ==
  ASSUME VolInv, NEW call \in {"set", "getSet", "toJson"}, NEW key \in Keys, Fail(call, key)
  PROVE  /\ VolInv' /\ LastInv'
         /\ last'.op = call /\ ~last'.ok /\ vol' = vol
  <1>1. vol' = vol /\ last' = [op |-> call, key |-> key, val |-> Nil, ok |-> FALSE]
    BY DEF Fail
  <1>2. QED
    BY <1>1, PlainValues DEF VolInv, LastInv

(* A call stores a value, or fails.                                        *)
LEMMA NextFacts ==
  ASSUME IInv, Next
  PROVE  \/ \E call \in {"set", "getSet", "toJson"}, key \in Keys : Fail(call, key)
         \/ \E call \in {"set", "getSet"}, key \in Keys : \E v : Value(v) /\ Store(call, key, v)
         \/ \E key \in Keys : Value(Read(key)) /\ Store("toJson", key, Json(Read(key)))
  <1>1. VolInv
    BY DEF IInv
  <1>2. CASE \E key \in Keys, v \in Inputs : SetValue(key, v)
    BY <1>2, InputsAreValues DEF SetValue
  <1>3. CASE \E key, from \in Keys : GetSetValue(key, from)
    <2>1. PICK key \in Keys, from \in Keys : GetSetValue(key, from)
      BY <1>3
    <2>2. CASE Read(from) = Panic
      BY <2>1, <2>2 DEF GetSetValue
    <2>3. CASE Read(from) # Panic
      <3>1. Value(Read(from))
        BY <1>1, <2>3, ReadType
      <3>2. Store("getSet", key, Read(from))
        BY <2>1, <2>3 DEF GetSetValue
      <3>3. QED
        BY <3>1, <3>2
    <2>4. QED
      BY <2>2, <2>3
  <1>4. CASE \E key \in Keys : ToJson(key)
    <2>1. PICK key \in Keys : ToJson(key)
      BY <1>4
    <2>2. CASE Read(key) = Panic
      BY <2>1, <2>2 DEF ToJson
    <2>3. CASE Read(key) # Panic
      <3>1. Value(Read(key))
        BY <1>1, <2>3, ReadType
      <3>2. Store("toJson", key, Json(Read(key)))
        BY <2>1, <2>3 DEF ToJson
      <3>3. QED
        BY <3>1, <3>2
    <2>4. QED
      BY <2>2, <2>3
  <1>5. QED
    BY <1>2, <1>3, <1>4 DEF Next

LEMMA InitInv == Init => IInv
  <1>1. SUFFICES ASSUME Init PROVE IInv
    OBVIOUS
  <1>2. VolInv
    BY <1>1 DEF Init, VolInv, Node
  <1>3. LastInv
    BY <1>1 DEF Init, LastInv
  <1>4. QED
    BY <1>1, <1>2, <1>3, BoundsAssumption DEF Init, IInv

LEMMA NextInv == IInv /\ [Next]_vars => IInv'
  <1>1. SUFFICES ASSUME IInv, [Next]_vars PROVE IInv'
    OBVIOUS
  <1>2. CASE Next
    <2>1. VolInv
      BY <1>1 DEF IInv
    <2>2. calls' \in 0..MaxCalls
      BY <1>1, <1>2, BoundsAssumption DEF IInv, Next
    <2>3. VolInv' /\ LastInv'
      <3>1. CASE \E call \in {"set", "getSet", "toJson"}, key \in Keys : Fail(call, key)
        BY <2>1, <3>1, FailFacts
      <3>2. CASE \E call \in {"set", "getSet"}, key \in Keys : \E v : Value(v) /\ Store(call, key, v)
        BY <2>1, <3>2, StoreFacts
      <3>3. CASE \E key \in Keys : Value(Read(key)) /\ Store("toJson", key, Json(Read(key)))
        BY <2>1, <3>3, StoreFacts, JsonIsValue
      <3>4. QED
        BY <1>1, <1>2, <3>1, <3>2, <3>3, NextFacts
    <2>4. QED
      BY <2>2, <2>3 DEF IInv
  <1>3. CASE UNCHANGED vars
    BY <1>1, <1>3 DEF vars, IInv, VolInv, LastInv
  <1>4. QED
    BY <1>1, <1>2, <1>3

LEMMA Invariance == Spec => []IInv
  BY InitInv, NextInv, PTL DEF Spec

(* Whatever the templates set and read, a root holds nothing or a value,   *)
(* and the latest call had a key and a value: nothing that was not found,  *)
(* and no outcome of a panic, gets into the volume of SetValue.            *)
THEOREM Types == Spec => []TypeOK
  <1>1. IInv => TypeOK
    BY ValueIsValue DEF IInv, VolInv, LastInv, TypeOK, Node
  <1>2. QED
    BY <1>1, Invariance, PTL

-----------------------------------------------------------------------------
(* What was stored below a root is read there.                             *)
LEMMA PlaceIsRead ==
  ASSUME VolInv, NEW key \in Keys, NEW v, Value(v), Assigned(key, v) # Panic,
         NEW w, w[key.root] = Assigned(key, v), key.path # <<>>, ~InRows(key.path)
  PROVE  ValueOf(w, key) = Written(v)
  <1> DEFINE p == key.path
             old == vol[key.root]
             new == Added(old, key, v)
  <1>1. p \in Ways /\ p \in Plain /\ Len(p) \in Nat /\ Node(old)
    BY KeyFacts, RowFacts, PathsAreWays DEF VolInv
  <1>2. Value(TreeAt(old))
    BY <1>1, TreeFacts
  <1>3. new # Panic /\ new = SetIn(TreeAt(old), p, Typed("string", v))
    <2>1. new = SetIn(TreeAt(old), p, Typed("string", v))
      BY DEF Added, Add2json
    <2>2. QED
      BY <2>1, AssignedFacts
  <1>4. Typed("string", v) = Written(v) /\ Value(Typed("string", v))
    BY TypedFacts DEF Typed, Zero, Written
  <1> HIDE DEF new, p, old
  <1>5. Value(new) /\ IsTree(new) /\ At(new, p) = Written(v)
    <2>1. p # <<>>
      BY DEF p
    <2>2. Node(TreeAt(old)) /\ SetIn(TreeAt(old), p, Written(v)) # Panic /\ Value(Written(v))
      BY <1>2, <1>3, <1>4 DEF Node
    <2>3. QED
      BY <1>1, <1>3, <1>4, <2>1, <2>2, SetFacts
  <1>6. w[key.root] = Json(new)
    BY <1>5, AssignedFacts DEF new, old, p
  <1>7. ValueOf(w, key) = Final([val |-> Json(new), path |-> p])
    <2>1. IsString(Json(new)) /\ Wrapped(Json(new)) = Json(new)
      BY DEF IsString, Json, Wrapped
    <2>2. QED
      BY <1>6, <2>1, KeyCases, ReadsIsFinal DEF p
  <1>8. SubSeq(p, 1, Len(p)) = p /\ SubSeq(p, Len(p) + 1, Len(p)) = <<>> /\ p # <<>>
        /\ Len(p) \in 1..Len(p)
    <2>1. p # <<>> /\ Len(p) \in 1..Len(p)
      BY <1>1, PathsAreWays DEF p
    <2>2. Len(SubSeq(p, Len(p) + 1, Len(p))) = 0 /\ SubSeq(p, Len(p) + 1, Len(p)) \in Ways
      BY <1>1, <2>1, Parts
    <2>3. SubSeq(p, 1, Len(p)) = p
      BY <1>1, SubSeqFull DEF Ways
    <2>4. QED
      BY <2>1, <2>2, <2>3, PathsAreWays
  <1>9. At(new, SubSeq(p, 1, Len(p))) # Missing
    BY <1>4, <1>5, <1>8, ValueFacts
  <1>10. Final([val |-> Json(new), path |-> p]) = Final([val |-> Written(v), path |-> <<>>])
    <2>1. \A m \in 1..Len(p) : m <= Len(p)
      BY <1>1
    <2>2. Final([val |-> Json(new), path |-> p]) =
             Final([val |-> At(new, SubSeq(p, 1, Len(p))), path |-> SubSeq(p, Len(p) + 1, Len(p))])
      <3>1. PICK j : j = Json(new)
        OBVIOUS
      <3>2. j.kind = "json" /\ new = Unwrapped(j)
        BY <1>5, <3>1, UnwrappedFacts DEF Json, IsTree, IsString
      <3>3. Final([val |-> j, path |-> p]) =
               Final([val |-> At(new, SubSeq(p, 1, Len(p))), path |-> SubSeq(p, Len(p) + 1, Len(p))])
        BY <1>1, <1>8, <1>9, <2>1, <3>2, MostThere
      <3>4. QED
        BY <3>1, <3>3
    <2>3. QED
      BY <1>5, <1>8, <2>2
  <1>11. QED
    BY <1>7, <1>10, FinalEmpty

(* The same of a column, when its array is one.                            *)
ColumnAt(w, key, n) ==
    /\ Columned(key.path, n)
    /\ Unwrapped(Walk(w[key.root], SubSeq(key.path, 1, n - 1))).kind = "arr"

LEMMA ColumnIsRead ==
  ASSUME VolInv, NEW key \in Keys, NEW v, Value(v), v.kind = "arr", Assigned(key, v) # Panic,
         NEW w, w[key.root] = Assigned(key, v), NEW n \in Nat, ColumnAt(w, key, n)
  PROVE  LET list == [i \in 1..Len(v.e) |-> Written(v.e[i])]
         IN  StartsWith(ValueOf(w, key), Len(v.e), list) /\ Node(ValueOf(w, key))
  <1> DEFINE p == key.path
             old == vol[key.root]
             new == Added(old, key, v)
             x == Assigned(key, v)
             L == Len(v.e)
             list == [i \in 1..L |-> Written(v.e[i])]
  <1>1. p \in Ways /\ Len(p) \in Nat /\ n \in 1..Len(p) /\ p[n] = Each /\ p # <<>>
    <2>1. p \in Ways /\ Len(p) \in Nat
      BY KeyFacts, PathsAreWays
    <2>2. n \in 1..Len(p) /\ p[n] = Each
      BY <2>1 DEF ColumnAt, Columned
    <2>3. QED
      BY <2>1, <2>2, PathsAreWays
  <1>2. InRows(p) /\ Node(old) /\ Value(TreeAt(old))
    <2>1. InRows(p)
      BY <1>1, RowFacts
    <2>2. Node(old)
      BY KeyFacts DEF VolInv
    <2>3. QED
      BY <2>1, <2>2, TreeFacts
  <1>3. Value(x) /\ IsString(x) /\ ValueOf(w, key) = Reads(x, p)
    BY <1>1, AssignedFacts, KeyCases
  <1>4. L \in Nat /\ \A i \in 1..L : Value(v.e[i])
    BY Elements
  <1>5. \A i \in 1..L : list[i] = Typed("string", v.e[i]) /\ Value(list[i])
    <2>1. \A i \in 1..L : list[i] = Typed("string", v.e[i])
      BY DEF Typed, Zero, Written
    <2>2. QED
      BY <1>4, <2>1, TypedFacts
  <1> HIDE DEF p
  <1>6. AtRows(Unwrapped(x), p, L, list)
    <2>1. CASE L = 0
      BY <2>1 DEF AtRows
    <2>2. CASE L # 0
      <3>1. v # Nil
        BY DEF Nil
      <3>2. new # Panic /\ new = Filled(TreeAt(old), p, "string", v.e)[L]
        <4>1. new = Filled(TreeAt(old), p, "string", v.e)[L]
          BY <1>2, <3>1 DEF Added, Add2json, p
        <4>2. QED
          BY <1>1, <4>1, AssignedFacts DEF p
      <3> HIDE DEF old, new, L, list
      <3>3. L \in 0..Len(v.e) /\ L = Len(v.e)
        BY <1>4 DEF L
      <3>4. IsTree(new) /\ \A i \in 1..L : At(new, Row(p, i - 1)) = Typed("string", v.e[i])
        BY <1>1, <1>2, <1>4, <2>2, <3>2, <3>3, FilledFacts
      <3>5. x = Json(new)
        BY <1>1, <3>4, AssignedFacts DEF new, old, p
      <3>6. Unwrapped(x) = new
        BY <3>4, <3>5 DEF Unwrapped, Entered, Json, IsTree
      <3>7. \A i \in 1..L : list[i] # Missing
        BY <1>5, ValueFacts
      <3>8. QED
        BY <1>5, <3>4, <3>6, <3>7 DEF AtRows
    <2>3. QED
      BY <2>1, <2>2
  <1>7. Columned(p, n) /\ Unwrapped(Walk(x, SubSeq(p, 1, n - 1))).kind = "arr"
    BY DEF ColumnAt, p
  <1> HIDE DEF x, list, L
  <1>8. StartsWith(Reads(x, p), L, list)
    BY <1>1, <1>3, <1>4, <1>6, <1>7, Column
  <1>9. Node(Reads(x, p))
    <2>1. Reads(x, p) # Panic
      BY <1>8 DEF StartsWith, Panic
    <2>2. QED
      BY <1>1, <1>3, <2>1, ReadsType
  <1>10. QED
    BY <1>3, <1>8, <1>9 DEF list, L

(* What a list starts with is a prefix of it.                              *)
LEMMA StartIsPrefix ==
  ASSUME NEW v, Value(v), NEW L \in Nat, NEW list, list = [i \in 1..L |-> list[i]],
         StartsWith(v, L, list)
  PROVE  IsPrefix(list, v.e)
  <1>1. /\ v.kind = "arr" /\ Len(v.e) \in Nat /\ L <= Len(v.e)
        /\ \A i \in 1..L : v.e[i] = list[i]
    BY DEF StartsWith
  <1>2. v.e \in Seq(ToSet(v.e)) /\ \A i \in 1..L : list[i] \in ToSet(v.e)
    <2>1. v.e \in Seq(ToSet(v.e))
      BY <1>1, ValueFacts
    <2>2. \A i \in 1..L : v.e[i] \in ToSet(v.e)
      BY <1>1, <2>1, ElementOfSeq
    <2>3. QED
      BY <1>1, <2>1, <2>2
  <1>3. list \in Seq(ToSet(v.e)) /\ Len(list) = L
    BY <1>2
  <1>4. SubSeq(list, 1, L) = list /\ SubSeq(v.e, 1, L) = list
    <2>1. PICK e : e = v.e
      OBVIOUS
    <2>2. \A i \in 1..L : e[i] = list[i] /\ e[i] \in ToSet(v.e) /\ i + 1 - 1 = i
      BY <1>1, <1>2, <2>1
    <2>3. /\ SubSeq(e, 1, L) \in Seq(ToSet(v.e)) /\ Len(SubSeq(e, 1, L)) = L
          /\ \A i \in 1..L : SubSeq(e, 1, L)[i] = e[1 + i - 1]
      BY <2>2, SubSeqProperties
    <2>4. PICK t \in Seq(ToSet(v.e)) : t = SubSeq(e, 1, L)
      BY <2>3
    <2>5. Len(t) = L /\ \A i \in 1..L : t[i] = list[i]
      BY <2>2, <2>3, <2>4
    <2>6. t = list
      BY <1>3, <2>5, SeqEqual
    <2>7. SubSeq(list, 1, L) = list
      BY <1>3, SubSeqFull
    <2>8. QED
      BY <2>1, <2>4, <2>6, <2>7
  <1>5. QED
    BY <1>1, <1>3, <1>4 DEF IsPrefix

LEMMA ToRowsFacts ==
  ASSUME NEW w, NEW key \in Keys,
         \E n \in 1..(Len(key.path) - 1) :
            /\ {m \in DOMAIN key.path : key.path[m] = Each} = {n}
            /\ Unwrapped(Walk(w[key.root], SubSeq(key.path, 1, n - 1))).kind = "arr"
  PROVE  \E n \in Nat : ColumnAt(w, key, n)
  <1>1. key.path \in Ways /\ Len(key.path) \in Nat /\ DOMAIN key.path = 1..Len(key.path)
    BY KeyFacts, PathsAreWays DEF Ways
  <1>2. PICK n \in 1..(Len(key.path) - 1) :
           /\ {m \in DOMAIN key.path : key.path[m] = Each} = {n}
           /\ Unwrapped(Walk(w[key.root], SubSeq(key.path, 1, n - 1))).kind = "arr"
    OBVIOUS
  <1>3. key.path[n] = Each /\ \A m \in 1..Len(key.path) : m # n => key.path[m] # Each
    BY <1>1, <1>2
  <1>4. n \in Nat /\ ColumnAt(w, key, n)
    BY <1>1, <1>2, <1>3 DEF ColumnAt, Columned
  <1>5. QED
    BY <1>4

(* A call that stores reads its own write.                                 *)
LEMMA StoreReads ==
  ASSUME VolInv, NEW call \in {"set", "getSet", "toJson"}, NEW key \in Keys, NEW v, Value(v),
         Store(call, key, v)
  PROVE  ReadYourWrites'
  <1>1. /\ last'.key = key /\ last'.val = v /\ key.root \in Roots /\ VolInv'
        /\ last'.ok => Assigned(key, v) # Panic /\ vol'[key.root] = Assigned(key, v)
    <2>1. key.root \in Roots /\ DOMAIN vol = Roots
      BY KeyFacts DEF VolInv
    <2>2. /\ VolInv' /\ last'.key = key /\ last'.val = v
          /\ last'.ok = (Assigned(key, v) # Panic)
          /\ last'.ok => vol' = [vol EXCEPT ![key.root] = Assigned(key, v)]
      BY StoreFacts
    <2>3. QED
      BY <2>1, <2>2
  <1>2. SUFFICES ASSUME last'.ok
                 PROVE  /\ key.path = <<>> => ValueOf(vol', key) = v
                        /\ key.path # <<>> /\ ~InRows(key.path) => ValueOf(vol', key) = Written(v)
                        /\ ToRows(key)' /\ v.kind = "arr" =>
                              /\ ValueOf(vol', key).kind = "arr"
                              /\ IsPrefix([i \in 1..Len(v.e) |-> Written(v.e[i])],
                                          ValueOf(vol', key).e)
    BY <1>1 DEF ReadYourWrites
  <1>3. Assigned(key, v) # Panic /\ vol'[key.root] = Assigned(key, v)
    BY <1>1, <1>2
  <1>4. ASSUME key.path = <<>> PROVE ValueOf(vol', key) = v
    BY <1>3, <1>4, AssignedFacts, KeyCases
  <1>5. ASSUME key.path # <<>>, ~InRows(key.path) PROVE ValueOf(vol', key) = Written(v)
    BY <1>3, <1>5, PlaceIsRead
  <1>6. ASSUME ToRows(key)', v.kind = "arr"
        PROVE  /\ ValueOf(vol', key).kind = "arr"
               /\ IsPrefix([i \in 1..Len(v.e) |-> Written(v.e[i])], ValueOf(vol', key).e)
    <2> DEFINE L == Len(v.e)
               list == [i \in 1..L |-> Written(v.e[i])]
               read == ValueOf(vol', key)
    <2>1. PICK n \in Nat : ColumnAt(vol', key, n)
      BY <1>6, ToRowsFacts DEF ToRows
    <2>2. StartsWith(read, L, list) /\ Node(read)
      BY <1>3, <1>6, <2>1, ColumnIsRead
    <2>3. L \in Nat /\ list = [i \in 1..L |-> list[i]]
      BY <1>6, Elements
    <2> HIDE DEF L, list, read
    <2>4. read.kind = "arr" /\ Value(read)
      BY <2>2 DEF StartsWith, Node, Missing
    <2>5. IsPrefix(list, read.e)
      BY <2>2, <2>3, <2>4, StartIsPrefix
    <2>6. QED
      BY <2>4, <2>5 DEF L, list, read
  <1>7. QED
    BY <1>4, <1>5, <1>6

(* What was set is what is read, after any calls of SetValue, getSetValue  *)
(* and toJson, whatever was there before: at a root the value itself, at a *)
(* place below it the value, nil as "", and a column before the rows of a  *)
(* longer array.                                                           *)
THEOREM WritesAreRead == Spec => []ReadYourWrites
  <1>1. Init => ReadYourWrites
    BY DEF Init, ReadYourWrites
  <1>2. IInv /\ ReadYourWrites /\ [Next]_vars => ReadYourWrites'
    <2>1. SUFFICES ASSUME IInv, ReadYourWrites, [Next]_vars PROVE ReadYourWrites'
      OBVIOUS
    <2>2. CASE Next
      <3>1. VolInv
        BY <2>1 DEF IInv
      <3>2. CASE \E call \in {"set", "getSet", "toJson"}, key \in Keys : Fail(call, key)
        <4>1. ~last'.ok
          BY <3>1, <3>2, FailFacts
        <4>2. QED
          BY <4>1 DEF ReadYourWrites
      <3>3. CASE \E call \in {"set", "getSet"}, key \in Keys : \E v : Value(v) /\ Store(call, key, v)
        BY <3>1, <3>3, StoreReads
      <3>4. CASE \E key \in Keys : Value(Read(key)) /\ Store("toJson", key, Json(Read(key)))
        BY <3>1, <3>4, StoreReads, JsonIsValue
      <3>5. QED
        BY <2>1, <2>2, <3>2, <3>3, <3>4, NextFacts
    <2>3. CASE UNCHANGED vars
      BY <2>1, <2>3 DEF vars, ReadYourWrites, ToRows
    <2>4. QED
      BY <2>1, <2>2, <2>3
  <1>3. QED
    BY <1>1, <1>2, Invariance, PTL DEF Spec

(* Looking up with ever shorter prefixes of a key, and again in the        *)
(* strings found, is walking from the top through the text of objects and  *)
(* arrays, and through an array in texts inside each other as far as it    *)
(* can be made out; GetValueFromJson panics where the walk meets other     *)
(* text.                                                                   *)
THEOREM LookupsAreWalks == Spec => []LookupIsWalk
  <1>1. IInv => LookupIsWalk
    <2>1. SUFFICES ASSUME IInv, NEW key \in Keys, key.path # <<>>, ~InRows(key.path),
                          IsString(vol[key.root]), MadeOut(key)
                   PROVE  ValueOf(vol, key) = IF MeetsText(vol[key.root], key.path) THEN Panic
                                              ELSE Walk(vol[key.root], key.path)
      BY DEF LookupIsWalk
    <2>2. key.path \in Plain /\ Node(vol[key.root])
      BY <2>1, KeyFacts, RowFacts DEF IInv, VolInv
    <2>3. Value(vol[key.root])
      BY <2>1, <2>2 DEF Node, IsString, Missing
    <2>4. QED
      BY <2>1, <2>2, <2>3, KeyCases, ReadsIsWalk DEF MadeOut
  <1>2. QED
    BY <1>1, Invariance, PTL

-----------------------------------------------------------------------------
(* No row of the path of a set goes along with a path that is not          *)
(* comparable to it, and none of them meets a string on the way they share.*)
LEMMA RowsAreClear ==
  ASSUME NEW d, NEW p \in Ways, NEW q \in Plain, NEW k \in 1..Len(p), k \in 1..Len(q),
         ~Same(q[k], p[k]), NEW i \in Nat, ~IsString(d),
         \A n \in 1..(Len(p) - 1) : ~IsString(Walks(Json(d), Row(p, i))[n])
  PROVE  Diverge(Row(p, i), q) /\ Clear(d, Row(p, i), q)
  <1> DEFINE r == Row(p, i)
  <1>1. /\ r \in Plain /\ r \in Ways /\ q \in Ways /\ Len(r) = Len(p)
        /\ Len(p) \in Nat /\ Len(q) \in Nat
        /\ r[k] = IF p[k] = Each THEN i ELSE p[k]
    BY RowFacts, PlainWays, PathsAreWays
  <1>2. r[k] # q[k]
    <2>1. q[k] \in Segs /\ q[k] # Each
      BY NamesAssumption, ElementOfSeq DEF Plain
    <2>2. CASE p[k] = Each
      BY <1>1, <2>1, <2>2 DEF Same
    <2>3. CASE p[k] # Each
      BY <1>1, <2>3 DEF Same
    <2>4. QED
      BY <2>2, <2>3
  <1> HIDE DEF r
  <1>3. Diverge(r, q)
    BY <1>1, <1>2 DEF Diverge
  <1>4. ASSUME NEW n \in 1..Len(q), Along(r, q, n) PROVE ~IsString(Walks(Json(d), q)[n])
    <2>1. n <= Len(p) /\ \A j \in 1..n : r[j] = q[j]
      BY <1>1, <1>4 DEF Along
    <2>2. n < k
      BY <1>1, <1>2, <2>1
    <2>3. n \in 1..(Len(p) - 1) /\ n \in Nat
      BY <1>1, <2>2
    <2>4. Walks(Json(d), r)[n] = Walks(Json(d), q)[n]
      BY <1>1, <2>1, <2>3, WalksShared
    <2>5. QED
      BY <2>3, <2>4 DEF r
  <1>5. QED
    BY <1>3, <1>4 DEF Clear, r

LEMMA AddedKeeps ==
  ASSUME NEW d, Value(d), NEW p \in Ways, NEW q \in Plain, NEW k \in 1..Len(p), k \in 1..Len(q),
         ~Same(q[k], p[k]), NEW v, Value(v), Found(Reads(Json(d), q)), ~IsString(d),
         \A n \in 1..(Len(p) - 1), i \in Rows(v) : ~IsString(Walks(Json(d), Row(p, i))[n]),
         Add2json(d, p, "string", v) # Panic
  PROVE  Reads(Json(Add2json(d, p, "string", v)), q) = Reads(Json(d), q)
  <1>1. ASSUME NEW i \in Nat, i \in Rows(v)
        PROVE  Diverge(Row(p, i), q) /\ Clear(d, Row(p, i), q)
    BY <1>1, RowsAreClear
  <1>2. CASE ~InRows(p)
    <2>1. 0 \in Nat /\ 0 \in Rows(v)
      <3>1. CASE v.kind = "arr" /\ v.e # <<>>
        <4>1. Len(v.e) \in Nat /\ v.e \in Seq(ToSet(v.e))
          BY <3>1, Elements, ValueFacts
        <4>2. Len(v.e) # 0
          BY <3>1, <4>1, EmptySeq
        <4>3. QED
          BY <3>1, <4>1, <4>2 DEF Rows
      <3>2. CASE ~(v.kind = "arr" /\ v.e # <<>>)
        BY <3>2 DEF Rows
      <3>3. QED
        BY <3>1, <3>2
    <2>2. p \in Plain /\ Row(p, 0) = p
      BY <1>2, RowFacts
    <2>3. Diverge(p, q) /\ Clear(d, p, q)
      BY <1>1, <2>1, <2>2
    <2>4. Add2json(d, p, "string", v) = SetIn(d, p, Typed("string", v))
      BY <1>2 DEF Add2json
    <2>5. Value(Typed("string", v))
      BY TypedFacts
    <2>6. QED
      BY <2>2, <2>3, <2>4, <2>5, ReadsApart
  <1>3. CASE InRows(p) /\ v = Nil
    BY <1>3 DEF Add2json, Nil
  <1>4. CASE InRows(p) /\ v # Nil
    <2>1. v.kind = "arr" /\ Add2json(d, p, "string", v) = Filled(d, p, "string", v.e)[Len(v.e)]
      BY <1>4 DEF Add2json, Nil
    <2>2. Len(v.e) \in Nat /\ \A i \in 1..Len(v.e) : Value(v.e[i])
      BY <2>1, Elements
    <2>3. ASSUME NEW i \in 1..Len(v.e)
          PROVE  Diverge(Row(p, i - 1), q) /\ Clear(d, Row(p, i - 1), q)
      <3>1. v.e # <<>>
        BY <2>2, <2>3
      <3>2. i - 1 \in Nat /\ i - 1 \in Rows(v)
        BY <2>1, <2>2, <3>1 DEF Rows
      <3>3. QED
        BY <1>1, <3>2
    <2>4. PICK list : list = v.e
      OBVIOUS
    <2>5. /\ Len(list) \in Nat /\ Len(list) \in 0..Len(list)
          /\ \A i \in 1..Len(list) : Value(list[i])
          /\ \A i \in 1..Len(list) : Diverge(Row(p, i - 1), q) /\ Clear(d, Row(p, i - 1), q)
          /\ Filled(d, p, "string", list)[Len(list)] # Panic
      BY <2>1, <2>2, <2>3, <2>4
    <2>6. Reads(Json(Filled(d, p, "string", list)[Len(list)]), q) = Reads(Json(d), q)
      BY <1>4, <2>5, FilledReads
    <2>7. QED
      BY <2>1, <2>4, <2>6
  <1>5. QED
    BY <1>2, <1>3, <1>4

(* Storing at one key keeps what another reads.                            *)
LEMMA StoreKeeps ==
  ASSUME VolInv, NEW set \in Keys, NEW v, Value(v), Assigned(set, v) # Panic,
         NEW w, w = [vol EXCEPT ![set.root] = Assigned(set, v)],
         NEW key \in Keys, Found(ValueOf(vol, key)), ~InRows(key.path),
         ~(key.root = set.root /\ Comparable(key.path, set.path)), ~ThroughString(set, v)
  PROVE  ValueOf(w, key) = ValueOf(vol, key)
  <1> DEFINE p == set.path
             q == key.path
             old == vol[set.root]
             d == TreeAt(old)
             new == Added(old, set, v)
  <1>1. p \in Ways /\ q \in Ways /\ set.root \in Roots /\ key.root \in Roots
        /\ DOMAIN vol = Roots /\ Node(old)
    BY KeyFacts DEF VolInv
  <1>2. CASE key.root # set.root
    <2>1. w[key.root] = vol[key.root]
      BY <1>1, <1>2
    <2>2. QED
      BY <2>1 DEF ValueOf
  <1>3. CASE key.root = set.root
    <2>1. PICK k \in 1..Len(p) : k \in 1..Len(q) /\ ~Same(q[k], p[k])
      <3>1. DOMAIN p = 1..Len(p) /\ DOMAIN q = 1..Len(q)
        BY <1>1 DEF Ways
      <3>2. QED
        BY <1>3, <3>1 DEF Comparable
    <2>2. p # <<>> /\ q # <<>> /\ q \in Plain
      <3>1. p # <<>> /\ q # <<>>
        BY <1>1, <2>1, PathsAreWays
      <3>2. QED
        BY <1>1, <3>1, RowFacts
    <2>3. w[key.root] = Assigned(set, v) /\ IsString(Assigned(set, v))
      BY <1>1, <1>3, <2>2, AssignedFacts
    <2>4. IsString(old) /\ ValueOf(vol, key) = Reads(old, q)
      BY <1>3, <2>2, KeyCases DEF Found
    <2>5. old = Json(d) /\ Value(d) /\ TextAt(old) = old
      <3>1. Value(old) /\ TextAt(old) = old /\ Value(d)
        BY <1>1, <2>4, TreeFacts DEF Node, IsString, Missing
      <3>2. Found(Reads(old, q)) /\ q[1] # Each
        BY <2>2, <2>4, PlainWays
      <3> HIDE DEF d, q, old
      <3>3. old.kind # "text"
        BY <1>1, <2>2, <3>1, <3>2, ReadsStep DEF Found
      <3>4. old.kind # "empty"
        <4>1. SUFFICES ASSUME old.kind = "empty" PROVE FALSE
          OBVIOUS
        <4>2. Child(Unwrapped(old), q[1]) = Missing
          BY <4>1 DEF Unwrapped, Child
        <4>3. QED
          BY <1>1, <2>2, <3>1, <3>2, <3>3, <4>2, ReadsStep DEF Found
      <3>5. old.kind = "json" /\ old = Json(old.d)
        BY <2>4, <3>1, <3>3, <3>4, ValueFacts DEF IsString
      <3>6. d = old.d
        BY <3>1, <3>5 DEF d, TreeAt
      <3>7. QED
        BY <3>1, <3>5, <3>6
    <2>6. /\ new # Panic /\ new = Add2json(d, p, "string", v)
          /\ Assigned(set, v) = IF new = d THEN TextAt(old) ELSE Json(new)
      BY <2>2, AssignedFacts DEF Added
    <2>7. /\ ~IsString(d)
          /\ \A n \in 1..(Len(p) - 1), i \in Rows(v) : ~IsString(Walks(Json(d), Row(p, i))[n])
      BY <2>5 DEF ThroughString
    <2> HIDE DEF d, new, p, q
    <2>8. Reads(Json(new), q) = Reads(Json(d), q)
      BY <1>1, <2>1, <2>2, <2>4, <2>5, <2>6, <2>7, AddedKeeps
    <2>9. Reads(Assigned(set, v), q) = Reads(old, q)
      BY <2>5, <2>6, <2>8
    <2>10. ValueOf(w, key) = Reads(Assigned(set, v), q)
      BY <2>2, <2>3, KeyCases DEF q
    <2>11. QED
      BY <2>4, <2>9, <2>10
  <1>4. QED
    BY <1>2, <1>3

(* Below an object or array that became text, what could be read reads the *)
(* same; at a column toJson panics, and a root it turned into text read    *)
(* nothing below.                                                          *)
LEMMA TextKeeps ==
  ASSUME VolInv, NEW set \in Keys, NEW x, Value(x), IsTree(x), x = ValueOf(vol, set),
         Assigned(set, Json(x)) # Panic,
         NEW w, w[set.root] = Assigned(set, Json(x)),
         NEW key \in Keys, key.root = set.root, IsPrefix(set.path, key.path),
         key.path # set.path, Found(ValueOf(vol, key))
  PROVE  ValueOf(w, key) = ValueOf(vol, key)
  <1> DEFINE p == set.path
             q == key.path
             old == vol[set.root]
             d == TreeAt(old)
             new == Added(old, set, Json(x))
  <1>1. p \in Ways /\ q \in Ways /\ Node(old) /\ Len(p) \in Nat /\ Len(q) \in Nat
    BY KeyFacts, PathsAreWays DEF VolInv
  <1>2. Len(p) <= Len(q) /\ \A i \in 1..Len(p) : p[i] = q[i]
    <2>1. Len(p) <= Len(q) /\ SubSeq(p, 1, Len(p)) = SubSeq(q, 1, Len(p))
      BY DEF IsPrefix
    <2>2. \A i \in 1..Len(p) : p[i] \in Segs \cup {Each} /\ q[i] \in Segs \cup {Each}
                                 /\ 1 + i - 1 = i
      BY <1>1, <2>1, ElementOfSeq DEF Ways
    <2> HIDE DEF p, q
    <2>3. \A i \in 1..Len(p) - 1 + 1 : SubSeq(p, 1, Len(p))[i] = p[1 + i - 1]
      BY <1>1, <2>2, SubSeqProperties
    <2>4. \A i \in 1..Len(p) - 1 + 1 : SubSeq(q, 1, Len(p))[i] = q[1 + i - 1]
      BY <1>1, <2>2, SubSeqProperties
    <2>5. Len(p) - 1 + 1 = Len(p)
      BY <1>1
    <2>6. QED
      BY <2>1, <2>2, <2>3, <2>4, <2>5
  <1>3. q # <<>>
    <2>1. SUFFICES ASSUME q = <<>> PROVE FALSE
      OBVIOUS
    <2>2. Len(q) = 0 /\ Len(p) = 0
      BY <1>1, <1>2, <2>1, PathsAreWays
    <2>3. p = <<>>
      BY <1>1, <2>2, PathsAreWays
    <2>4. QED
      BY <2>1, <2>3
  <1>4. IsString(old) /\ ValueOf(vol, key) = Reads(old, q)
    BY <1>3, KeyCases DEF Found
  <1>5. Value(old) /\ TextAt(old) = old /\ Value(d)
    BY <1>1, <1>4, TreeFacts DEF Node, IsString, Missing
  <1>6. p # <<>> /\ x = Reads(old, p)
    <2>1. p # <<>>
      BY <1>4, KeyCases DEF IsTree, IsString
    <2>2. QED
      BY <1>4, <2>1, KeyCases
  <1>7. Value(Json(x)) /\ ~IsString(x) /\ Found(x)
    BY JsonIsValue, ValueFacts DEF IsTree, IsString
  <1>8. new # Panic /\ new = Add2json(d, p, "string", Json(x)) /\ Value(new)
    BY <1>6, <1>7, AssignedFacts DEF Added
  <1>9. ~InRows(p)
    <2>1. SUFFICES ASSUME InRows(p) PROVE FALSE
      OBVIOUS
    <2>2. Json(x) # Nil /\ Json(x).kind = "json"
      BY DEF Json, Nil
    <2> HIDE DEF new, d, p
    <2>3. new = Panic
      BY <1>8, <2>1, <2>2 DEF Add2json
    <2>4. QED
      BY <1>8, <2>3
  <1>10. p \in Plain
    BY <1>1, <1>9, RowFacts
  <1>11. Written(Json(x)) = Json(x)
    BY DEF Written, Json, Nil
  <1>12. ValueOf(w, set) = Json(x)
    BY <1>6, <1>7, <1>9, <1>11, PlaceIsRead
  <1>13. /\ IsString(Assigned(set, Json(x))) /\ Value(Assigned(set, Json(x)))
         /\ w[key.root] = Assigned(set, Json(x))
    BY <1>6, <1>7, AssignedFacts
  <1> DEFINE y == Assigned(set, Json(x))
             r == SubSeq(q, Len(p) + 1, Len(q))
  <1>14. Reads(y, p) = Json(x) /\ ValueOf(w, key) = Reads(y, q)
    BY <1>3, <1>6, <1>12, <1>13, KeyCases
  <1>15. r # <<>>
    <2>1. Len(p) \in 1..Len(q)
      BY <1>1, <1>2, <1>6, PathsAreWays
    <2>2. CASE Len(p) = Len(q)
      <3> HIDE DEF p, q
      <3>1. p = q
        BY <1>1, <1>2, <2>2, SeqEqual DEF Ways
      <3>2. QED
        BY <3>1 DEF p, q
    <2>3. CASE Len(p) # Len(q)
      <3>1. Len(r) = Len(q) - Len(p) /\ r \in Ways
        BY <1>1, <1>3, <2>1, Parts
      <3> HIDE DEF r, p, q
      <3>2. Len(r) # 0
        BY <1>1, <2>3, <3>1
      <3>3. QED
        BY <3>1, <3>2, PathsAreWays
    <2>4. QED
      BY <2>2, <2>3
  <1> HIDE DEF p, q, old, new, d, y
  <1>16. Reads(old, q) = Reads(x, r)
    BY <1>1, <1>2, <1>5, <1>6, <1>7, <1>10, ReadsBelow
  <1>17. Reads(y, q) = Reads(Json(x), r)
    <2>1. Found(Reads(y, p)) /\ Value(y)
      BY <1>7, <1>13, <1>14, ValueFacts DEF y
    <2>2. QED
      BY <1>1, <1>2, <1>10, <1>14, <2>1, ReadsBelow
  <1> HIDE DEF r
  <1>18. Reads(Json(x), r) = Reads(x, r)
    BY <1>7, <1>15, ReadsJson
  <1>19. QED
    BY <1>4, <1>14, <1>16, <1>17, <1>18

(* One step of SetKeepsOthers ...                                          *)
LEMMA StepKeepsOthers ==
  ASSUME IInv, Next
  PROVE  SetKeepsOthers
  <1>1. VolInv
    BY DEF IInv
  <1>2. CASE vol' = vol
    BY <1>2 DEF SetKeepsOthers
  <1>3. ASSUME NEW call \in {"set", "getSet", "toJson"}, NEW set \in Keys, NEW v, Value(v),
               Store(call, set, v)
        PROVE  SetKeepsOthers
    <2>1. /\ last'.key = set /\ last'.val = v
          /\ ~last'.ok => vol' = vol
          /\ last'.ok = (Assigned(set, v) # Panic)
          /\ last'.ok => vol' = [vol EXCEPT ![set.root] = Assigned(set, v)]
      BY <1>1, <1>3, StoreFacts
    <2>2. SUFFICES ASSUME last'.ok PROVE SetKeepsOthers
      BY <1>2, <2>1
    <2>3. SUFFICES ASSUME NEW key \in Keys, Found(ValueOf(vol, key)), ~InRows(key.path),
                          ~(key.root = set.root /\ Comparable(key.path, set.path)),
                          ~ThroughString(set, v)
                   PROVE  ValueOf(vol', key) = ValueOf(vol, key)
      BY <2>1 DEF SetKeepsOthers
    <2>4. Assigned(set, v) # Panic /\ vol' = [vol EXCEPT ![set.root] = Assigned(set, v)]
      BY <2>1, <2>2
    <2>5. QED
      BY <1>1, <1>3, <2>3, <2>4, StoreKeeps
  <1>4. CASE \E call \in {"set", "getSet", "toJson"}, key \in Keys : Fail(call, key)
    BY <1>2, <1>4 DEF Fail
  <1>5. CASE \E call \in {"set", "getSet"}, key \in Keys : \E v : Value(v) /\ Store(call, key, v)
    BY <1>3, <1>5
  <1>6. CASE \E key \in Keys : Value(Read(key)) /\ Store("toJson", key, Json(Read(key)))
    BY <1>3, <1>6, JsonIsValue
  <1>7. QED
    BY <1>4, <1>5, <1>6, NextFacts

(* ... and of ToJsonHidesNothing.                                          *)
LEMMA StepHidesNothing ==
  ASSUME IInv, Next
  PROVE  ToJsonHidesNothing
  <1>1. VolInv
    BY DEF IInv
  <1>2. CASE \E call \in {"set", "getSet", "toJson"}, key \in Keys : Fail(call, key)
    BY <1>1, <1>2, FailFacts DEF ToJsonHidesNothing
  <1>3. CASE \E call \in {"set", "getSet"}, key \in Keys : \E v : Value(v) /\ Store(call, key, v)
    <2>1. last'.op # "toJson"
      BY <1>1, <1>3, StoreFacts
    <2>2. QED
      BY <2>1 DEF ToJsonHidesNothing
  <1>4. ASSUME NEW set \in Keys, Value(Read(set)), Store("toJson", set, Json(Read(set)))
        PROVE  ToJsonHidesNothing
    <2> DEFINE x == Read(set)
    <2>1. Value(Json(x))
      BY <1>4, JsonIsValue
    <2>2. /\ last'.key = set
          /\ last'.ok = (Assigned(set, Json(x)) # Panic)
          /\ last'.ok => vol' = [vol EXCEPT ![set.root] = Assigned(set, Json(x))]
      BY <1>1, <1>4, <2>1, StoreFacts
    <2>3. SUFFICES ASSUME last'.ok, IsTree(x), NEW key \in Keys, key.root = set.root,
                          IsPrefix(set.path, key.path), key.path # set.path,
                          Found(ValueOf(vol, key))
                   PROVE  ValueOf(vol', key) = ValueOf(vol, key)
      BY <2>2 DEF ToJsonHidesNothing
    <2>4. x = ValueOf(vol, set)
      BY <2>3 DEF Read, IsTree, Nil
    <2>5. Assigned(set, Json(x)) # Panic /\ vol'[set.root] = Assigned(set, Json(x))
      <3>1. set.root \in Roots /\ DOMAIN vol = Roots
        BY <1>1, KeyFacts DEF VolInv
      <3>2. QED
        BY <2>2, <2>3, <3>1
    <2> HIDE DEF x
    <2>6. Value(x)
      BY <1>4 DEF x
    <2>7. QED
      BY <1>1, <2>3, <2>4, <2>5, <2>6, TextKeeps
  <1>5. QED
    BY <1>2, <1>3, <1>4, NextFacts

(* A call changes what other keys read in no other way than by containing  *)
(* them, being inside them, or replacing the text of a string in the tree; *)
(* and toJson hides nothing of what it turns into text.                    *)
THEOREM CallsKeepOthers == Spec => OthersKept
  <1>1. IInv /\ [Next]_vars => [SetKeepsOthers /\ ToJsonHidesNothing]_vars
    BY StepKeepsOthers, StepHidesNothing
  <1>2. QED
    BY <1>1, Invariance, PTL DEF Spec, OthersKept

-----------------------------------------------------------------------------
(* Schemas and paths.                                                      *)
(* What is assumed of schemas, for a path of one.                          *)
LEMMA SchemaFacts ==
  ASSUME NEW s \in Schemas
  PROVE  /\ <<>> \in DOMAIN s
         /\ \A p \in DOMAIN s : p \in Ways
         /\ \A p \in Dsts(s) : /\ p \in DOMAIN s /\ p # <<>> /\ p \in Ways
                               /\ Len(p) \in Nat /\ Len(p) >= 1
                               /\ Parent(p) \in DOMAIN s
                               /\ Parent(p) = SubSeq(p, 1, Len(p) - 1)
                               /\ Last(p) = p[Len(p)]
                               /\ p \in Seq(Names \cup {Each})
  <1>1. <<>> \in DOMAIN s /\ \A p \in Dsts(s) : p \in Ways /\ Parent(p) \in DOMAIN s
    <2>1. Seq(Names \cup {Each}) \subseteq Ways
      <3>1. Names \cup {Each} \subseteq Segs \cup {Each}
        BY DEF Segs
      <3>2. \A S : \A p \in Seq(Names \cup {Each}) :
               Names \cup {Each} \subseteq S => p \in Seq(S)
        OBVIOUS
      <3>3. QED
        BY <3>1, <3>2 DEF Ways
    <2>2. QED
      BY <2>1, SchemasAssumption
  <1>2. <<>> \in Ways
    BY EmptySeq DEF Ways
  <1>3. \A p \in DOMAIN s : p \in Ways
    BY <1>1, <1>2 DEF Dsts
  <1>4. ASSUME NEW p \in Dsts(s)
        PROVE  /\ p \in DOMAIN s /\ p # <<>>
               /\ Len(p) \in Nat /\ Len(p) >= 1
               /\ Parent(p) = SubSeq(p, 1, Len(p) - 1)
               /\ Last(p) = p[Len(p)]
    <2>1. p \in DOMAIN s /\ p # <<>>
      BY DEF Dsts
    <2>2. Len(p) \in Nat /\ Len(p) >= 1
      BY <1>1, <2>1, Rest DEF Ways
    <2>3. QED
      BY <2>1, <2>2 DEF Parent, Front, Last
  <1>5. \A p \in Dsts(s) : p \in Seq(Names \cup {Each})
    BY SchemasAssumption
  <1>6. QED
    BY <1>1, <1>3, <1>4, <1>5

LEMMA SourceFacts ==
  ASSUME NEW s \in Schemas, NEW p \in DOMAIN s
  PROVE  /\ s[p].src # NoSrc => /\ s[p].src \in [root : Roots, path : Ways]
                                /\ s[p].src.root \in Roots /\ s[p].src.path \in Ways
         /\ Value(s[p].dflt)
  <1>1. /\ s[p].src # NoSrc => s[p].src \in [root : Roots, path : Seq(Segs \cup {Each})]
        /\ Ends(s[p].dflt)
    BY SchemasAssumption
  <1>2. Value(s[p].dflt)
    BY <1>1, EndingIsValue DEF Ends
  <1>3. QED
    BY <1>1, <1>2 DEF Ways

(* A path lies above another if it is its beginning.                       *)
LEMMA BelowFacts ==
  ASSUME NEW p \in Ways, NEW q \in Ways
  PROVE  Below(p, q) <=> Len(p) < Len(q) /\ \A k \in 1..Len(p) : p[k] = q[k]
  <1>1. Len(p) \in Nat /\ Len(q) \in Nat
    BY PathsAreWays
  <1>2. p \in Seq(Segs \cup {Each}) /\ q \in Seq(Segs \cup {Each})
    BY DEF Ways
  <1>3. ASSUME Below(p, q) PROVE Len(p) < Len(q) /\ \A k \in 1..Len(p) : p[k] = q[k]
    <2>1. Len(p) <= Len(q) /\ SubSeq(p, 1, Len(p)) = SubSeq(q, 1, Len(p)) /\ p # q
      BY <1>3 DEF Below, IsStrictPrefix, IsPrefix
    <2>2. \A k \in 1..Len(p) : SubSeq(p, 1, Len(p))[k] = p[k] /\ SubSeq(q, 1, Len(p))[k] = q[k]
      BY <1>1, <1>2, <2>1, Cuts
    <2>3. \A k \in 1..Len(p) : p[k] = q[k]
      BY <2>1, <2>2
    <2>4. Len(p) # Len(q)
      BY <1>2, <2>1, <2>3, SeqEqual
    <2>5. QED
      BY <1>1, <2>1, <2>3, <2>4
  <1>4. ASSUME Len(p) < Len(q), \A k \in 1..Len(p) : p[k] = q[k] PROVE Below(p, q)
    <2>1. Len(p) <= Len(q) /\ p # q /\ Len(p) \in 0..Len(p) /\ Len(p) \in 0..Len(q)
      BY <1>1, <1>4
    <2>2. PICK a : a = SubSeq(p, 1, Len(p))
      OBVIOUS
    <2>3. PICK b : b = SubSeq(q, 1, Len(p))
      OBVIOUS
    <2>4. a \in Seq(Segs \cup {Each}) /\ Len(a) = Len(p) /\ \A k \in 1..Len(p) : a[k] = p[k]
      BY <1>2, <2>1, <2>2, Cuts
    <2>5. b \in Seq(Segs \cup {Each}) /\ Len(b) = Len(p) /\ \A k \in 1..Len(p) : b[k] = q[k]
      BY <1>2, <2>1, <2>3, Cuts
    <2>6. a = b
      BY <1>4, <2>4, <2>5, SeqEqual
    <2>7. QED
      BY <2>1, <2>2, <2>3, <2>6 DEF Below, IsStrictPrefix, IsPrefix
  <1>5. QED
    BY <1>3, <1>4

(* What is above a node is a node.                                         *)
LEMMA AboveFacts ==
  ASSUME NEW s \in Schemas, NEW p \in DOMAIN s, NEW n \in 0..Len(p)
  PROVE  SubSeq(p, 1, n) \in DOMAIN s
  <1>1. p \in Ways /\ Len(p) \in Nat /\ n \in Nat
    BY SchemaFacts, PathsAreWays
  <1> DEFINE S == {m \in Nat : m <= Len(p) => SubSeq(p, 1, Len(p) - m) \in DOMAIN s}
  <1>2. 0 \in S
    <2>1. SubSeq(p, 1, Len(p)) = p
      <3>1. PICK a : a = SubSeq(p, 1, Len(p))
        OBVIOUS
      <3>2. Len(p) \in 0..Len(p)
        BY <1>1
      <3>3. a \in Seq(Segs \cup {Each}) /\ Len(a) = Len(p) /\ \A k \in 1..Len(p) : a[k] = p[k]
        BY <1>1, <3>1, <3>2, Cuts DEF Ways
      <3>4. a = p
        BY <1>1, <3>3, SeqEqual DEF Ways
      <3>5. QED
        BY <3>1, <3>4
    <2>2. Len(p) - 0 = Len(p)
      BY <1>1
    <2>3. QED
      BY <2>1, <2>2
  <1>3. ASSUME NEW m \in S PROVE m + 1 \in S
    <2>1. SUFFICES ASSUME m + 1 <= Len(p) PROVE SubSeq(p, 1, Len(p) - (m + 1)) \in DOMAIN s
      OBVIOUS
    <2>2. PICK k : k = Len(p) - m
      OBVIOUS
    <2>3. m \in Nat /\ k \in 1..Len(p) /\ k \in 0..Len(p) /\ Len(p) - (m + 1) = k - 1 /\ k - 1 \in 0..Len(p)
      BY <1>1, <2>1, <2>2
    <2>4. PICK a : a = SubSeq(p, 1, k)
      OBVIOUS
    <2>5. a \in DOMAIN s
      BY <1>1, <2>1, <2>2, <2>3, <2>4
    <2>6. a \in Seq(Segs \cup {Each}) /\ Len(a) = k /\ \A i \in 1..k : a[i] = p[i]
      BY <1>1, <2>3, <2>4, Cuts DEF Ways
    <2>7. a # <<>> /\ a \in Dsts(s)
      BY <2>3, <2>5, <2>6 DEF Dsts
    <2>8. Parent(a) \in DOMAIN s /\ Parent(a) = SubSeq(a, 1, k - 1)
      BY <2>6, <2>7, SchemaFacts
    <2>9. SubSeq(a, 1, k - 1) = SubSeq(p, 1, k - 1)
      <3>1. PICK b : b = SubSeq(a, 1, k - 1)
        OBVIOUS
      <3>2. PICK c : c = SubSeq(p, 1, k - 1)
        OBVIOUS
      <3>3. k - 1 \in 0..Len(a) /\ \A i \in 1..(k - 1) : i \in 1..k
        BY <2>3, <2>6
      <3>4. b \in Seq(Segs \cup {Each}) /\ Len(b) = k - 1 /\ \A i \in 1..(k - 1) : b[i] = a[i]
        BY <2>6, <3>1, <3>3, Cuts
      <3>5. c \in Seq(Segs \cup {Each}) /\ Len(c) = k - 1 /\ \A i \in 1..(k - 1) : c[i] = p[i]
        BY <1>1, <2>3, <3>2, Cuts DEF Ways
      <3>6. b = c
        BY <2>6, <3>3, <3>4, <3>5, SeqEqual
      <3>7. QED
        BY <3>1, <3>2, <3>6
    <2>10. QED
      BY <2>3, <2>8, <2>9
  <1>4. S \in SUBSET Nat
    OBVIOUS
  <1> HIDE DEF S
  <1>5. Len(p) - n \in S
    <2>1. Len(p) - n \in Nat
      BY <1>1
    <2>2. QED
      BY <1>2, <1>3, <1>4, <2>1, SetInduction
  <1> USE DEF S
  <1>6. Len(p) - n <= Len(p) /\ Len(p) - (Len(p) - n) = n
    BY <1>1
  <1>7. QED
    BY <1>5, <1>6

(* The array of its elements, or the place itself: all behind it are #.    *)
LEMMA HolderFacts ==
  ASSUME NEW r \in Ways
  PROVE  \E n \in 0..Len(r) : /\ Holder(r) = SubSeq(r, 1, n) /\ (n = 0 \/ r[n] # Each)
                              /\ \A k \in (n + 1)..Len(r) : r[k] = Each
  <1> DEFINE T == {n \in 0..Len(r) : n = 0 \/ r[n] # Each}
             U == {n \in 1..Len(r) : r[n] # Each}
  <1>1. Len(r) \in Nat
    BY PathsAreWays
  <1>2. \E n \in T : \A m \in T : m <= n
    <2>1. CASE U = {}
      <3>1. 0 \in T /\ \A m \in T : m <= 0
        BY <1>1, <2>1
      <3>2. QED
        BY <3>1
    <2>2. CASE U # {}
      <3>1. PICK u \in U : \A m \in U : m <= u
        <4>1. U \subseteq 1..Len(r)
          OBVIOUS
        <4> HIDE DEF U
        <4>2. QED
          BY <1>1, <2>2, <4>1, LargestFacts
      <3>2. u \in T
        BY <1>1, <3>1
      <3>3. ASSUME NEW m \in T PROVE m <= u
        <4>1. m = 0 \/ m \in U
          BY <1>1
        <4>2. QED
          BY <1>1, <3>1, <4>1
      <3> HIDE DEF T
      <3>4. QED
        BY <3>2, <3>3
    <2>3. QED
      BY <2>1, <2>2
  <1>3. Largest(T) \in T /\ \A m \in T : m <= Largest(T)
    <2> HIDE DEF T
    <2>1. QED
      BY <1>2 DEF Largest
  <1>4. PICK n : n = Largest(T)
    OBVIOUS
  <1>5. n \in 0..Len(r) /\ (n = 0 \/ r[n] # Each)
    BY <1>3, <1>4
  <1>6. ASSUME NEW k \in (n + 1)..Len(r) PROVE r[k] = Each
    <2>1. k \in 0..Len(r) /\ ~(k <= n)
      BY <1>1, <1>5
    <2>2. k \notin T
      BY <1>3, <1>4, <2>1
    <2>3. QED
      BY <2>1, <2>2
  <1>7. Holder(r) = SubSeq(r, 1, n)
    BY <1>4 DEF Holder
  <1>8. QED
    BY <1>5, <1>6, <1>7

(* The whole of a path is the path.                                        *)
LEMMA WholeCut ==
  ASSUME NEW r \in Ways
  PROVE  SubSeq(r, 1, Len(r)) = r
  <1>1. Len(r) \in Nat /\ Len(r) \in 0..Len(r)
    BY PathsAreWays
  <1>2. PICK a : a = SubSeq(r, 1, Len(r))
    OBVIOUS
  <1>3. a \in Seq(Segs \cup {Each}) /\ Len(a) = Len(r) /\ \A k \in 1..Len(r) : a[k] = r[k]
    BY <1>1, <1>2, Cuts DEF Ways
  <1>4. a = r
    BY <1>3, SeqEqual DEF Ways
  <1>5. QED
    BY <1>2, <1>4

-----------------------------------------------------------------------------
(* What stands under a key of the volume is a value, or it is not there,   *)
(* or the call panics; strings are read as JSON text.                      *)
LEMMA ValueOfFacts ==
  ASSUME NEW volume, NEW key, Node(volume[key.root]), key.path \in Ways
  PROVE  /\ ValueOf(volume, key) = Panic \/ Node(ValueOf(volume, key))
         /\ IsString(volume[key.root]) =>
               /\ ValueOf(volume, key) = Reads(volume[key.root], key.path)
               /\ Value(volume[key.root])
  <1>1. CASE key.path = <<>>
    <2>1. ValueOf(volume, key) = volume[key.root]
      BY <1>1 DEF ValueOf
    <2>2. IsString(volume[key.root]) => Value(volume[key.root])
      BY DEF Node, Missing, IsString
    <2>3. QED
      BY <1>1, <2>1, <2>2 DEF Reads
  <1>2. CASE key.path # <<>> /\ ~IsString(volume[key.root])
    <2>1. ValueOf(volume, key) = Missing
      BY <1>2 DEF ValueOf
    <2>2. QED
      BY <1>2, <2>1 DEF Node
  <1>3. CASE key.path # <<>> /\ IsString(volume[key.root])
    <2>1. ValueOf(volume, key) = GetValueFromJson(volume[key.root], key.path)
      BY <1>3 DEF ValueOf
    <2>2. Value(volume[key.root])
      BY <1>3 DEF Node, Missing, IsString
    <2>3. Reads(volume[key.root], key.path) = ValueOf(volume, key)
      BY <1>3, <2>1 DEF Reads, Wrapped
    <2>4. Reads(volume[key.root], key.path) = Panic \/ Node(Reads(volume[key.root], key.path))
      BY <2>2, ReadsType
    <2>5. QED
      BY <2>2, <2>3, <2>4
  <1>4. QED
    BY <1>1, <1>2, <1>3

TransferTypes ==
    /\ op \in {"transfer", "format"} /\ schema \in Schemas
    /\ \A r \in Roots : Node(source[r])
    /\ doc = NoText \/ Value(doc)
    /\ todo \subseteq Dsts(schema)
    /\ op = "transfer" => todo \subseteq TransferPaths(schema)
    /\ parents \in Seq(DOMAIN schema)
    /\ out = NoText \/ Value(out)
    /\ result \in {"none", "done", "failed", "panicked"}

LEMMA EmptyValues == Value(Obj(<<>>)) /\ Value(Arr(<<>>)) /\ Value(Nil)
  <1>1. Value(Obj(<<>>))
    <2>1. DOMAIN <<>> = {}
      OBVIOUS
    <2>2. QED
      BY <2>1, ObjIsValue
  <1>2. Value(Arr(<<>>))
    <2>1. <<>> = [i \in 1..0 |-> <<>>[i]]
      OBVIOUS
    <2>2. \A i \in 1..0 : Value(<<>>[i])
      OBVIOUS
    <2>3. QED
      BY <2>1, <2>2, ArrIsValue
  <1>3. QED
    BY <1>1, <1>2, PlainValues

LEMMA TreeIsValue ==
  ASSUME TransferTypes
  PROVE  Value(Tree)
  BY EmptyValues DEF TransferTypes, Tree

(* What is sent, what stands in its place, and what is due are values.     *)
LEMMA SentFacts ==
  ASSUME TransferTypes, NEW p \in TransferPaths(schema)
  PROVE  /\ p \in Dsts(schema) /\ p \in DOMAIN schema
         /\ Value(schema[p].dflt)
         /\ \/ Sent(p) \in {Panic, Missing}
            \/ Value(Sent(p)) /\ Found(Sent(p)) /\ Sent(p) # Nil
         /\ Sent(p) = Panic => Due(p) = Panic
         /\ Sent(p) = Missing => Due(p) = schema[p].dflt
         /\ Found(Sent(p)) => Due(p) = Sent(p)
         /\ Due(p) = Panic \/ Value(Due(p))
  <1>1. p \in Dsts(schema) /\ p \in DOMAIN schema /\ schema[p].src # NoSrc /\ schema \in Schemas
    BY DEF TransferPaths, Dsts, TransferTypes
  <1>2. schema[p].src.root \in Roots /\ schema[p].src.path \in Ways /\ Value(schema[p].dflt)
    BY <1>1, SourceFacts
  <1> DEFINE v == ValueOf(source, schema[p].src)
  <1>3. v = Panic \/ Node(v)
    BY <1>2, ValueOfFacts DEF TransferTypes
  <1> HIDE DEF v
  <1>4. Sent(p) = IF v = Nil THEN Missing ELSE v
    BY DEF Sent, v
  <1>5. Due(p) = IF v \in {Nil, Missing} THEN schema[p].dflt ELSE v
    BY DEF Due, v
  <1>6. v \in {Panic, Missing} \/ (Value(v) /\ Found(v))
    <2>1. Value(v) => Found(v)
      BY ValueFacts
    <2>2. QED
      BY <1>3, <2>1 DEF Node
  <1>7. Missing # Panic /\ Nil # Missing /\ Nil # Panic
    BY DEF Missing, Panic, Nil
  <1>8. QED
    BY <1>1, <1>2, <1>4, <1>5, <1>6, <1>7 DEF Found

(* Add2json on the text: values stay values, and where it yields nothing   *)
(* there was nothing.                                                      *)
LEMMA WriteFacts ==
  ASSUME TransferTypes, NEW p \in Dsts(schema), NEW type, NEW v, Value(v),
         Add2json(Tree, p, type, v) # Panic
  PROVE  /\ Value(Add2json(Tree, p, type, v))
         /\ Add2json(Tree, p, type, v) = Nil => Tree = Nil
  <1>1. p \in Ways /\ p # <<>>
    BY SchemaFacts DEF TransferTypes
  <1>2. /\ Value(Add2json(Tree, p, type, v))
        /\ Add2json(Tree, p, type, v) = Tree \/ IsTree(Add2json(Tree, p, type, v))
    BY <1>1, TreeIsValue, Add2jsonType
  <1>3. ~IsTree(Nil)
    BY DEF Nil, IsTree
  <1>4. QED
    BY <1>2, <1>3

-----------------------------------------------------------------------------
(* What AddParent2Json makes of the text, case by case; h is where the body*)
(* belongs.                                                                *)
LEMMA BodyCases ==
  ASSUME TransferTypes, NEW h \in DOMAIN schema
  PROVE  \/ h = <<>> /\ out # NoText /\ BodyOf(h) = Panic
         \/ /\ h = <<>> /\ out = NoText
            /\ BodyOf(h) \in {Obj(<<>>), Arr(<<>>), NoText}
            /\ BodyOf(h) = Arr(<<>>) => Head(schema[h].types) = "array"
            /\ BodyOf(h) = NoText => Head(schema[h].types) \notin {"object", "array"}
         \/ h # <<>> /\ At(Tree, h) # Missing /\ BodyOf(h) = out
         \/ h # <<>> /\ At(Tree, h) = Missing /\ InRows(h) /\ BodyOf(h) = out
         \/ /\ h # <<>> /\ At(Tree, h) = Missing /\ ~InRows(h) /\ h \in Plain
            /\ \E v : /\ Value(v)
                      /\ schema[h].dflt = Nil =>
                            /\ v \in {Obj(<<>>), Arr(<<>>), Nil}
                            /\ v = Arr(<<>>) => Head(schema[h].types) = "array"
                      /\ \/ SetIn(Tree, h, v) = Panic /\ BodyOf(h) = out
                         \/ SetIn(Tree, h, v) # Panic /\ BodyOf(h) = SetIn(Tree, h, v)
  <1>1. h \in Ways /\ Value(schema[h].dflt)
    BY SchemaFacts, SourceFacts DEF TransferTypes
  <1>2. ~InRows(h) => h \in Plain
    BY <1>1, RowFacts
  <1> DEFINE type == Head(schema[h].types)
             v == CASE schema[h].dflt # Nil -> schema[h].dflt
                    [] schema[h].dflt = Nil /\ type = "object" -> Obj(<<>>)
                    [] schema[h].dflt = Nil /\ type = "array" -> Arr(<<>>)
                    [] OTHER -> Nil
  <1>3. Obj(<<>>) # Arr(<<>>) /\ Arr(<<>>) # Nil /\ Arr(<<>>) # NoText /\ Obj(<<>>) # NoText
    BY DEF Obj, Arr, Nil, NoText
  <1>4. /\ schema[h].dflt # Nil => v = schema[h].dflt
        /\ schema[h].dflt = Nil => /\ v \in {Obj(<<>>), Arr(<<>>), Nil}
                                   /\ v = Arr(<<>>) => type = "array"
    <2>1. CASE schema[h].dflt # Nil
      BY <2>1
    <2>2. CASE schema[h].dflt = Nil /\ type = "object"
      BY <2>2, <1>3
    <2>3. CASE schema[h].dflt = Nil /\ type = "array"
      BY <2>3, <1>3
    <2>4. CASE schema[h].dflt = Nil /\ type \notin {"object", "array"}
      <3>1. v = Nil
        BY <2>4
      <3>2. QED
        BY <2>4, <3>1, <1>3
    <2>5. QED
      BY <2>1, <2>2, <2>3, <2>4
  <1> HIDE DEF v
  <1>5. Value(v)
    BY <1>1, <1>4, EmptyValues
  <1>6. BodyOf(h) = CASE h = <<>> /\ out # NoText -> Panic
                      [] h = <<>> /\ out = NoText ->
                            IF type = "object" THEN Obj(<<>>)
                            ELSE IF type = "array" THEN Arr(<<>>) ELSE out
                      [] h # <<>> /\ At(Tree, h) # Missing -> out
                      [] OTHER -> SetOrKeep(h, v)
    BY DEF BodyOf, v
  <1>7. CASE h = <<>> /\ out # NoText
    BY <1>6, <1>7
  <1>8. CASE h = <<>> /\ out = NoText
    <2>1. BodyOf(h) = IF type = "object" THEN Obj(<<>>)
                      ELSE IF type = "array" THEN Arr(<<>>) ELSE NoText
      BY <1>6, <1>8
    <2>2. QED
      BY <1>3, <1>8, <2>1
  <1>9. CASE h # <<>> /\ At(Tree, h) # Missing
    BY <1>6, <1>9
  <1>10. CASE h # <<>> /\ At(Tree, h) = Missing
    <2>1. BodyOf(h) = SetOrKeep(h, v)
      BY <1>6, <1>10
    <2>2. BodyOf(h) = IF InRows(h) \/ SetIn(Tree, h, v) = Panic THEN out ELSE SetIn(Tree, h, v)
      BY <2>1 DEF SetOrKeep
    <2>3. CASE InRows(h)
      BY <1>10, <2>2, <2>3
    <2>4. CASE ~InRows(h)
      <3>1. \/ SetIn(Tree, h, v) = Panic /\ BodyOf(h) = out
            \/ SetIn(Tree, h, v) # Panic /\ BodyOf(h) = SetIn(Tree, h, v)
        BY <2>2, <2>4
      <3>2. h \in Plain
        BY <1>2, <2>4
      <3>3. \E w : /\ Value(w)
                   /\ schema[h].dflt = Nil =>
                         /\ w \in {Obj(<<>>), Arr(<<>>), Nil}
                         /\ w = Arr(<<>>) => type = "array"
                   /\ \/ SetIn(Tree, h, w) = Panic /\ BodyOf(h) = out
                      \/ SetIn(Tree, h, w) # Panic /\ BodyOf(h) = SetIn(Tree, h, w)
        BY <1>4, <1>5, <3>1
      <3>4. QED
        BY <1>10, <2>4, <3>2, <3>3
    <2>5. QED
      BY <2>3, <2>4
  <1>11. QED
    BY <1>7, <1>8, <1>9, <1>10

LEMMA BodyFacts ==
  ASSUME TransferTypes, NEW h \in DOMAIN schema, BodyOf(h) # Panic
  PROVE  BodyOf(h) = NoText \/ Value(BodyOf(h))
  <1>1. out = NoText \/ Value(out)
    BY DEF TransferTypes
  <1>2. \A v : h \in Plain /\ Value(v) /\ SetIn(Tree, h, v) # Panic => Value(SetIn(Tree, h, v))
    BY TreeIsValue, SetFacts DEF Node
  <1>3. QED
    BY BodyCases, EmptyValues, <1>1, <1>2

(* Where the body of a node belongs is a node.                             *)
LEMMA HolderInSchema ==
  ASSUME NEW s \in Schemas, NEW r \in DOMAIN s
  PROVE  Holder(r) \in DOMAIN s
  <1>1. r \in Ways
    BY SchemaFacts
  <1>2. PICK n \in 0..Len(r) : Holder(r) = SubSeq(r, 1, n)
    BY <1>1, HolderFacts
  <1>3. QED
    BY <1>2, AboveFacts

-----------------------------------------------------------------------------
(* One turn of TransferDataFromVolume: the volume's text is no JSON, what  *)
(* is due does not fit, it is written, or there is nothing and the parent  *)
(* is remembered.  A missing value is no error: the root may be missing.   *)
LEMMA CarryCases ==
  ASSUME TransferTypes, NEW p \in todo, Carry(p)
  PROVE  /\ op = "transfer" /\ result = "none" /\ p \in TransferPaths(schema)
         /\ UNCHANGED <<op, schema, source, doc>>
         /\ LET new == Add2json(Tree, p, DstType(schema[p]), Due(p))
            IN  \/ /\ result' = "panicked" /\ Due(p) = Panic
                   /\ UNCHANGED <<todo, parents, out>>
                \/ /\ result' = "failed" /\ Value(Due(p)) /\ Due(p) # Nil /\ new = Panic
                   /\ UNCHANGED <<todo, parents, out>>
                \/ /\ result' = "none" /\ Value(Due(p)) /\ Due(p) # Nil /\ new # Panic
                   /\ Value(new) /\ Tree' = new /\ (out' = NoText \/ Value(out'))
                   /\ todo' = todo \ {p} /\ parents' = parents
                \/ /\ result' = "none" /\ Due(p) = Nil /\ out' = out
                   /\ todo' = todo \ {p}
                   /\ parents' = IF Parent(p) \in ToSet(parents) THEN parents
                                 ELSE Append(parents, Parent(p))
  <1>1. op = "transfer" /\ result = "none" /\ p \in TransferPaths(schema)
    BY DEF Carry, TransferTypes
  <1>2. /\ p \in Dsts(schema) /\ p \in DOMAIN schema /\ p # <<>> /\ p \in Ways
        /\ <<>> \in DOMAIN schema /\ <<>> \in Ways
    <2>1. p \in Dsts(schema) /\ p \in DOMAIN schema /\ schema \in Schemas
      BY <1>1, SentFacts DEF TransferTypes
    <2>2. QED
      BY <2>1, SchemaFacts
  <1>3. HasOptional(schema, p)
    <2>1. Below(<<>>, p)
      <3>1. Len(p) \in Nat /\ Len(p) # 0 /\ Len(<<>>) = 0
        BY <1>2, PathsAreWays
      <3>2. Len(<<>>) < Len(p) /\ \A k \in 1..Len(<<>>) : <<>>[k] = p[k]
        BY <3>1
      <3>3. QED
        BY <1>2, <3>2, BelowFacts
    <2>2. ~IsRequired(schema, <<>>)
      BY DEF IsRequired
    <2>3. ~(Len(<<>>) > 1)
      OBVIOUS
    <2>4. QED
      BY <1>2, <2>1, <2>2, <2>3 DEF HasOptional
  <1> DEFINE s == Sent(p)
             D == schema[p].dflt
             new(v) == Add2json(Tree, p, DstType(schema[p]), v)
  <1>4. /\ Value(D)
        /\ s \in {Panic, Missing} \/ (Value(s) /\ Found(s) /\ s # Nil)
        /\ s = Panic => Due(p) = Panic
        /\ s = Missing => Due(p) = D
        /\ Found(s) => Due(p) = s
    BY <1>1, SentFacts
  <1>5. ASSUME NEW v, Write(p, v), Value(v)
        PROVE  /\ UNCHANGED <<op, schema, source, doc>>
               /\ \/ result' = "failed" /\ new(v) = Panic /\ UNCHANGED <<todo, parents, out>>
                  \/ /\ result' = "none" /\ new(v) # Panic /\ Value(new(v))
                     /\ Tree' = new(v) /\ (out' = NoText \/ Value(out'))
                     /\ todo' = todo \ {p} /\ parents' = parents
    <2>1. CASE new(v) = Panic
      <3>1. Stop("failed")
        BY <1>5, <2>1 DEF Write
      <3>2. QED
        BY <2>1, <3>1 DEF Stop, input
    <2>2. CASE new(v) # Panic
      <3>1. Value(new(v)) /\ (new(v) = Nil => Tree = Nil)
        BY <1>2, <1>5, <2>2, WriteFacts
      <3> HIDE DEF new
      <3>2. /\ out' = IF new(v) = Nil THEN out ELSE new(v)
            /\ todo' = todo \ {p} /\ UNCHANGED <<input, parents, result>>
        BY <1>5, <2>2 DEF Write, new
      <3>3. new(v) # NoText
        <4>1. NoText.kind = "noText"
          BY DEF NoText
        <4>2. \A x : Value(x) => x.kind # "noText"
          BY ValueFacts
        <4>3. QED
          BY <3>1, <4>1, <4>2
      <3>4. Tree' = new(v)
        <4>1. CASE new(v) = Nil
          <5>1. out' = out /\ Tree = Nil
            BY <3>1, <3>2, <4>1
          <5>2. QED
            BY <4>1, <5>1 DEF Tree
        <4>2. CASE new(v) # Nil
          BY <3>2, <3>3, <4>2 DEF Tree
        <4>3. QED
          BY <4>1, <4>2
      <3>5. out' = NoText \/ Value(out')
        BY <3>1, <3>2 DEF TransferTypes
      <3>6. QED
        BY <1>1, <2>2, <3>1, <3>2, <3>4, <3>5 DEF input
    <2>3. QED
      BY <2>1, <2>2
  <1>6. \/ s = Panic /\ Stop("panicked")
        \/ Found(s) /\ Write(p, s)
        \/ s = Missing /\ D # Nil /\ Write(p, D)
        \/ s = Missing /\ D = Nil /\ LeaveOut(p)
    <2>1. \/ s = Panic /\ Stop("panicked")
          \/ Found(s) /\ Write(p, s)
          \/ s = Missing /\ IF D = Nil THEN LeaveOut(p) ELSE Write(p, D)
      BY <1>3 DEF Carry
    <2>2. QED
      BY <2>1
  <1> HIDE DEF s, D
  <1>7. CASE s = Panic /\ Stop("panicked")
    BY <1>1, <1>4, <1>7 DEF Stop, input
  <1>8. CASE Found(s) /\ Write(p, s)
    <2>1. Value(s) /\ s # Nil /\ Due(p) = s
      BY <1>4, <1>8 DEF Found
    <2>2. /\ UNCHANGED <<op, schema, source, doc>>
          /\ \/ result' = "failed" /\ new(s) = Panic /\ UNCHANGED <<todo, parents, out>>
             \/ /\ result' = "none" /\ new(s) # Panic /\ Value(new(s))
                /\ Tree' = new(s) /\ (out' = NoText \/ Value(out'))
                /\ todo' = todo \ {p} /\ parents' = parents
      BY <1>5, <1>8, <2>1
    <2>3. QED
      BY <1>1, <2>1, <2>2
  <1>9. CASE s = Missing /\ D # Nil /\ Write(p, D)
    <2>1. Value(D) /\ D # Nil /\ Due(p) = D
      BY <1>4, <1>9
    <2>2. /\ UNCHANGED <<op, schema, source, doc>>
          /\ \/ result' = "failed" /\ new(D) = Panic /\ UNCHANGED <<todo, parents, out>>
             \/ /\ result' = "none" /\ new(D) # Panic /\ Value(new(D))
                /\ Tree' = new(D) /\ (out' = NoText \/ Value(out'))
                /\ todo' = todo \ {p} /\ parents' = parents
      BY <1>5, <1>9, <2>1
    <2>3. QED
      BY <1>1, <2>1, <2>2
  <1>10. CASE s = Missing /\ D = Nil /\ LeaveOut(p)
    <2>1. Due(p) = Nil
      BY <1>4, <1>10
    <2>2. QED
      BY <1>1, <1>10, <2>1 DEF LeaveOut, input
  <1>11. QED
    BY <1>6, <1>7, <1>8, <1>9, <1>10

(* One turn of FormatJson: nothing to do, no room, or a zero is put where  *)
(* nothing was.                                                            *)
LEMMA CompleteCases ==
  ASSUME TransferTypes, NEW p \in todo, Complete(p)
  PROVE  /\ op = "format" /\ result = "none" /\ p \in Dsts(schema)
         /\ UNCHANGED <<op, schema, source, doc, parents>>
         /\ \/ result' = "failed" /\ UNCHANGED <<todo, out>>
            \/ /\ At(Tree, p) # Missing \/ schema[p].dflt = Text(NilMark) \/ InRows(p)
               /\ result' = "none" /\ out' = out /\ todo' = todo \ {p}
            \/ /\ At(Tree, p) = Missing /\ p \in Plain /\ p \in Fillable
               /\ \E v : /\ v = FormatZero(DstType(schema[p]))
                         /\ Value(v) /\ SetIn(Tree, p, v) # Panic
                         /\ out' = SetIn(Tree, p, v) /\ Tree' = SetIn(Tree, p, v)
                         /\ Value(SetIn(Tree, p, v))
               /\ result' = "none" /\ todo' = todo \ {p}
  <1>1. op = "format" /\ result = "none" /\ p \in Dsts(schema) /\ p \in Ways
    BY SchemaFacts DEF Complete, TransferTypes
  <1> DEFINE v == FormatZero(DstType(schema[p]))
             new == SetIn(Tree, p, v)
  <1>2. Value(v)
    BY EmptyValues, PlainValues DEF FormatZero
  <1> HIDE DEF v
  <1>3. \/ /\ At(Tree, p) # Missing \/ schema[p].dflt = Text(NilMark) \/ InRows(p)
           /\ todo' = todo \ {p} /\ UNCHANGED <<input, parents, out, result>>
        \/ /\ At(Tree, p) = Missing /\ ~InRows(p) /\ schema[p].dflt # Text(NilMark)
           /\ \/ new = Panic /\ Stop("failed")
              \/ /\ new # Panic /\ out' = new /\ todo' = todo \ {p}
                 /\ UNCHANGED <<input, parents, result>>
    <2> HIDE DEF new
    <2>1. IF At(Tree, p) # Missing \/ schema[p].dflt = Text(NilMark) \/ InRows(p)
          THEN todo' = todo \ {p} /\ UNCHANGED <<input, parents, out, result>>
          ELSE IF new = Panic THEN Stop("failed")
          ELSE /\ out' = new /\ todo' = todo \ {p}
               /\ UNCHANGED <<input, parents, result>>
      BY DEF Complete, new, v
    <2>2. QED
      BY <2>1
  <1>4. CASE /\ At(Tree, p) # Missing \/ schema[p].dflt = Text(NilMark) \/ InRows(p)
             /\ todo' = todo \ {p} /\ UNCHANGED <<input, parents, out, result>>
    BY <1>1, <1>4 DEF input
  <1>5. CASE Stop("failed")
    BY <1>1, <1>5 DEF Stop, input
  <1>6. CASE /\ At(Tree, p) = Missing /\ ~InRows(p) /\ schema[p].dflt # Text(NilMark)
             /\ new # Panic /\ out' = new /\ todo' = todo \ {p}
             /\ UNCHANGED <<input, parents, result>>
    <2>1. p \in Plain /\ p \in Fillable
      BY <1>1, <1>6, RowFacts DEF Fillable
    <2>2. Value(new)
      BY <1>2, <1>6, <2>1, TreeIsValue, SetFacts DEF Node
    <2>3. new # NoText
      <3>1. NoText.kind = "noText"
        BY DEF NoText
      <3>2. \A x : Value(x) => x.kind # "noText"
        BY ValueFacts
      <3>3. QED
        BY <2>2, <3>1, <3>2
    <2> HIDE DEF new
    <2>4. Tree' = new
      BY <1>6, <2>3 DEF Tree
    <2>5. \E w : /\ w = FormatZero(DstType(schema[p]))
                 /\ Value(w) /\ SetIn(Tree, p, w) # Panic
                 /\ out' = SetIn(Tree, p, w) /\ Tree' = SetIn(Tree, p, w)
                 /\ Value(SetIn(Tree, p, w))
      BY <1>2, <1>6, <2>2, <2>4 DEF new, v
    <2>6. QED
      BY <1>1, <1>6, <2>1, <2>5 DEF input
  <1>7. QED
    BY <1>3, <1>4, <1>5, <1>6

(* One turn of AddParent2Json.                                             *)
LEMMA AddParentCases ==
  ASSUME TransferTypes, AddParent
  PROVE  /\ op = "transfer" /\ result = "none" /\ todo = {} /\ parents # <<>>
         /\ UNCHANGED <<op, schema, source, doc, todo>>
         /\ Head(parents) \in DOMAIN schema /\ Holder(Head(parents)) \in DOMAIN schema
         /\ \/ result' = "panicked" /\ UNCHANGED <<parents, out>>
            \/ /\ result' = "none" /\ parents' = Tail(parents)
               /\ BodyOf(Holder(Head(parents))) # Panic
               /\ out' = BodyOf(Holder(Head(parents)))
               /\ out' = NoText \/ Value(out')
  <1>1. op = "transfer" /\ result = "none" /\ todo = {} /\ parents # <<>>
    BY DEF AddParent
  <1>2. Head(parents) \in DOMAIN schema
    BY <1>1 DEF TransferTypes
  <1>3. Holder(Head(parents)) \in DOMAIN schema
    BY <1>2, HolderInSchema DEF TransferTypes
  <1> DEFINE new == BodyOf(Holder(Head(parents)))
  <1>4. \/ new = Panic /\ Stop("panicked")
        \/ /\ new # Panic /\ out' = new /\ parents' = Tail(parents)
           /\ UNCHANGED <<input, todo, result>>
    BY DEF AddParent, Body
  <1>5. new # Panic => new = NoText \/ Value(new)
    BY <1>3, BodyFacts
  <1> HIDE DEF new
  <1>6. CASE new = Panic /\ Stop("panicked")
    BY <1>1, <1>2, <1>3, <1>6 DEF Stop, input
  <1>7. CASE /\ new # Panic /\ out' = new /\ parents' = Tail(parents)
             /\ UNCHANGED <<input, todo, result>>
    BY <1>1, <1>2, <1>3, <1>5, <1>7 DEF input, new
  <1>8. QED
    BY <1>4, <1>6, <1>7

LEMMA DoneCases ==
  ASSUME Done
  PROVE  /\ result = "none" /\ result' = "done" /\ todo = {} /\ (op = "transfer" => parents = <<>>)
         /\ UNCHANGED <<op, schema, source, doc, todo, parents, out>>
  BY DEF Done, Stop, input

LEMMA TypesAtFirst ==
  ASSUME TransferInit
  PROVE  TransferTypes
  <1>1. schema \in Schemas /\ parents = <<>>
    BY DEF TransferInit
  <1>2. \/ op = "transfer" /\ source \in Volumes /\ doc = Nil /\ out = NoText
        \/ op = "format" /\ source = [r \in Roots |-> Missing] /\ doc \in Documents /\ out = doc
    BY DEF TransferInit
  <1>3. /\ result \in {"none", "panicked"} /\ todo \subseteq Dsts(schema)
        /\ op = "transfer" => todo \subseteq TransferPaths(schema)
    <2>1. TransferPaths(schema) \subseteq Dsts(schema)
      BY DEF TransferPaths
    <2>2. todo \in {{}, IF op = "transfer" THEN TransferPaths(schema) ELSE Dsts(schema)}
      BY DEF TransferInit
    <2>3. result \in {"none", "panicked"}
      BY DEF TransferInit
    <2>4. QED
      BY <2>1, <2>2, <2>3
  <1>4. \A r \in Roots : Node(source[r])
    <2>1. CASE source \in Volumes
      BY <2>1, VolumesAssumption, EndingIsValue DEF Ends, Node
    <2>2. CASE source = [r \in Roots |-> Missing]
      BY <2>2 DEF Node
    <2>3. QED
      BY <1>2, <2>1, <2>2
  <1>5. doc = NoText \/ Value(doc)
    <2>1. CASE doc = Nil
      BY <2>1, EmptyValues
    <2>2. CASE doc \in Documents
      BY <2>2, DocumentsAssumption, EndingIsValue DEF Ends
    <2>3. QED
      BY <1>2, <2>1, <2>2
  <1>6. parents \in Seq(DOMAIN schema)
    BY <1>1, EmptySeq
  <1>7. QED
    BY <1>1, <1>2, <1>3, <1>4, <1>5, <1>6 DEF TransferTypes

LEMMA TypesKept ==
  ASSUME TransferTypes, [TransferNext]_transferVars
  PROVE  TransferTypes'
  <1>1. CASE UNCHANGED transferVars
    BY <1>1 DEF TransferTypes, transferVars, TransferPaths, Dsts, Node, Value
  <1>2. ASSUME NEW p \in todo, Carry(p) PROVE TransferTypes'
    <2>1. /\ UNCHANGED <<op, schema, source, doc>> /\ op = "transfer" /\ result = "none"
          /\ p \in TransferPaths(schema)
      BY <1>2, CarryCases
    <2>2. /\ todo' = todo \/ todo' = todo \ {p}
          /\ out' = out \/ out' = NoText \/ Value(out')
          /\ result' \in {"none", "failed", "panicked"}
          /\ \/ parents' = parents
             \/ parents' = Append(parents, Parent(p))
      BY <1>2, CarryCases
    <2>3. Parent(p) \in DOMAIN schema
      BY <2>1, SchemaFacts DEF TransferPaths, TransferTypes
    <2>4. parents' \in Seq(DOMAIN schema)
      BY <2>2, <2>3, AppendProperties DEF TransferTypes
    <2>5. out' = NoText \/ Value(out')
      BY <2>2 DEF TransferTypes
    <2>6. /\ todo' \subseteq Dsts(schema') /\ schema' \in Schemas
          /\ op' = "transfer" => todo' \subseteq TransferPaths(schema')
      BY <2>1, <2>2 DEF TransferTypes
    <2>7. \A r \in Roots : Node(source'[r])
      BY <2>1 DEF TransferTypes
    <2>8. doc' = NoText \/ Value(doc')
      BY <2>1 DEF TransferTypes
    <2>9. QED
      BY <2>1, <2>2, <2>4, <2>5, <2>6, <2>7, <2>8 DEF TransferTypes, TransferPaths, Dsts, Node, Value
  <1>3. ASSUME NEW p \in todo, Complete(p) PROVE TransferTypes'
    <2>1. /\ UNCHANGED <<op, schema, source, doc, parents>> /\ op = "format"
          /\ todo' = todo \/ todo' = todo \ {p}
          /\ out' = out \/ Value(out')
          /\ result' \in {"none", "failed"}
      BY <1>3, CompleteCases
    <2>2. out' = NoText \/ Value(out')
      BY <2>1 DEF TransferTypes
    <2>3. todo' \subseteq Dsts(schema') /\ schema' \in Schemas
      BY <2>1 DEF TransferTypes
    <2>4. \A r \in Roots : Node(source'[r])
      BY <2>1 DEF TransferTypes
    <2>5. doc' = NoText \/ Value(doc')
      BY <2>1 DEF TransferTypes
    <2>6. parents' \in Seq(DOMAIN schema')
      BY <2>1 DEF TransferTypes
    <2>7. QED
      BY <2>1, <2>2, <2>3, <2>4, <2>5, <2>6 DEF TransferTypes, Dsts, Node, Value
  <1>4. ASSUME AddParent PROVE TransferTypes'
    <2>1. /\ UNCHANGED <<op, schema, source, doc, todo>> /\ todo = {} /\ parents # <<>>
          /\ parents' = parents \/ parents' = Tail(parents)
          /\ out' = out \/ out' = NoText \/ Value(out')
          /\ result' \in {"none", "panicked"}
      BY <1>4, AddParentCases
    <2>2. out' = NoText \/ Value(out')
      BY <2>1 DEF TransferTypes
    <2>3. parents' \in Seq(DOMAIN schema')
      BY <2>1 DEF TransferTypes
    <2>4. \A r \in Roots : Node(source'[r])
      BY <2>1 DEF TransferTypes
    <2>5. doc' = NoText \/ Value(doc')
      BY <2>1 DEF TransferTypes
    <2>6. op' \in {"transfer", "format"} /\ schema' \in Schemas /\ todo' = {}
      BY <2>1 DEF TransferTypes
    <2>7. QED
      BY <2>1, <2>2, <2>3, <2>4, <2>5, <2>6 DEF TransferTypes, Dsts, Node, Value, TransferPaths
  <1>5. ASSUME Done PROVE TransferTypes'
    <2>1. result' = "done" /\ UNCHANGED <<op, schema, source, doc, todo, parents, out>>
      BY <1>5, DoneCases
    <2>2. QED
      BY <2>1 DEF TransferTypes, TransferPaths, Dsts, Node, Value
  <1>6. QED
    BY <1>1, <1>2, <1>3, <1>4, <1>5 DEF TransferNext

LEMMA TypesHold == TransferSpec => []TransferTypes
  <1>1. TransferInit => TransferTypes
    BY TypesAtFirst
  <1>2. TransferTypes /\ [TransferNext]_transferVars => TransferTypes'
    BY TypesKept
  <1>3. QED
    BY <1>1, <1>2, PTL DEF TransferSpec

(* Transfer: whatever is carried over, completed or left out, the result   *)
(* stays a document.                                                       *)
THEOREM TransferTypesHold == TransferSpec => []TransferTypeOK
  <1>1. TransferTypes => TransferTypeOK
    BY ValueIsValue DEF TransferTypes, TransferTypeOK
  <1>2. QED
    BY <1>1, TypesHold, PTL

-----------------------------------------------------------------------------
(* Two paths that do not part: one is the beginning of the other.          *)
LEMMA PartOrBegin ==
  ASSUME NEW p \in Plain, NEW q \in Plain, ~Diverge(p, q)
  PROVE  \/ Below(p, q) /\ Len(p) \in 0..Len(q) /\ SubSeq(q, 1, Len(p)) = p
         \/ Below(q, p) /\ Len(q) \in 0..Len(p) /\ SubSeq(p, 1, Len(q)) = q
         \/ p = q
  <1>1. /\ Len(p) \in Nat /\ Len(q) \in Nat /\ p \in Ways /\ q \in Ways
    BY PlainWays
  <1>2. \A k \in 1..Len(p) : k \in 1..Len(q) => p[k] = q[k]
    BY DEF Diverge
  <1>3. ASSUME NEW r \in Plain, NEW s \in Plain, Len(r) \in Nat, Len(s) \in Nat, Len(r) <= Len(s),
               \A k \in 1..Len(r) : r[k] = s[k]
        PROVE  Len(r) \in 0..Len(s) /\ SubSeq(s, 1, Len(r)) = r
    <2>1. Len(r) \in 0..Len(s)
      BY <1>3
    <2>2. PICK a : a = SubSeq(s, 1, Len(r))
      OBVIOUS
    <2>3. a \in Seq(Segs) /\ Len(a) = Len(r) /\ \A k \in 1..Len(r) : a[k] = s[k]
      BY <1>3, <2>1, <2>2, Cuts DEF Plain
    <2>4. a = r
      BY <1>3, <2>3, SeqEqual DEF Plain
    <2>5. QED
      BY <2>1, <2>2, <2>4
  <1>4. CASE Len(p) < Len(q)
    <2>1. \A k \in 1..Len(p) : p[k] = q[k]
      BY <1>1, <1>2, <1>4
    <2>2. Below(p, q)
      BY <1>1, <1>4, <2>1, BelowFacts
    <2>3. QED
      BY <1>1, <1>3, <1>4, <2>1, <2>2
  <1>5. CASE Len(q) < Len(p)
    <2>1. \A k \in 1..Len(q) : q[k] = p[k]
      BY <1>1, <1>2, <1>5
    <2>2. Below(q, p)
      BY <1>1, <1>5, <2>1, BelowFacts
    <2>3. QED
      BY <1>1, <1>3, <1>5, <2>1, <2>2
  <1>6. CASE Len(p) = Len(q)
    <2>1. \A k \in 1..Len(p) : p[k] = q[k]
      BY <1>1, <1>2, <1>6
    <2>2. p = q
      BY <1>6, <2>1, SeqEqual DEF Plain
    <2>3. QED
      BY <2>2
  <1>7. QED
    BY <1>1, <1>4, <1>5, <1>6

(* Setting what is not there takes nothing away, and changes only what is  *)
(* above it.                                                               *)
LEMMA SetNew ==
  ASSUME NEW d, Value(d), NEW h \in Plain, At(d, h) = Missing, NEW v, Value(v), SetIn(d, h, v) # Panic,
         NEW q \in Plain, At(d, q) # Missing
  PROVE  /\ At(SetIn(d, h, v), q) # Missing
         /\ ~Below(q, h) => At(SetIn(d, h, v), q) = At(d, q)
  <1>1. Node(d)
    BY DEF Node
  <1>2. CASE Diverge(h, q)
    BY <1>2, SetApart
  <1>3. CASE ~Diverge(h, q)
    <2>1. h # q
      OBVIOUS
    <2>2. ~(Len(h) \in 0..Len(q) /\ SubSeq(q, 1, Len(h)) = h)
      <3>1. SUFFICES ASSUME Len(h) \in 0..Len(q), SubSeq(q, 1, Len(h)) = h PROVE FALSE
        OBVIOUS
      <3>2. At(d, q) = At(At(d, SubSeq(q, 1, Len(h))), SubSeq(q, Len(h) + 1, Len(q)))
        BY <1>1, <3>1, AtSplit
      <3>3. SubSeq(q, Len(h) + 1, Len(q)) \in Plain
        BY <3>1, PlainCuts
      <3>4. At(d, q) = Missing
        BY <3>1, <3>2, <3>3, AtMissing
      <3>5. QED
        BY <3>4
    <2>3. Below(q, h) /\ Len(q) \in 0..Len(h) /\ SubSeq(h, 1, Len(q)) = q
      BY <1>3, <2>1, <2>2, PartOrBegin
    <2> DEFINE rest == SubSeq(h, Len(q) + 1, Len(h))
    <2>4. /\ SetIn(At(d, q), rest, v) # Panic
          /\ At(SetIn(d, h, v), q) = SetIn(At(d, q), rest, v)
      <3>1. \A m \in 0..Len(h) :
               /\ SetIn(At(d, SubSeq(h, 1, m)), SubSeq(h, m + 1, Len(h)), v) # Panic
               /\ At(SetIn(d, h, v), SubSeq(h, 1, m)) =
                     SetIn(At(d, SubSeq(h, 1, m)), SubSeq(h, m + 1, Len(h)), v)
        BY <1>1, SetSplit
      <3>2. QED
        BY <2>3, <3>1
    <2>5. rest \in Plain
      BY <2>3, PlainCuts
    <2>6. Node(At(d, q))
      BY <1>1, <2>3, AtSplit
    <2> HIDE DEF rest
    <2>7. Value(SetIn(At(d, q), rest, v))
      BY <2>4, <2>5, <2>6, SetFacts
    <2>8. SetIn(At(d, q), rest, v) # Missing
      BY <2>7, ValueFacts
    <2>9. QED
      BY <2>3, <2>4, <2>8
  <1>4. QED
    BY <1>2, <1>3

-----------------------------------------------------------------------------
(* Of paths that begin alike, one is the other or lies above it as far as  *)
(* the rests are and do.                                                   *)
LEMMA TailsBelow ==
  ASSUME NEW s \in Plain, NEW r \in Plain, s # <<>>, r # <<>>, s[1] = r[1], s # r, ~Below(s, r)
  PROVE  Tail(s) # Tail(r) /\ ~Below(Tail(s), Tail(r))
  <1>1. PICK a, b : a = Tail(s) /\ b = Tail(r)
    OBVIOUS
  <1>2. /\ a \in Plain /\ Len(a) = Len(s) - 1 /\ \A k \in 1..Len(a) : a[k] = s[k + 1]
        /\ b \in Plain /\ Len(b) = Len(r) - 1 /\ \A k \in 1..Len(b) : b[k] = r[k + 1]
        /\ Len(s) \in Nat /\ Len(r) \in Nat
    BY <1>1, Rest DEF Plain
  <1>3. s \in Ways /\ r \in Ways /\ a \in Ways /\ b \in Ways
    BY <1>2, PlainWays
  <1>4. ASSUME \A k \in 1..Len(a) : a[k] = b[k] PROVE \A k \in 1..Len(s) : k <= Len(r) => s[k] = r[k]
    <2>1. SUFFICES ASSUME NEW k \in 1..Len(s), k <= Len(r), k # 1 PROVE s[k] = r[k]
      OBVIOUS
    <2>2. PICK j \in Nat : j = k - 1
      BY <2>1
    <2>3. j \in 1..Len(a) /\ j \in 1..Len(b) /\ j + 1 = k
      BY <1>2, <2>1, <2>2
    <2>4. QED
      BY <1>2, <1>4, <2>3
  <1>5. a # b
    <2>1. SUFFICES ASSUME a = b PROVE FALSE
      OBVIOUS
    <2>2. Len(s) = Len(r)
      BY <1>2, <2>1
    <2>3. \A k \in 1..Len(s) : s[k] = r[k]
      BY <1>2, <1>4, <2>1, <2>2
    <2>4. s = r
      BY <2>2, <2>3, SeqEqual DEF Plain
    <2>5. QED
      BY <2>4
  <1>6. ~Below(a, b)
    <2>1. SUFFICES ASSUME Below(a, b) PROVE FALSE
      OBVIOUS
    <2>2. Len(a) < Len(b) /\ \A k \in 1..Len(a) : a[k] = b[k]
      BY <1>3, <2>1, BelowFacts
    <2>3. Len(s) < Len(r) /\ \A k \in 1..Len(s) : s[k] = r[k]
      BY <1>2, <1>4, <2>2
    <2>4. QED
      BY <1>3, <2>3, BelowFacts
  <1>7. QED
    BY <1>1, <1>5, <1>6

(* A value without anything in it, set at a path of names, puts nothing at *)
(* another place that was empty, unless it lies above that path.           *)
LEMMA SetLeaves ==
  ASSUME NEW p \in Seq(Names), NEW q \in Plain, q # p, ~Below(q, p), NEW d, Node(d),
         NEW v, Value(v), \A t \in Segs : Child(v, t) = Missing,
         SetIn(d, p, v) # Panic, At(d, q) = Missing
  PROVE  At(SetIn(d, p, v), q) = Missing
  <1>0. Seq(Names) \subseteq Plain
    <2>1. Names \subseteq Segs
      BY DEF Segs
    <2>2. \A S : \A r \in Seq(Names) : Names \subseteq S => r \in Seq(S)
      OBVIOUS
    <2>3. QED
      BY <2>1, <2>2 DEF Plain
  <1> DEFINE S == {n \in Nat : \A r \in Seq(Names) : \A s \in Plain :
                     Len(r) = n /\ s # r /\ ~Below(s, r) =>
                     \A c : Node(c) /\ SetIn(c, r, v) # Panic /\ At(c, s) = Missing =>
                        At(SetIn(c, r, v), s) = Missing}
  <1>1. 0 \in S
    <2>1. SUFFICES ASSUME NEW r \in Seq(Names), NEW s \in Plain, Len(r) = 0, s # r, NEW c, Node(c)
                   PROVE  At(SetIn(c, r, v), s) = Missing
      OBVIOUS
    <2>2. r = <<>> /\ s # <<>>
      BY <2>1
    <2>3. SetIn(c, r, v) = v
      BY <2>2, SetEmpty
    <2>4. s[1] \in Segs /\ Tail(s) \in Plain /\ Tail(s) \in Ways
      BY <2>2, PlainWays
    <2>5. Node(v)
      BY DEF Node
    <2>6. At(v, s) = At(Child(v, s[1]), Tail(s))
      BY <2>2, <2>5, NodeStep
    <2>7. At(Missing, Tail(s)) = Missing
      BY <2>4, AtMissing
    <2>8. QED
      BY <2>3, <2>4, <2>6, <2>7
  <1>2. ASSUME NEW n \in S PROVE n + 1 \in S
    <2>1. SUFFICES ASSUME NEW r \in Seq(Names), NEW s \in Plain, Len(r) = n + 1, s # r,
                          ~Below(s, r), NEW c, Node(c), SetIn(c, r, v) # Panic, At(c, s) = Missing
                   PROVE  At(SetIn(c, r, v), s) = Missing
      OBVIOUS
    <2>2. r \in Plain /\ r # <<>> /\ r[1] \in Names /\ Tail(r) \in Seq(Names) /\ Len(Tail(r)) = n
      BY <1>0, <2>1
    <2>3. s # <<>>
      <3>1. Len(r) \in Nat /\ Len(r) >= 1
        BY <2>1
      <3>2. s = <<>> => Below(s, r)
        BY <2>1, <3>1 DEF Below, IsStrictPrefix, IsPrefix
      <3>3. QED
        BY <2>1, <3>2
    <2>4. /\ r \in Ways /\ r[1] \in Segs /\ Tail(r) \in Plain
          /\ s \in Ways /\ s[1] \in Segs /\ Tail(s) \in Plain /\ Tail(s) \in Ways
      BY <2>2, <2>3, PlainWays
    <2> DEFINE b == Child(c, r[1])
               y == SetIn(b, Tail(r), v)
               R == Replaced(c, r[1], y)
    <2>5. SetIn(c, r, v) = R
      BY <2>2, <2>4, SetStep
    <2>6. y # Panic
      BY <2>1, <2>5 DEF Replaced
    <2>7. Node(b)
      BY <2>1, NodeFacts
    <2>8. Value(y)
      BY <2>4, <2>6, <2>7, SetFacts
    <2>9. R # Panic
      BY <2>1, <2>5
    <2> HIDE DEF y, b
    <2>10. Value(R) /\ Child(R, r[1]) = y
      BY <2>1, <2>4, <2>8, <2>9, ReplacedFacts
    <2>11. \A t \in Segs : t # r[1] => Child(R, t) = Child(c, t)
      BY <2>1, <2>2, <2>4, <2>8, <2>9, ReplacedOthers DEF R
    <2> HIDE DEF R
    <2>12. At(c, s) = At(Child(c, s[1]), Tail(s)) /\ At(R, s) = At(Child(R, s[1]), Tail(s))
      <3>1. Node(R)
        BY <2>10 DEF Node
      <3>2. QED
        BY <2>1, <2>3, <3>1, NodeStep
    <2>13. CASE s[1] = r[1]
      <3>1. Tail(s) # Tail(r) /\ ~Below(Tail(s), Tail(r))
        BY <2>1, <2>2, <2>3, <2>13, TailsBelow
      <3>2. At(b, Tail(s)) = Missing
        BY <2>1, <2>12, <2>13 DEF b
      <3>3. At(y, Tail(s)) = Missing
        BY <2>2, <2>4, <2>6, <2>7, <3>1, <3>2 DEF y
      <3>4. QED
        BY <2>5, <2>10, <2>12, <2>13, <3>3
    <2>14. CASE s[1] # r[1]
      BY <2>1, <2>4, <2>5, <2>11, <2>12, <2>14
    <2>15. QED
      BY <2>13, <2>14
  <1>3. S \in SUBSET Nat /\ Len(p) \in Nat
    OBVIOUS
  <1> HIDE DEF S
  <1>4. S = Nat
    BY <1>1, <1>2, <1>3, SetInduction
  <1>5. Len(p) \in S
    BY <1>3, <1>4
  <1> USE DEF S
  <1>6. QED
    BY <1>5

-----------------------------------------------------------------------------
(* What the document holds at p, nothing if there is none.                 *)
Lacked(p) == doc = NoText \/ At(doc, p) = Missing

PlaceFilled(p) ==
    /\ p \notin todo => At(Tree, p) # Missing
    /\ Lacked(p) /\ OnlyPlace(p) =>
          At(Tree, p) = IF p \in todo THEN Missing ELSE FormatZero(DstType(schema[p]))

Filling ==
    op = "format" =>
        /\ doc # NoText => \A p \in Looked :
              Found(At(doc, p)) /\ OnlyPlace(p) => At(Tree, p) = At(doc, p)
        /\ result # "panicked" => \A p \in Fillable : PlaceFilled(p)
        /\ result = "done" => todo = {}

LEMMA FillableFacts ==
  ASSUME TransferTypes, NEW p \in Fillable
  PROVE  /\ p \in Dsts(schema) /\ p \in Plain /\ p \in Seq(Names) /\ p # <<>>
         /\ Value(FormatZero(DstType(schema[p])))
         /\ \A t \in Segs : Child(FormatZero(DstType(schema[p])), t) = Missing
  <1>1. p \in Dsts(schema) /\ ~InRows(p)
    BY DEF Fillable
  <1>2. p \in Ways /\ p # <<>> /\ p \in Seq(Names \cup {Each})
    BY <1>1, SchemaFacts DEF TransferTypes
  <1>3. p \in Plain
    BY <1>1, <1>2, RowFacts
  <1>4. p \in Seq(Names)
    <2>1. \A n \in 1..Len(p) : p[n] \in Names
      BY <1>1, <1>2 DEF InRows, ToSet
    <2>2. QED
      BY <1>2, <2>1
  <1>5. FormatZero(DstType(schema[p])) \in {Empty, Num(0), Arr(<<>>), Nil}
    BY DEF FormatZero
  <1>6. Value(Empty) /\ Value(Num(0)) /\ Value(Arr(<<>>)) /\ Value(Nil)
    BY EmptyValues, PlainValues
  <1>7. \A t \in Segs : \A v \in {Empty, Num(0), Arr(<<>>), Nil} : Child(v, t) = Missing
    <2>1. Len(<<>>) = 0
      OBVIOUS
    <2>2. QED
      BY <2>1 DEF Child, Empty, Num, Arr, Nil
  <1>8. QED
    BY <1>1, <1>2, <1>3, <1>4, <1>5, <1>6, <1>7

LEMMA FillingAtFirst ==
  ASSUME TransferInit
  PROVE  Filling
  <1>1. SUFFICES ASSUME op = "format" PROVE Filling
    BY DEF Filling
  <1>2. out = doc /\ result \in {"none", "panicked"} /\ schema \in Schemas
    BY <1>1 DEF TransferInit
  <1>3. result # "panicked" => todo = Dsts(schema)
    BY <1>1 DEF TransferInit
  <1>4. (doc # NoText => Tree = doc) /\ (doc = NoText => Tree = Nil)
    BY <1>2 DEF Tree
  <1>5. ASSUME NEW p \in Fillable, Lacked(p) PROVE At(Tree, p) = Missing
    <2>1. CASE doc = NoText
      <3>1. p \in Dsts(schema)
        BY DEF Fillable
      <3>2. p \in Ways /\ p # <<>>
        BY <1>2, <3>1, SchemaFacts
      <3>3. Value(Nil) /\ ~IsTree(Nil)
        BY PlainValues DEF IsTree, Nil
      <3>4. At(Nil, p) = Missing
        BY <3>2, <3>3, AtNoTree
      <3>5. QED
        BY <1>4, <2>1, <3>4
    <2>2. QED
      BY <1>4, <1>5, <2>1 DEF Lacked
  <1>6. result # "panicked" => \A p \in Fillable : PlaceFilled(p)
    BY <1>3, <1>5 DEF PlaceFilled, Fillable
  <1>7. QED
    BY <1>2, <1>4, <1>6 DEF Filling

LEMMA FillingSame ==
  ASSUME Filling, result \in {"none", "done"}, result' \in {"none", "failed", "done"},
         UNCHANGED <<op, schema, source, doc, todo, out>>,
         result' = "done" => todo = {}
  PROVE  Filling'
  BY DEF Filling, PlaceFilled, Lacked, OnlyPlace, Fillable, Tree, Dsts

(* A place is filled, and another one is considered.                       *)
LEMMA FillingByWrite ==
  ASSUME TransferTypes, op = "format", Filling, result = "none", NEW p \in Fillable, p \in todo,
         At(Tree, p) = Missing, UNCHANGED <<op, schema, source, doc>>,
         NEW v, v = FormatZero(DstType(schema[p])), SetIn(Tree, p, v) # Panic,
         Tree' = SetIn(Tree, p, v), result' = "none", todo' = todo \ {p}
  PROVE  Filling'
  <1>1. /\ p \in Dsts(schema) /\ p \in Plain /\ p \in Seq(Names) /\ Value(v)
        /\ \A t \in Segs : Child(v, t) = Missing
    BY FillableFacts
  <1>2. Node(Tree)
    BY TreeIsValue DEF Node
  <1>3. \A q \in Plain : At(Tree, q) # Missing =>
           /\ At(Tree', q) # Missing
           /\ ~Below(q, p) => At(Tree', q) = At(Tree, q)
    BY <1>1, <1>2, TreeIsValue, SetNew
  <1>4. At(Tree', p) = v /\ v # Missing
    <2>1. At(SetIn(Tree, p, v), p) = v
      BY <1>1, <1>2, SetFacts
    <2>2. v # Missing
      BY <1>1, ValueFacts
    <2>3. QED
      BY <2>1, <2>2
  <1>5. ASSUME NEW q \in Fillable PROVE PlaceFilled(q)'
    <2>1. q \in Plain /\ PlaceFilled(q)
      BY FillableFacts DEF Filling
    <2>2. Lacked(q)' = Lacked(q) /\ OnlyPlace(q)' = OnlyPlace(q)
      BY DEF Lacked, OnlyPlace, Fillable, Dsts
    <2>3. CASE q = p
      BY <1>4, <2>2, <2>3 DEF PlaceFilled
    <2>4. CASE q # p
      <3>1. q \in todo' <=> q \in todo
        BY <2>4
      <3>2. q \notin todo' => At(Tree', q) # Missing
        BY <1>3, <2>1, <3>1 DEF PlaceFilled
      <3>3. ASSUME Lacked(q), OnlyPlace(q)
            PROVE  At(Tree', q) = IF q \in todo THEN Missing ELSE FormatZero(DstType(schema[q]))
        <4>1. ~Below(q, p)
          BY <3>3 DEF OnlyPlace
        <4>2. At(Tree, q) = IF q \in todo THEN Missing ELSE FormatZero(DstType(schema[q]))
          BY <2>1, <3>3 DEF PlaceFilled
        <4>3. CASE q \in todo
          <5>1. At(SetIn(Tree, p, v), q) = Missing
            BY <1>1, <1>2, <2>1, <2>4, <4>1, <4>2, <4>3, SetLeaves
          <5>2. QED
            BY <4>3, <5>1
        <4>4. CASE q \notin todo
          <5>1. At(Tree, q) # Missing
            BY <2>1, <4>4 DEF PlaceFilled
          <5>2. QED
            BY <1>3, <2>1, <4>1, <4>2, <4>4, <5>1
        <4>5. QED
          BY <4>3, <4>4
      <3>4. QED
        BY <2>2, <3>1, <3>2, <3>3 DEF PlaceFilled
    <2>5. QED
      BY <2>3, <2>4
  <1>6. ASSUME doc # NoText, NEW q \in Looked, Found(At(doc, q)), OnlyPlace(q)
        PROVE  At(Tree', q) = At(doc, q)
    <2>1. At(Tree, q) = At(doc, q) /\ q \in Plain
      BY <1>6, LookedAssumption DEF Filling, Plain
    <2>2. At(Tree, q) # Missing /\ ~Below(q, p)
      BY <1>6, <2>1 DEF OnlyPlace, Found
    <2>3. QED
      BY <1>3, <2>1, <2>2
  <1>7. Fillable' = Fillable /\ \A q : OnlyPlace(q)' = OnlyPlace(q)
    BY DEF OnlyPlace, Fillable, Dsts
  <1>8. \A q \in Fillable' : PlaceFilled(q)'
    BY <1>5, <1>7
  <1>9. QED
    BY <1>6, <1>7, <1>8 DEF Filling

LEMMA FillingKept ==
  ASSUME TransferTypes, Filling, [TransferNext]_transferVars
  PROVE  Filling'
  <1>1. CASE UNCHANGED <<op, schema, source, doc, todo, out, result>>
    BY <1>1 DEF Filling, PlaceFilled, Lacked, OnlyPlace, Fillable, Tree, Dsts
  <1>2. ASSUME NEW p \in todo, Carry(p) PROVE Filling'
    <2>1. op' = "transfer"
      BY <1>2, CarryCases
    <2>2. QED
      BY <2>1 DEF Filling
  <1>3. ASSUME NEW p \in todo, Complete(p) PROVE Filling'
    <2>1. /\ op = "format" /\ result = "none" /\ p \in Dsts(schema)
          /\ UNCHANGED <<op, schema, source, doc, parents>>
      BY <1>3, CompleteCases
    <2>2. CASE result' = "failed" /\ UNCHANGED <<todo, out>>
      BY <2>1, <2>2, FillingSame
    <2>3. CASE /\ At(Tree, p) # Missing \/ schema[p].dflt = Text(NilMark) \/ InRows(p)
               /\ result' = "none" /\ out' = out /\ todo' = todo \ {p}
      <3>1. Tree' = Tree /\ Fillable' = Fillable /\ \A q : OnlyPlace(q)' = OnlyPlace(q)
        BY <2>1, <2>3 DEF Tree, OnlyPlace, Fillable, Dsts
      <3>2. p \in Fillable => At(Tree, p) # Missing
        BY <2>3 DEF Fillable
      <3>3. ASSUME NEW q \in Fillable PROVE PlaceFilled(q)'
        <4>1. PlaceFilled(q)
          BY <2>1 DEF Filling
        <4>2. CASE q = p
          <5>1. ~(Lacked(q) /\ OnlyPlace(q))
            BY <3>2, <4>1, <4>2 DEF PlaceFilled
          <5>2. QED
            BY <2>1, <3>1, <3>2, <4>2, <5>1 DEF PlaceFilled, Lacked
        <4>3. CASE q # p
          BY <2>1, <2>3, <3>1, <4>1, <4>3 DEF PlaceFilled, Lacked
        <4>4. QED
          BY <4>2, <4>3
      <3>4. QED
        BY <2>1, <2>3, <3>1, <3>3 DEF Filling
    <2>4. CASE /\ At(Tree, p) = Missing /\ p \in Plain /\ p \in Fillable
               /\ \E v : /\ v = FormatZero(DstType(schema[p]))
                         /\ Value(v) /\ SetIn(Tree, p, v) # Panic
                         /\ out' = SetIn(Tree, p, v) /\ Tree' = SetIn(Tree, p, v)
                         /\ Value(SetIn(Tree, p, v))
               /\ result' = "none" /\ todo' = todo \ {p}
      <3>1. PICK v : /\ v = FormatZero(DstType(schema[p])) /\ SetIn(Tree, p, v) # Panic
                     /\ Tree' = SetIn(Tree, p, v)
        BY <2>4
      <3>2. QED
        BY <2>1, <2>4, <3>1, FillingByWrite
    <2>5. QED
      BY <1>3, <2>2, <2>3, <2>4, CompleteCases
  <1>4. ASSUME AddParent PROVE Filling'
    <2>1. op' = "transfer"
      BY <1>4, AddParentCases
    <2>2. QED
      BY <2>1 DEF Filling
  <1>5. ASSUME Done PROVE Filling'
    <2>1. /\ result = "none" /\ result' = "done" /\ todo = {}
          /\ UNCHANGED <<op, schema, source, doc, todo, parents, out>>
      BY <1>5, DoneCases
    <2>2. QED
      BY <2>1, FillingSame
  <1>6. QED
    BY <1>1, <1>2, <1>3, <1>4, <1>5 DEF TransferNext, transferVars

(* FormatJson: in whatever order the places come, nothing of the document  *)
(* is changed that has no place below it; when it is done every place is   *)
(* there, and what the document lacked is the zero of its type, whatever   *)
(* the default.                                                            *)
THEOREM FormattingFills == TransferSpec => []FormatOnlyFills
  <1>1. Filling => FormatOnlyFills
    BY DEF Filling, PlaceFilled, Lacked, FormatOnlyFills
  <1>2. TransferInit => Filling
    BY FillingAtFirst
  <1>3. TransferTypes /\ Filling /\ [TransferNext]_transferVars => Filling'
    BY FillingKept
  <1>4. QED
    BY <1>1, <1>2, <1>3, TypesHold, PTL DEF TransferSpec

-----------------------------------------------------------------------------
(* The beginning of a beginning.                                           *)
LEMMA CutCut ==
  ASSUME NEW X, NEW p \in Seq(X), NEW m \in 0..Len(p), NEW n \in 0..m
  PROVE  SubSeq(SubSeq(p, 1, m), 1, n) = SubSeq(p, 1, n)
  <1>1. Len(p) \in Nat /\ n \in 0..Len(p)
    <2>1. Len(p) \in Nat
      OBVIOUS
    <2>2. QED
      BY <2>1
  <1>2. PICK a : a = SubSeq(p, 1, m)
    OBVIOUS
  <1>3. a \in Seq(X) /\ Len(a) = m /\ \A i \in 1..m : a[i] = p[i]
    BY <1>2, Cuts
  <1>4. PICK b : b = SubSeq(a, 1, n)
    OBVIOUS
  <1>5. n \in 0..Len(a) /\ \A i \in 1..n : i \in 1..m
    BY <1>1, <1>3
  <1>6. b \in Seq(X) /\ Len(b) = n /\ \A i \in 1..n : b[i] = a[i]
    BY <1>3, <1>4, <1>5, Cuts
  <1>7. PICK c : c = SubSeq(p, 1, n)
    OBVIOUS
  <1>8. c \in Seq(X) /\ Len(c) = n /\ \A i \in 1..n : c[i] = p[i]
    BY <1>1, <1>7, Cuts
  <1>9. b = c
    BY <1>3, <1>5, <1>6, <1>8, SeqEqual
  <1>10. QED
    BY <1>2, <1>4, <1>7, <1>9

(* An object is made where a name is set.                                  *)
LEMMA NameMakesObject ==
  ASSUME NEW c, Node(c), NEW p \in Plain, p # <<>>, p[1] \in Names, NEW v, Value(v),
         SetIn(c, p, v) # Panic
  PROVE  SetIn(c, p, v).kind = "obj"
  <1>1. p \in Ways /\ p[1] \in Segs /\ Tail(p) \in Plain
    BY PlainWays
  <1> DEFINE b == Child(c, p[1])
             y == SetIn(b, Tail(p), v)
  <1>2. SetIn(c, p, v) = Replaced(c, p[1], y)
    BY <1>1, SetStep
  <1>3. y # Panic
    BY <1>2 DEF Replaced
  <1>4. Node(b)
    BY NodeFacts
  <1> HIDE DEF b
  <1>5. Value(y)
    BY <1>1, <1>3, <1>4, SetFacts
  <1> HIDE DEF y
  <1>6. Replaced(c, p[1], y).kind = "obj"
    BY <1>1, <1>2, <1>5, ReplacedOthers
  <1>7. QED
    BY <1>2, <1>6

-----------------------------------------------------------------------------
(* No array stands where a path goes on with a name, at any rows.          *)
Shape(d, q) ==
    \A k \in 1..Len(q) : q[k] \in Names =>
        \A i \in Nat : At(d, SubSeq(Row(q, i), 1, k - 1)).kind # "arr"

(* Of s and r one goes on where the other ends, or both end there, p with  *)
(* a name of its own behind r.                                             *)
GoesOn(p, i, m, n, s, r) ==
    /\ s \in Plain /\ Len(s) = m /\ r \in Plain /\ Len(r) = n - 1
    /\ \A k \in 1..m : s[k] = Row(p, i)[k]
    /\ n <= m => p[n] \in Names /\ SubSeq(s, 1, n - 1) = r
    /\ n = m + 1 => n <= Len(p) /\ p[n] \in Names /\ r = s
    /\ n > m + 1 => m < Len(p) /\ m < Len(r) /\ SubSeq(r, 1, m) = s

(* A place that is set at the rows of p, or on the way there, and a place  *)
(* above a name of q: they part, or go the same way to a name of p.        *)
Onwards(p, q, i, j, m, n) ==
    LET s == SubSeq(Row(p, i), 1, m)
        r == SubSeq(Row(q, j), 1, n - 1)
    IN  Diverge(s, r) \/ GoesOn(p, i, m, n, s, r)

LEMMA Onward ==
  ASSUME NEW p \in Ways, NEW q \in Ways, p = q \/ Beside(p, q), NEW i \in Nat, NEW j \in Nat,
         NEW m \in 0..Len(p), NEW n \in 1..Len(q), q[n] \in Names
  PROVE  Onwards(p, q, i, j, m, n)
  <1>0. SUFFICES ASSUME NEW s, s = SubSeq(Row(p, i), 1, m), NEW r, r = SubSeq(Row(q, j), 1, n - 1),
                        ~Diverge(s, r)
                 PROVE  GoesOn(p, i, m, n, s, r)
    BY DEF Onwards
  <1>1. Len(p) \in Nat /\ Len(q) \in Nat /\ m \in Nat /\ n \in Nat /\ n - 1 \in 0..Len(q)
    BY PathsAreWays
  <1>2. /\ Row(p, i) \in Plain /\ Len(Row(p, i)) = Len(p)
        /\ \A k \in 1..Len(p) : p[k] # Each => Row(p, i)[k] = p[k]
        /\ Row(q, j) \in Plain /\ Len(Row(q, j)) = Len(q)
        /\ \A k \in 1..Len(q) : q[k] # Each => Row(q, j)[k] = q[k]
    BY RowFacts
  <1>3. /\ s \in Plain /\ Len(s) = m /\ \A k \in 1..m : s[k] = Row(p, i)[k]
    <2>1. Row(p, i) \in Seq(Segs) /\ m \in 0..Len(Row(p, i))
      BY <1>2 DEF Plain
    <2>2. SubSeq(Row(p, i), 1, m) \in Seq(Segs) /\ Len(SubSeq(Row(p, i), 1, m)) = m
      BY <2>1, Cuts
    <2>3. \A k \in 1..m : SubSeq(Row(p, i), 1, m)[k] = Row(p, i)[k]
      BY <2>1, Cuts
    <2>4. QED
      BY <1>0, <2>2, <2>3 DEF Plain
  <1>4. /\ r \in Plain /\ Len(r) = n - 1 /\ \A k \in 1..(n - 1) : r[k] = Row(q, j)[k]
    <2>1. Row(q, j) \in Seq(Segs) /\ n - 1 \in 0..Len(Row(q, j))
      BY <1>1, <1>2 DEF Plain
    <2>2. SubSeq(Row(q, j), 1, n - 1) \in Seq(Segs) /\ Len(SubSeq(Row(q, j), 1, n - 1)) = n - 1
      BY <2>1, Cuts
    <2>3. \A k \in 1..(n - 1) : SubSeq(Row(q, j), 1, n - 1)[k] = Row(q, j)[k]
      BY <2>1, Cuts
    <2>4. QED
      BY <1>0, <2>2, <2>3 DEF Plain
  <1>5. \A x \in Names : x # Each
    BY NamesAssumption DEF Segs
  <1>6. /\ n <= m + 1 => n <= Len(p) /\ p[n] \in Names
        /\ n > m + 1 => m < Len(p)
    <2>1. CASE p = q
      BY <1>1, <2>1
    <2>2. CASE Beside(p, q)
      <3>1. PICK k \in 1..Len(p) : /\ k <= Len(q) /\ p[k] # q[k] /\ p[k] \in Names /\ q[k] \in Names
                                   /\ \A l \in 1..(k - 1) : p[l] = q[l]
        BY <2>2 DEF Beside
      <3>2. ~(k <= m /\ k <= n - 1)
        <4>1. SUFFICES ASSUME k <= m, k <= n - 1 PROVE FALSE
          OBVIOUS
        <4>2. k \in 1..m /\ k \in 1..(n - 1) /\ k \in 1..Len(q)
          BY <1>1, <3>1, <4>1
        <4>3. s[k] = p[k] /\ r[k] = q[k]
          BY <1>2, <1>3, <1>4, <1>5, <3>1, <4>2
        <4>4. Diverge(s, r)
          BY <1>3, <1>4, <3>1, <4>2, <4>3 DEF Diverge
        <4>5. QED
          BY <1>0, <4>4
      <3>3. n <= k => p[n] \in Names
        <4>1. CASE n = k
          BY <3>1, <4>1
        <4>2. CASE n < k
          <5>1. n \in 1..(k - 1)
            BY <1>1, <3>1, <4>2
          <5>2. QED
            BY <3>1, <5>1
        <4>3. QED
          BY <1>1, <3>1, <4>1, <4>2
      <3>4. k \in Nat /\ k <= Len(p)
        BY <1>1, <3>1
      <3>5. QED
        BY <1>1, <3>2, <3>3, <3>4
    <2>3. QED
      BY <2>1, <2>2
  <1>7. \/ Len(s) < Len(r) /\ SubSeq(r, 1, m) = s
        \/ Len(r) < Len(s) /\ SubSeq(s, 1, n - 1) = r
        \/ s = r
    <2>1. s \in Ways /\ r \in Ways
      BY <1>3, <1>4, PlainWays
    <2>2. QED
      BY <1>0, <1>3, <1>4, <2>1, PartOrBegin, BelowFacts
  <1>8. QED
    BY <1>1, <1>3, <1>4, <1>6, <1>7 DEF GoesOn

(* Setting at the rows of p, or on the way there, leaves room for p and    *)
(* for what is beside p, when what is set is empty and where p goes on with*)
(* a name no array.                                                        *)
LEMMA SetShape ==
  ASSUME NEW p \in Ways, NEW q \in Ways, p = q \/ Beside(p, q), NEW d, Node(d), Shape(d, q),
         NEW i \in Nat, NEW m \in 0..Len(p), NEW v, Value(v),
         m < Len(p) => /\ \A t \in Plain : t # <<>> => At(v, t) = Missing
                       /\ v.kind = "arr" => p[m + 1] \notin Names,
         SetIn(d, SubSeq(Row(p, i), 1, m), v) # Panic
  PROVE  Shape(SetIn(d, SubSeq(Row(p, i), 1, m), v), q)
  <1> DEFINE s == SubSeq(Row(p, i), 1, m)
             c == SetIn(d, s, v)
  <1>1. SUFFICES ASSUME NEW n \in 1..Len(q), q[n] \in Names, NEW j \in Nat
                 PROVE  At(c, SubSeq(Row(q, j), 1, n - 1)).kind # "arr"
    BY DEF Shape
  <1> DEFINE r == SubSeq(Row(q, j), 1, n - 1)
  <1>2. At(d, r).kind # "arr"
    BY <1>1 DEF Shape
  <1>3. c # Panic
    OBVIOUS
  <1>4. s \in Plain /\ r \in Plain
    <2>1. /\ Row(p, i) \in Plain /\ m \in 0..Len(Row(p, i))
          /\ Row(q, j) \in Plain /\ n - 1 \in 0..Len(Row(q, j))
      <3>1. Len(p) \in Nat /\ Len(q) \in Nat
        BY PathsAreWays
      <3>2. QED
        BY <1>1, <3>1, RowFacts
    <2>2. QED
      BY <2>1, PlainCuts
  <1>5. Diverge(s, r) \/ GoesOn(p, i, m, n, s, r)
    BY <1>1, Onward DEF Onwards
  <1> HIDE DEF s, r
  <1>6. ~Diverge(s, r) =>
           /\ Len(s) = m /\ Len(r) = n - 1 /\ \A k \in 1..m : s[k] = Row(p, i)[k]
           /\ n <= m => p[n] \in Names /\ SubSeq(s, 1, n - 1) = r
           /\ n = m + 1 => n <= Len(p) /\ p[n] \in Names /\ r = s
           /\ n > m + 1 => m < Len(p) /\ m < Len(r) /\ SubSeq(r, 1, m) = s
    BY <1>5 DEF GoesOn
  <1>7. Value(c) /\ At(c, s) = v
    BY <1>3, <1>4, SetFacts
  <1>8. CASE Diverge(s, r)
    <2>1. At(c, r) = At(d, r) \/ At(c, r) = Nil
      BY <1>3, <1>4, <1>8, SetDiverge
    <2>2. QED
      BY <1>2, <2>1 DEF Nil, r
  <1>9. CASE ~Diverge(s, r) /\ n <= m
    <2>1. n - 1 \in 0..Len(s) /\ n \in 1..m /\ n \in 1..Len(p) /\ p[n] \in Names /\ SubSeq(s, 1, n - 1) = r
          /\ s[n] = Row(p, i)[n] /\ Len(s) = m
      <3>1. Len(p) \in Nat
        BY PathsAreWays
      <3>2. QED
        BY <1>1, <1>6, <1>9, <3>1
    <2> DEFINE rest == SubSeq(s, (n - 1) + 1, Len(s))
    <2>2. SetIn(At(d, r), rest, v) # Panic /\ At(c, r) = SetIn(At(d, r), rest, v)
      <3>1. \A l \in 0..Len(s) :
               /\ SetIn(At(d, SubSeq(s, 1, l)), SubSeq(s, l + 1, Len(s)), v) # Panic
               /\ At(c, SubSeq(s, 1, l)) = SetIn(At(d, SubSeq(s, 1, l)), SubSeq(s, l + 1, Len(s)), v)
        BY <1>3, <1>4, SetSplit
      <3>2. QED
        BY <2>1, <3>1
    <2>3. rest \in Plain /\ rest # <<>> /\ rest[1] = p[n]
      <3>1. s \in Seq(Segs)
        BY <1>4 DEF Plain
      <3>2. rest \in Seq(Segs) /\ Len(rest) = m - (n - 1) /\ \A k \in 1..(m - (n - 1)) : rest[k] = s[(n - 1) + k]
        BY <2>1, <3>1, Cuts
      <3>3. 1 \in 1..(m - (n - 1)) /\ (n - 1) + 1 = n /\ m - (n - 1) # 0
        BY <1>1, <1>9
      <3>4. rest[1] = s[n] /\ rest # <<>>
        BY <3>2, <3>3
      <3>5. p[n] # Each
        BY <2>1, NamesAssumption DEF Segs
      <3>6. Row(p, i)[n] = p[n]
        BY <2>1, <3>5, RowFacts
      <3>7. QED
        BY <2>1, <3>2, <3>4, <3>6 DEF Plain
    <2>4. Node(At(d, r))
      BY <2>1, <1>4, AtSplit
    <2> HIDE DEF rest
    <2>5. SetIn(At(d, r), rest, v).kind = "obj"
      BY <2>1, <2>2, <2>3, <2>4, NameMakesObject
    <2>6. QED
      BY <2>2, <2>5 DEF r
  <1>10. CASE ~Diverge(s, r) /\ n = m + 1
    <2>1. n <= Len(p) /\ p[n] \in Names /\ r = s
      BY <1>6, <1>10
    <2>2. m < Len(p)
      <3>1. Len(p) \in Nat
        BY PathsAreWays
      <3>2. QED
        BY <1>10, <2>1, <3>1
    <2>3. v.kind # "arr"
      BY <1>10, <2>1, <2>2
    <2>4. QED
      BY <1>7, <2>1, <2>3 DEF r
  <1>11. CASE ~Diverge(s, r) /\ n > m + 1
    <2>1. m < Len(p) /\ m < Len(r) /\ SubSeq(r, 1, m) = s
      BY <1>6, <1>11
    <2> DEFINE rest == SubSeq(r, m + 1, Len(r))
    <2>2. rest \in Plain /\ rest # <<>>
      <3>1. r \in Seq(Segs) /\ m \in 0..Len(r) /\ Len(r) \in Nat
        <4>1. Len(r) \in Nat
          BY <1>4, PlainWays
        <4>2. QED
          BY <1>4, <2>1, <4>1 DEF Plain
      <3>2. rest \in Seq(Segs) /\ Len(rest) = Len(r) - m
        BY <3>1, Cuts
      <3> HIDE DEF rest
      <3>3. Len(rest) # 0
        BY <2>1, <3>1, <3>2
      <3>4. QED
        BY <3>2, <3>3 DEF Plain
    <2>3. At(c, r) = At(v, rest)
      <3>1. m \in 0..Len(r)
        <4>1. Len(r) \in Nat
          BY <1>4, PlainWays
        <4>2. QED
          BY <2>1, <4>1
      <3>2. At(c, r) = At(At(c, SubSeq(r, 1, m)), SubSeq(r, m + 1, Len(r)))
        BY <1>4, <1>7, <3>1, AtSplit DEF Node
      <3>3. QED
        BY <1>7, <2>1, <3>2
    <2>4. At(v, rest) = Missing
      BY <2>1, <2>2
    <2>5. QED
      BY <2>3, <2>4 DEF Missing, r
  <1>12. QED
    BY <1>1, <1>8, <1>9, <1>10, <1>11

(* Where there is room nothing panics.                                     *)
LEMMA RoomIsEnough ==
  ASSUME NEW p \in Ways, NEW d, Node(d), Shape(d, p), NEW i \in Nat, NEW m \in 0..Len(p),
         NEW v, Value(v)
  PROVE  SetIn(d, SubSeq(Row(p, i), 1, m), v) # Panic
  <1> DEFINE s == SubSeq(Row(p, i), 1, m)
  <1>1. Row(p, i) \in Seq(Segs) /\ m \in 0..Len(Row(p, i)) /\ Len(p) \in Nat /\ Len(Row(p, i)) = Len(p)
    BY RowFacts, PathsAreWays DEF Plain
  <1>2. s \in Plain /\ Len(s) = m /\ \A k \in 1..m : s[k] = Row(p, i)[k]
    BY <1>1, Cuts DEF Plain
  <1>3. SUFFICES ASSUME SetIn(d, s, v) = Panic PROVE FALSE
    OBVIOUS
  <1>4. PICK k \in 1..Len(s) : s[k] \notin Nat /\ At(d, SubSeq(s, 1, k - 1)).kind = "arr"
    <2> HIDE DEF s
    <2>1. QED
      BY <1>2, <1>3, SetPanics
  <1>5. k \in 1..m /\ k \in 1..Len(p) /\ k - 1 \in 0..m
    BY <1>1, <1>2, <1>4
  <1>6. SubSeq(s, 1, k - 1) = SubSeq(Row(p, i), 1, k - 1)
    BY <1>1, <1>5, CutCut
  <1>7. p[k] \in Names
    <2>1. s[k] = Row(p, i)[k] /\ s[k] \notin Nat /\ s[k] \in Segs
      <3>1. \A x \in Plain : \A l \in 1..Len(x) : x[l] \in Segs
        BY DEF Plain
      <3> HIDE DEF s
      <3>2. QED
        BY <1>2, <1>4, <1>5, <3>1
    <2>2. Row(p, i)[k] = IF p[k] = Each THEN i ELSE p[k]
      BY <1>5, RowFacts
    <2> HIDE DEF s
    <2>3. QED
      BY <2>1, <2>2 DEF Segs
  <1>8. QED
    BY <1>4, <1>5, <1>6, <1>7 DEF Shape

-----------------------------------------------------------------------------
(* What writing at p keeps, from d to c: places that part from every row of*)
(* p, up to the nil that fills up an array, and the room for p and for what*)
(* is beside it.                                                           *)
Leaves(p, r) == \A i \in Nat : Diverge(Row(p, i), r)

Keeps(p, d, c) ==
    /\ Value(c)
    /\ \A r \in Plain : Leaves(p, r) =>
          At(c, r) = At(d, r) \/ (At(d, r) = Missing /\ At(c, r) = Nil)
    /\ \A q \in Ways : (p = q \/ Beside(p, q)) /\ Shape(d, q) => Shape(c, q)

LEMMA KeepsTrans ==
  ASSUME NEW p, NEW d, NEW c, NEW b, Keeps(p, d, c), Keeps(p, c, b)
  PROVE  Keeps(p, d, b)
  <1>1. Nil # Missing
    BY DEF Nil, Missing
  <1>2. \A r \in Plain : Leaves(p, r) =>
           At(b, r) = At(d, r) \/ (At(d, r) = Missing /\ At(b, r) = Nil)
    BY <1>1 DEF Keeps
  <1>3. QED
    BY <1>2 DEF Keeps

LEMMA SetKeeps ==
  ASSUME NEW p \in Ways, NEW d, Value(d), NEW i \in Nat, NEW v, Value(v),
         SetIn(d, Row(p, i), v) # Panic
  PROVE  Keeps(p, d, SetIn(d, Row(p, i), v))
  <1>1. Node(d) /\ Row(p, i) \in Plain
    BY RowFacts DEF Node
  <1>2. Value(SetIn(d, Row(p, i), v))
    BY <1>1, SetFacts
  <1>3. \A r \in Plain : Leaves(p, r) =>
           \/ At(SetIn(d, Row(p, i), v), r) = At(d, r)
           \/ At(d, r) = Missing /\ At(SetIn(d, Row(p, i), v), r) = Nil
    BY <1>1, SetDiverge DEF Leaves
  <1>4. ASSUME NEW q \in Ways, p = q \/ Beside(p, q), Shape(d, q)
        PROVE  Shape(SetIn(d, Row(p, i), v), q)
    <2>1. Len(p) \in 0..Len(p) /\ ~(Len(p) < Len(p))
      <3>1. Len(p) \in Nat
        BY PathsAreWays
      <3>2. QED
        BY <3>1
    <2>2. SubSeq(Row(p, i), 1, Len(p)) = Row(p, i)
      BY <1>1, PlainWays, RowFacts, WholeCut
    <2>3. SetIn(d, SubSeq(Row(p, i), 1, Len(p)), v) # Panic
      BY <2>2
    <2>4. Shape(SetIn(d, SubSeq(Row(p, i), 1, Len(p)), v), q)
      BY <1>1, <1>4, <2>1, <2>3, SetShape
    <2>5. QED
      BY <2>2, <2>4
  <1>5. QED
    BY <1>2, <1>3, <1>4 DEF Keeps

(* Where there is room for a path, its rows are filled without a panic.    *)
LEMMA FilledKeeps ==
  ASSUME NEW d, Value(d), NEW p \in Ways, Shape(d, p), NEW type, NEW list, Len(list) \in Nat,
         \A i \in 1..Len(list) : Value(list[i]), NEW n \in 0..Len(list)
  PROVE  /\ Filled(d, p, type, list)[n] # Panic
         /\ Keeps(p, d, Filled(d, p, type, list)[n])
  <1> DEFINE F == Filled(d, p, type, list)
             S == {m \in Nat : m <= Len(list) => F[m] # Panic /\ Keeps(p, d, F[m])}
  <1>1. 0 \in S
    <2>1. F[0] = d
      BY FilledUnfold
    <2>2. Keeps(p, d, d)
      BY DEF Keeps
    <2> HIDE DEF F
    <2>3. QED
      BY <2>1, <2>2, ValueFacts
  <1>2. ASSUME NEW m \in S PROVE m + 1 \in S
    <2>1. SUFFICES ASSUME m + 1 <= Len(list) PROVE F[m + 1] # Panic /\ Keeps(p, d, F[m + 1])
      OBVIOUS
    <2>2. m \in Nat /\ m \in 0..Len(list) /\ m + 1 \in 0..Len(list) /\ m + 1 \in 1..Len(list)
      BY <2>1
    <2>3. F[m] # Panic /\ Keeps(p, d, F[m])
      BY <2>1, <2>2
    <2>4. F[m + 1] = SetIn(F[m], Row(p, m), Typed(type, list[m + 1]))
      <3>1. F[m + 1] = IF F[m] = Panic THEN Panic
                       ELSE SetIn(F[m], Row(p, m), Typed(type, list[m + 1]))
        BY <2>2, FilledUnfold
      <3> HIDE DEF F
      <3>2. QED
        BY <2>3, <3>1
    <2> HIDE DEF F
    <2>5. Value(F[m]) /\ Shape(F[m], p)
      BY <2>3 DEF Keeps
    <2>6. Value(Typed(type, list[m + 1]))
      BY <2>2, TypedFacts
    <2>7. SetIn(F[m], Row(p, m), Typed(type, list[m + 1])) # Panic
      <3>1. Len(p) \in 0..Len(p)
        <4>1. Len(p) \in Nat
          BY PathsAreWays
        <4>2. QED
          BY <4>1
      <3>2. SubSeq(Row(p, m), 1, Len(p)) = Row(p, m)
        BY <2>2, PlainWays, RowFacts, WholeCut
      <3>3. SetIn(F[m], SubSeq(Row(p, m), 1, Len(p)), Typed(type, list[m + 1])) # Panic
        BY <2>2, <2>5, <2>6, <3>1, RoomIsEnough DEF Node
      <3>4. QED
        BY <3>2, <3>3
    <2>8. Keeps(p, F[m], F[m + 1])
      BY <2>2, <2>4, <2>5, <2>6, <2>7, SetKeeps
    <2>9. QED
      BY <2>3, <2>4, <2>7, <2>8, KeepsTrans
  <1>3. S \in SUBSET Nat
    OBVIOUS
  <1> HIDE DEF S
  <1>4. S = Nat
    BY <1>1, <1>2, <1>3, SetInduction
  <1> USE DEF S
  <1>5. n \in Nat /\ n <= Len(list)
    OBVIOUS
  <1> HIDE DEF F
  <1>6. F[n] # Panic /\ Keeps(p, d, F[n])
    BY <1>4, <1>5
  <1>7. QED
    BY <1>6 DEF F

(* Add2json where there is room: only what goes into rows and is no list   *)
(* panics.                                                                 *)
LEMMA AddKeeps ==
  ASSUME NEW d, Value(d), NEW p \in Ways, Shape(d, p), NEW type, NEW v, Value(v)
  PROVE  \/ InRows(p) /\ v.kind \notin {"arr", "nil"} /\ Add2json(d, p, type, v) = Panic
         \/ Add2json(d, p, type, v) # Panic /\ Keeps(p, d, Add2json(d, p, type, v))
  <1>1. CASE ~InRows(p)
    <2>1. Add2json(d, p, type, v) = SetIn(d, p, Typed(type, v))
      BY <1>1 DEF Add2json
    <2>2. Value(Typed(type, v)) /\ p \in Plain /\ Row(p, 0) = p
      BY <1>1, TypedFacts, RowFacts
    <2>3. SetIn(d, p, Typed(type, v)) # Panic
      <3>1. Len(p) \in 0..Len(p)
        <4>1. Len(p) \in Nat
          BY PathsAreWays
        <4>2. QED
          BY <4>1
      <3>2. SubSeq(Row(p, 0), 1, Len(p)) = p
        BY <2>2, WholeCut
      <3>3. SetIn(d, SubSeq(Row(p, 0), 1, Len(p)), Typed(type, v)) # Panic
        BY <2>2, <3>1, RoomIsEnough DEF Node
      <3>4. QED
        BY <3>2, <3>3
    <2>4. Keeps(p, d, SetIn(d, p, Typed(type, v)))
      <3>1. Keeps(p, d, SetIn(d, Row(p, 0), Typed(type, v)))
        BY <2>2, <2>3, SetKeeps
      <3>2. QED
        BY <2>2, <3>1
    <2>5. QED
      BY <2>1, <2>3, <2>4
  <1>2. CASE InRows(p) /\ v.kind = "nil"
    <2>1. v = Nil
      BY <1>2, ValueFacts
    <2>2. Add2json(d, p, type, v) = d
      BY <1>2, <2>1 DEF Add2json
    <2>3. Keeps(p, d, d) /\ d # Panic
      BY ValueFacts DEF Keeps
    <2>4. QED
      BY <2>2, <2>3
  <1>3. CASE InRows(p) /\ v.kind = "arr"
    <2>1. v # Nil
      BY <1>3 DEF Nil
    <2>2. Add2json(d, p, type, v) = Filled(d, p, type, v.e)[Len(v.e)]
      BY <1>3, <2>1 DEF Add2json
    <2>3. Len(v.e) \in Nat /\ \A i \in 1..Len(v.e) : Value(v.e[i])
      BY <1>3, Elements
    <2>4. Len(v.e) \in 0..Len(v.e)
      BY <2>3
    <2>5. /\ Filled(d, p, type, v.e)[Len(v.e)] # Panic
          /\ Keeps(p, d, Filled(d, p, type, v.e)[Len(v.e)])
      BY <2>3, <2>4, FilledKeeps
    <2>6. QED
      BY <2>2, <2>5
  <1>4. CASE InRows(p) /\ v.kind \notin {"arr", "nil"}
    <2>1. v # Nil
      BY <1>4 DEF Nil
    <2>2. QED
      BY <1>4, <2>1 DEF Add2json
  <1>5. QED
    BY <1>1, <1>2, <1>3, <1>4

(* What Add2json writes is there: the value, or the elements of the list.  *)
LEMMA AddThere ==
  ASSUME NEW d, Value(d), NEW p \in Ways, NEW type, NEW v, Value(v), v # Nil,
         Add2json(d, p, type, v) # Panic
  PROVE  /\ ~InRows(p) => At(Add2json(d, p, type, v), p) = v
         /\ InRows(p) /\ v.kind = "arr" => \A i \in 1..Len(v.e) :
               At(Add2json(d, p, type, v), Row(p, i - 1)) = Typed(type, v.e[i])
  <1>1. ASSUME ~InRows(p) PROVE At(Add2json(d, p, type, v), p) = v
    <2>1. Add2json(d, p, type, v) = SetIn(d, p, v)
      BY <1>1, TypedFacts DEF Add2json
    <2>2. p \in Plain
      BY <1>1, RowFacts
    <2>3. QED
      BY <2>1, <2>2, SetFacts DEF Node
  <1>2. ASSUME InRows(p), v.kind = "arr"
        PROVE  \A i \in 1..Len(v.e) :
                  At(Add2json(d, p, type, v), Row(p, i - 1)) = Typed(type, v.e[i])
    <2>1. Add2json(d, p, type, v) = Filled(d, p, type, v.e)[Len(v.e)]
      BY <1>2 DEF Add2json
    <2>2. Len(v.e) \in Nat /\ \A i \in 1..Len(v.e) : Value(v.e[i])
      BY <1>2, Elements
    <2>3. Len(v.e) \in 0..Len(v.e)
      BY <2>2
    <2>4. Filled(d, p, type, v.e)[Len(v.e)] # Panic
      BY <2>1
    <2>5. \A i \in 1..Len(v.e) :
             At(Filled(d, p, type, v.e)[Len(v.e)], Row(p, i - 1)) = Typed(type, v.e[i])
      BY <1>2, <2>2, <2>3, <2>4, FilledFacts
    <2>6. QED
      BY <2>1, <2>5
  <1>3. QED
    BY <1>1, <1>2

(* A list that is written where nothing was is the list of its elements.   *)
TypedList(type, e) == [i \in DOMAIN e |-> Typed(type, e[i])]

LEMMA AddList ==
  ASSUME NEW d, Value(d), NEW p \in Ways, NEW type, NEW v, Value(v), v.kind = "arr", v.e # <<>>,
         p # <<>>, p[Len(p)] = Each, ~InRows(Parent(p)),
         At(d, Parent(p)) \in {Missing, Nil}, Add2json(d, p, type, v) # Panic
  PROVE  At(Add2json(d, p, type, v), Parent(p)) = Arr(TypedList(type, v.e))
  <1>0. PICK h : h = Parent(p)
    OBVIOUS
  <1>1. Len(p) \in Nat /\ Len(p) # 0 /\ Len(p) - 1 \in 0..Len(p) /\ Len(p) \in 1..Len(p)
    BY PathsAreWays
  <1> /\ h = SubSeq(p, 1, Len(p) - 1) /\ ~InRows(h) /\ At(d, h) \in {Missing, Nil}
    BY <1>0 DEF Parent, Front
  <1>2. h \in Ways /\ Len(h) = Len(p) - 1 /\ \A k \in 1..(Len(p) - 1) : h[k] = p[k]
    BY <1>1, Cuts DEF Ways
  <1>3. h \in Plain /\ \A k \in 1..(Len(p) - 1) : h[k] # Each
    BY <1>2, RowFacts
  <1>4. InRows(p)
    BY <1>1, RowFacts
  <1> DEFINE L == Len(v.e)
             e(n) == [i \in 1..n |-> Typed(type, v.e[i])]
             F == Filled(d, p, type, v.e)
  <1>5. L \in Nat /\ v.e = [i \in 1..L |-> v.e[i]] /\ \A i \in 1..L : Value(v.e[i])
    BY Elements
  <1>6. DOMAIN v.e = 1..L /\ L # 0
    <2>1. DOMAIN v.e = 1..L
      BY <1>5
    <2>2. L = 0 => v.e = <<>>
      <3>1. v.e \in Seq(ToSet(v.e))
        BY ValueFacts
      <3>2. QED
        BY <3>1, EmptySeq
    <2>3. QED
      BY <2>1, <2>2
  <1>7. Add2json(d, p, type, v) = F[L]
    <2>1. v # Nil
      BY DEF Nil
    <2>2. QED
      BY <1>4, <2>1 DEF Add2json
  <1>8. ASSUME NEW i \in Nat
        PROVE  /\ Row(p, i) \in Plain /\ Len(Row(p, i)) = Len(p) /\ SubSeq(Row(p, i), 1, Len(p) - 1) = h
               /\ SubSeq(Row(p, i), (Len(p) - 1) + 1, Len(Row(p, i))) = <<i>>
    <2>1. /\ Row(p, i) \in Plain /\ Len(Row(p, i)) = Len(p)
          /\ \A k \in 1..Len(p) : Row(p, i)[k] = IF p[k] = Each THEN i ELSE p[k]
      BY RowFacts
    <2>2. Row(p, i) \in Seq(Segs) /\ Len(p) - 1 \in 0..Len(Row(p, i))
      BY <1>1, <2>1 DEF Plain
    <2>3. PICK a : a = SubSeq(Row(p, i), 1, Len(p) - 1)
      OBVIOUS
    <2>4. /\ a \in Seq(Segs) /\ Len(a) = Len(p) - 1
          /\ \A k \in 1..(Len(p) - 1) : a[k] = Row(p, i)[k]
      BY <2>2, <2>3, Cuts
    <2>5. \A k \in 1..(Len(p) - 1) : a[k] = h[k]
      <3>1. \A k \in 1..(Len(p) - 1) : k \in 1..Len(p)
        BY <1>1
      <3>2. QED
        BY <1>2, <1>3, <2>1, <2>4, <3>1
    <2>6. a = h
      <3>1. h \in Seq(Segs)
        BY <1>3 DEF Plain
      <3>2. Len(a) = Len(h) /\ \A k \in 1..Len(a) : a[k] = h[k]
        BY <1>2, <2>4, <2>5
      <3>3. QED
        BY <2>4, <3>1, <3>2, SeqEqual
    <2>7. PICK b : b = SubSeq(Row(p, i), (Len(p) - 1) + 1, Len(Row(p, i)))
      OBVIOUS
    <2>8. /\ b \in Seq(Segs) /\ Len(b) = Len(p) - (Len(p) - 1)
          /\ \A k \in 1..(Len(p) - (Len(p) - 1)) : b[k] = Row(p, i)[(Len(p) - 1) + k]
      BY <2>1, <2>2, <2>7, Cuts
    <2>9. Len(b) = 1 /\ b[1] = i
      <3>1. Len(p) - (Len(p) - 1) = 1 /\ (Len(p) - 1) + 1 = Len(p)
        BY <1>1
      <3>2. Row(p, i)[Len(p)] = i
        BY <1>1, <2>1
      <3>3. QED
        BY <2>8, <3>1, <3>2
    <2>10. b = <<i>>
      <3>1. <<i>> \in Seq(Segs) /\ Len(<<i>>) = 1 /\ <<i>>[1] = i
        BY DEF Segs
      <3>2. QED
        BY <2>8, <2>9, <3>1, SeqEqual
    <2>11. QED
      BY <2>1, <2>3, <2>6, <2>7, <2>10
  <1> DEFINE S == {n \in Nat : n <= L =>
                     IF n = 0 THEN At(F[n], h) \in {Missing, Nil} ELSE At(F[n], h) = Arr(e(n))}
  <1>9. 0 \in S
    <2>1. F[0] = d
      BY <1>5, FilledUnfold
    <2> HIDE DEF F
    <2>2. QED
      BY <2>1
  <1>10. ASSUME NEW n \in S PROVE n + 1 \in S
    <2>1. SUFFICES ASSUME n + 1 <= L PROVE At(F[n + 1], h) = Arr(e(n + 1))
      OBVIOUS
    <2>2. n \in Nat /\ n \in 0..L /\ n + 1 \in 0..L /\ n + 1 \in 1..L /\ n <= L
      BY <1>5, <2>1
    <2>3. F[n + 1] # Panic /\ F[n + 1] = SetIn(F[n], Row(p, n), Typed(type, v.e[n + 1])) /\ F[n] # Panic
      <3>1. F[n + 1] # Panic
        <4> DEFINE P == {m \in Nat : m <= L => F[L - m] # Panic}
        <4>1. 0 \in P
          <5>1. L - 0 = L
            BY <1>5
          <5>2. F[L] # Panic
            BY <1>7
          <5> HIDE DEF F, L
          <5>3. QED
            BY <5>1, <5>2
        <4>2. ASSUME NEW m \in P PROVE m + 1 \in P
          <5>1. SUFFICES ASSUME m + 1 <= L PROVE F[L - (m + 1)] # Panic
            OBVIOUS
          <5>2. L - (m + 1) \in 0..L /\ L - m \in 0..L /\ (L - (m + 1)) + 1 = L - m /\ m <= L /\ m \in Nat
            BY <1>5, <5>1
          <5>3. F[L - m] # Panic
            BY <5>2
          <5>4. \A k \in 0..L : k + 1 \in 0..L /\ F[k + 1] # Panic => F[k] # Panic
            BY <1>5, FilledStep
          <5> HIDE DEF F, L
          <5>5. QED
            BY <5>2, <5>3, <5>4
        <4>3. P \in SUBSET Nat
          OBVIOUS
        <4> HIDE DEF P
        <4>4. P = Nat
          BY <4>1, <4>2, <4>3, SetInduction
        <4> HIDE DEF F, L
        <4>5. L - (n + 1) \in P /\ L - (n + 1) <= L /\ L - (L - (n + 1)) = n + 1
          BY <1>5, <2>2, <4>4
        <4> USE DEF P
        <4>6. QED
          BY <4>5
      <3>2. F[n + 1] = SetIn(F[n], Row(p, n), Typed(type, v.e[n + 1])) /\ F[n] # Panic
        BY <1>5, <2>2, <3>1, FilledStep
      <3>3. QED
        BY <3>1, <3>2
    <2>4. Value(F[n])
      BY <1>4, <1>5, <2>2, <2>3, FilledFacts
    <2>5. IF n = 0 THEN At(F[n], h) \in {Missing, Nil} ELSE At(F[n], h) = Arr(e(n))
      BY <2>2
    <2> DEFINE x == Typed(type, v.e[n + 1])
               c == At(F[n], h)
    <2>6. Value(x)
      BY <1>5, <2>2, TypedFacts
    <2>7. x # Panic
      BY <2>6, ValueFacts
    <2> HIDE DEF F, L, x
    <2>8. At(F[n + 1], h) = SetIn(c, <<n>>, x)
      <3>1. SetIn(F[n], Row(p, n), x) # Panic /\ F[n + 1] = SetIn(F[n], Row(p, n), x)
        BY <2>3 DEF x
      <3>2. \A m \in 0..Len(Row(p, n)) :
               At(SetIn(F[n], Row(p, n), x), SubSeq(Row(p, n), 1, m)) =
                  SetIn(At(F[n], SubSeq(Row(p, n), 1, m)), SubSeq(Row(p, n), m + 1, Len(Row(p, n))), x)
        BY <1>8, <2>2, <2>4, <2>6, <3>1, SetSplit DEF Node
      <3>3. Len(p) - 1 \in 0..Len(Row(p, n))
        BY <1>1, <1>8, <2>2
      <3>4. QED
        BY <1>8, <2>2, <3>1, <3>2, <3>3
    <2>9. SetIn(c, <<n>>, x) = Replaced(c, n, x)
      <3>1. PICK q : q = <<n>>
        OBVIOUS
      <3>2. q \in Ways /\ q # <<>> /\ q[1] = n /\ Tail(q) = <<>>
        BY <2>2, <3>1 DEF Ways, Segs
      <3> HIDE DEF c
      <3>3. SetIn(c, q, x) = Replaced(c, n, SetIn(Child(c, n), Tail(q), x))
        BY <3>2, SetStep
      <3>4. SetIn(Child(c, n), Tail(q), x) = x
        BY <3>2, SetEmpty
      <3>5. QED
        BY <3>1, <3>3, <3>4
    <2>10. Replaced(c, n, x) = Arr(e(n + 1))
      <3>1. CASE n = 0
        <4>1. c \in {Missing, Nil} /\ c.kind \notin {"obj", "arr"}
          BY <2>5, <3>1 DEF Missing, Nil
        <4>2. Replaced(c, n, x) = Arr([i \in 1..1 |-> x])
          <5> HIDE DEF c
          <5>1. PICK y : y = <<>>
            OBVIOUS
          <5> DEFINE g(m) == [i \in 1..m |-> IF i = 0 + 1 THEN x
                                             ELSE IF i <= Len(y) THEN y[i] ELSE Nil]
          <5>2. Replaced(c, 0, x) = Arr(g(IF 0 < Len(y) THEN Len(y) ELSE 0 + 1))
            BY <2>7, <4>1, <5>1 DEF Replaced
          <5>3. (IF 0 < Len(y) THEN Len(y) ELSE 0 + 1) = 1
            BY <5>1
          <5>4. g(1) = [i \in 1..1 |-> x]
            OBVIOUS
          <5> HIDE DEF g
          <5>5. QED
            BY <3>1, <5>2, <5>3, <5>4
        <4>3. e(n + 1) = [i \in 1..1 |-> x]
          BY <3>1 DEF x
        <4>4. QED
          BY <4>2, <4>3
      <3>2. CASE n # 0
        <4>1. c = Arr(e(n))
          BY <2>5, <3>2
        <4>2. c.kind = "arr" /\ c.e = e(n) /\ Len(e(n)) = n
          BY <2>2, <4>1 DEF Arr
        <4> DEFINE y == c.e
        <4>3. Len(y) = n /\ y = e(n)
          BY <4>2
        <4> HIDE DEF c
        <4>4. Replaced(c, n, x) = Arr([i \in 1..(n + 1) |-> IF i = n + 1 THEN x
                                                            ELSE IF i <= n THEN y[i] ELSE Nil])
          <5> DEFINE g(m) == [i \in 1..m |-> IF i = n + 1 THEN x
                                             ELSE IF i <= Len(y) THEN y[i] ELSE Nil]
          <5>1. Replaced(c, n, x) = Arr(g(IF n < Len(y) THEN Len(y) ELSE n + 1))
            BY <2>2, <2>7, <4>2 DEF Replaced
          <5>2. (IF n < Len(y) THEN Len(y) ELSE n + 1) = n + 1
            BY <2>2, <4>3
          <5>3. g(n + 1) = [i \in 1..(n + 1) |-> IF i = n + 1 THEN x
                                                 ELSE IF i <= n THEN y[i] ELSE Nil]
            BY <4>3
          <5> HIDE DEF g, y
          <5>4. QED
            BY <5>1, <5>2, <5>3
        <4>5. [i \in 1..(n + 1) |-> IF i = n + 1 THEN x ELSE IF i <= n THEN y[i] ELSE Nil]
              = e(n + 1)
          <5>1. ASSUME NEW i \in 1..(n + 1)
                PROVE  (IF i = n + 1 THEN x ELSE IF i <= n THEN y[i] ELSE Nil) = Typed(type, v.e[i])
            <6>1. CASE i = n + 1
              BY <6>1 DEF x
            <6>2. CASE i # n + 1
              <7>1. i \in 1..n
                BY <2>2, <5>1, <6>2
              <7>2. y[i] = Typed(type, v.e[i])
                BY <4>3, <7>1
              <7> HIDE DEF y
              <7>3. QED
                BY <2>2, <6>2, <7>1, <7>2
            <6>3. QED
              BY <6>1, <6>2
          <5> HIDE DEF y
          <5>2. QED
            BY <5>1
        <4>6. QED
          BY <4>4, <4>5
      <3>3. QED
        BY <3>1, <3>2
    <2>11. QED
      BY <2>8, <2>9, <2>10
  <1>11. S \in SUBSET Nat
    OBVIOUS
  <1> HIDE DEF S
  <1>12. S = Nat
    BY <1>9, <1>10, <1>11, SetInduction
  <1>13. L \in S /\ L <= L
    BY <1>5, <1>12
  <1> USE DEF S
  <1> HIDE DEF F, L
  <1>14. At(F[L], h) = Arr(e(L))
    BY <1>6, <1>13
  <1>15. TypedList(type, v.e) = e(L)
    BY <1>6 DEF TypedList
  <1>16. QED
    BY <1>0, <1>7, <1>14, <1>15

-----------------------------------------------------------------------------
(* Beside a place are its rows, and the array of its elements.             *)
LEMMA BesideLeaves ==
  ASSUME NEW p \in Ways, NEW q \in Ways, Beside(p, q), NEW j \in Nat, NEW n \in 0..Len(q),
         \A l \in (n + 1)..Len(q) : q[l] = Each
  PROVE  Leaves(p, SubSeq(Row(q, j), 1, n))
  <1>1. SUFFICES ASSUME NEW i \in Nat PROVE Diverge(Row(p, i), SubSeq(Row(q, j), 1, n))
    BY DEF Leaves
  <1>2. PICK k \in 1..Len(p) : /\ k <= Len(q) /\ p[k] # q[k] /\ p[k] \in Names /\ q[k] \in Names
                               /\ \A l \in 1..(k - 1) : p[l] = q[l]
    BY DEF Beside
  <1>3. p[k] # Each /\ q[k] # Each
    BY <1>2, NamesAssumption DEF Segs
  <1>4. Len(p) \in Nat /\ Len(q) \in Nat
    BY PathsAreWays
  <1>5. k \in 1..n /\ k \in 1..Len(q)
    BY <1>2, <1>3, <1>4
  <1>6. /\ Row(p, i) \in Plain /\ Len(Row(p, i)) = Len(p) /\ Row(p, i)[k] = p[k]
        /\ Row(q, j) \in Plain /\ Len(Row(q, j)) = Len(q) /\ Row(q, j)[k] = q[k]
    BY <1>2, <1>3, <1>5, RowFacts
  <1>7. PICK r : r = SubSeq(Row(q, j), 1, n)
    OBVIOUS
  <1>8. Len(r) = n /\ r[k] = q[k]
    <2>1. Row(q, j) \in Seq(Segs) /\ n \in 0..Len(Row(q, j))
      BY <1>6 DEF Plain
    <2>2. Len(r) = n /\ \A l \in 1..n : r[l] = Row(q, j)[l]
      BY <1>7, <2>1, Cuts
    <2>3. QED
      BY <1>5, <1>6, <2>2
  <1>9. Diverge(Row(p, i), r)
    BY <1>2, <1>5, <1>6, <1>8 DEF Diverge
  <1>10. QED
    BY <1>7, <1>9

LEMMA BesideRows ==
  ASSUME NEW p \in Ways, NEW q \in Ways, Beside(p, q), NEW j \in Nat
  PROVE  Leaves(p, Row(q, j))
  <1>1. Len(q) \in Nat /\ Len(q) \in 0..Len(q) /\ \A l \in (Len(q) + 1)..Len(q) : q[l] = Each
    BY PathsAreWays
  <1>2. Leaves(p, SubSeq(Row(q, j), 1, Len(q)))
    BY <1>1, BesideLeaves
  <1>3. SubSeq(Row(q, j), 1, Len(q)) = Row(q, j)
    BY RowFacts, PlainWays, WholeCut
  <1>4. QED
    BY <1>2, <1>3

(* The elements of an array that stands in no rows.                        *)
IsElements(p) == Last(p) = Each /\ ~InRows(Parent(p))

LEMMA ElementsFacts ==
  ASSUME NEW s \in Schemas, NEW p \in Dsts(s), IsElements(p)
  PROVE  /\ p[Len(p)] = Each /\ InRows(p)
         /\ Parent(p) = SubSeq(p, 1, Len(p) - 1) /\ Parent(p) \in Plain
         /\ \A i \in Nat : Parent(p) = SubSeq(Row(p, i), 1, Len(p) - 1)
         /\ \A q \in Ways : Beside(q, p) => Leaves(q, Parent(p))
  <1>1. /\ p \in Ways /\ p # <<>> /\ Len(p) \in Nat /\ Len(p) >= 1
        /\ Parent(p) = SubSeq(p, 1, Len(p) - 1) /\ p[Len(p)] = Each
    BY SchemaFacts DEF IsElements
  <1>2. InRows(p)
    BY <1>1, RowFacts
  <1>3. Len(p) - 1 \in 0..Len(p)
    BY <1>1
  <1> DEFINE h == Parent(p)
  <1>4. h \in Ways /\ Len(h) = Len(p) - 1 /\ \A k \in 1..(Len(p) - 1) : h[k] = p[k]
    <2>1. PICK m : m = Len(p) - 1
      OBVIOUS
    <2>2. p \in Seq(Segs \cup {Each}) /\ m \in 0..Len(p) /\ h = SubSeq(p, 1, m)
      BY <1>1, <1>3, <2>1 DEF Ways
    <2> HIDE DEF h
    <2>3. h \in Seq(Segs \cup {Each}) /\ Len(h) = m /\ \A k \in 1..m : h[k] = p[k]
      BY <2>2, Cuts
    <2>4. QED
      BY <2>1, <2>3 DEF Ways
  <1>5. h \in Plain /\ \A k \in 1..Len(h) : h[k] # Each
    BY <1>4, RowFacts DEF IsElements
  <1>6. ASSUME NEW i \in Nat PROVE h = SubSeq(Row(p, i), 1, Len(p) - 1)
    <2>1. /\ Row(p, i) \in Plain /\ Len(Row(p, i)) = Len(p)
          /\ \A k \in 1..Len(p) : Row(p, i)[k] = IF p[k] = Each THEN i ELSE p[k]
      BY <1>1, RowFacts
    <2>2. Row(p, i) \in Seq(Segs) /\ Len(p) - 1 \in 0..Len(Row(p, i))
      BY <1>3, <2>1 DEF Plain
    <2>3. PICK a : a = SubSeq(Row(p, i), 1, Len(p) - 1)
      OBVIOUS
    <2>4. /\ a \in Seq(Segs) /\ Len(a) = Len(p) - 1
          /\ \A k \in 1..(Len(p) - 1) : a[k] = Row(p, i)[k]
      BY <2>2, <2>3, Cuts
    <2>5. \A k \in 1..(Len(p) - 1) : k \in 1..Len(p)
      BY <1>1
    <2>6. h \in Seq(Segs)
      BY <1>5 DEF Plain
    <2> HIDE DEF h
    <2>7. \A k \in 1..(Len(p) - 1) : a[k] = h[k]
      BY <1>4, <1>5, <2>1, <2>4, <2>5
    <2>8. a = h
      BY <1>4, <2>4, <2>6, <2>7, SeqEqual
    <2>9. QED
      BY <2>3, <2>8
  <1>7. ASSUME NEW q \in Ways, Beside(q, p) PROVE Leaves(q, h)
    <2>1. \A l \in ((Len(p) - 1) + 1)..Len(p) : p[l] = Each
      BY <1>1
    <2>2. Leaves(q, SubSeq(Row(p, 0), 1, Len(p) - 1))
      BY <1>1, <1>3, <1>7, <2>1, BesideLeaves
    <2>3. h = SubSeq(Row(p, 0), 1, Len(p) - 1)
      BY <1>6
    <2> HIDE DEF h
    <2>4. QED
      BY <2>2, <2>3
  <1>8. QED
    BY <1>1, <1>2, <1>5, <1>6, <1>7

(* Nothing that is beside a place lies above its parents, nor does the     *)
(* place itself.                                                           *)
LEMMA NotAbove ==
  ASSUME NEW p \in Ways, NEW q \in Ways, p = q \/ Beside(q, p), NEW n \in 0..Len(p), n < Len(p),
         NEW h \in Ways, h = SubSeq(p, 1, n), NEW j \in Nat, NEW m \in 0..Len(q),
         \A l \in (m + 1)..Len(q) : q[l] = Each, m = Len(q) \/ (m = Len(q) - 1),
         NEW r \in Ways, r = SubSeq(Row(q, j), 1, m)
  PROVE  ~Below(r, h)
  <1>1. Len(p) \in Nat /\ Len(q) \in Nat
    BY PathsAreWays
  <1>2. Len(h) = n /\ \A k \in 1..n : h[k] = p[k]
    BY Cuts DEF Ways
  <1>3. Len(r) = m /\ \A k \in 1..m : r[k] = Row(q, j)[k]
    <2>1. Row(q, j) \in Seq(Segs) /\ m \in 0..Len(Row(q, j))
      BY RowFacts DEF Plain
    <2>2. QED
      BY <2>1, Cuts
  <1>4. SUFFICES ASSUME m < n, \A k \in 1..m : r[k] = h[k] PROVE FALSE
    BY <1>2, <1>3, BelowFacts
  <1>5. CASE p = q
    BY <1>1, <1>4, <1>5
  <1>6. CASE Beside(q, p)
    <2>1. PICK k \in 1..Len(q) : /\ k <= Len(p) /\ q[k] # p[k] /\ p[k] \in Names /\ q[k] \in Names
      BY <1>6 DEF Beside
    <2>2. q[k] # Each
      BY <2>1, NamesAssumption DEF Segs
    <2>3. k \in 1..m /\ k \in 1..n
      BY <1>1, <1>4, <2>1, <2>2
    <2>4. r[k] = q[k] /\ h[k] = p[k]
      <3>1. Row(q, j)[k] = q[k]
        BY <2>1, <2>2, RowFacts
      <3>2. QED
        BY <1>2, <1>3, <2>3, <3>1
    <2>5. QED
      BY <1>4, <2>1, <2>3, <2>4
  <1>7. QED
    BY <1>5, <1>6

(* The place where a body belongs, outside of rows: the array, for its     *)
(* elements, else the place itself.                                        *)
LEMMA HolderOf ==
  ASSUME NEW r \in Ways
  PROVE  LET q == IF r # <<>> /\ Last(r) = Each THEN Parent(r) ELSE r
         IN  ~InRows(q) => Holder(r) = q
  <1>1. Len(r) \in Nat /\ (r = <<>> <=> Len(r) = 0)
    BY PathsAreWays
  <1>2. PICK n \in 0..Len(r) : /\ Holder(r) = SubSeq(r, 1, n) /\ (n = 0 \/ r[n] # Each)
                               /\ \A k \in (n + 1)..Len(r) : r[k] = Each
    BY HolderFacts
  <1>3. CASE r # <<>> /\ Last(r) = Each
    <2>1. SUFFICES ASSUME ~InRows(Parent(r)) PROVE Holder(r) = Parent(r)
      BY <1>3
    <2>2. r[Len(r)] = Each /\ Parent(r) = SubSeq(r, 1, Len(r) - 1) /\ Len(r) - 1 \in 0..Len(r)
      BY <1>1, <1>3 DEF Last, Parent, Front
    <2>3. \A k \in 1..(Len(r) - 1) : r[k] # Each
      <3>1. PICK a : a = Parent(r)
        OBVIOUS
      <3>2. a \in Ways /\ Len(a) = Len(r) - 1 /\ \A k \in 1..(Len(r) - 1) : a[k] = r[k]
        <4>1. PICK m : m = Len(r) - 1
          OBVIOUS
        <4>2. r \in Seq(Segs \cup {Each}) /\ m \in 0..Len(r) /\ a = SubSeq(r, 1, m)
          BY <2>2, <3>1, <4>1 DEF Ways
        <4>3. a \in Seq(Segs \cup {Each}) /\ Len(a) = m /\ \A k \in 1..m : a[k] = r[k]
          BY <4>2, Cuts
        <4>4. QED
          BY <4>1, <4>3 DEF Ways
      <3>3. \A k \in 1..Len(a) : a[k] # Each
        BY <2>1, <3>1, <3>2, RowFacts
      <3>4. QED
        BY <3>2, <3>3
    <2>4. n = Len(r) - 1
      <3>1. n # Len(r)
        BY <1>1, <1>2, <1>3, <2>2
      <3>2. ~(n < Len(r) - 1)
        <4>1. SUFFICES ASSUME n < Len(r) - 1 PROVE FALSE
          OBVIOUS
        <4>2. Len(r) - 1 \in (n + 1)..Len(r) /\ Len(r) - 1 \in 1..(Len(r) - 1)
          BY <1>1, <4>1
        <4>3. QED
          BY <1>2, <2>3, <4>2
      <3>3. QED
        BY <1>1, <3>1, <3>2
    <2>5. QED
      BY <1>2, <2>2, <2>4
  <1>4. CASE r = <<>> \/ Last(r) # Each
    <2>1. n = Len(r)
      <3>1. CASE r = <<>>
        BY <1>1, <3>1
      <3>2. CASE r # <<>> /\ Last(r) # Each
        <4>1. r[Len(r)] # Each
          BY <3>2 DEF Last
        <4>2. n < Len(r) => Len(r) \in (n + 1)..Len(r)
          BY <1>1
        <4>3. QED
          BY <1>1, <1>2, <4>1, <4>2
      <3>3. QED
        BY <1>4, <3>1, <3>2
    <2>2. Holder(r) = r
      BY <1>2, <2>1, WholeCut
    <2>3. QED
      BY <1>4, <2>2
  <1>5. QED
    BY <1>3, <1>4

(* Nothing stands below what is empty.                                     *)
LEMMA EmptyIsEmpty ==
  ASSUME NEW v, v \in {Obj(<<>>), Arr(<<>>), Nil}, NEW t \in Plain, t # <<>>
  PROVE  At(v, t) = Missing
  <1>1. Child(v, t[1]) = Missing
    <2>1. CASE v = Obj(<<>>)
      <3>1. v.kind = "obj" /\ v.f = <<>> /\ DOMAIN v.f = {}
        BY <2>1 DEF Obj
      <3>2. QED
        BY <3>1 DEF Child
    <2>2. CASE v = Arr(<<>>)
      <3>1. v.kind = "arr" /\ Len(v.e) = 0
        BY <2>2 DEF Arr
      <3>2. QED
        BY <3>1 DEF Child
    <2>3. CASE v = Nil
      <3>1. v.kind = "nil"
        BY <2>3 DEF Nil
      <3>2. QED
        BY <3>1 DEF Child
    <2>4. QED
      BY <2>1, <2>2, <2>3
  <1>2. Value(v) /\ t \in Ways /\ t[1] # Each
    BY EmptyValues, PlainWays
  <1>3. QED
    BY <1>1, <1>2, AtStep

-----------------------------------------------------------------------------
(* What holds while values are carried over along paths that are apart.    *)

(* There is room for every value.                                          *)
Room(d) == \A q \in TransferPaths(schema) : Shape(d, q)

(* What is due is in d, as a value, as rows and as a list.                 *)
Arrived(p, d) ==
    /\ Due(p) = Nil \/ Value(Due(p))
    /\ InRows(p) /\ Due(p) # Nil => Due(p).kind = "arr"
    /\ ~InRows(p) /\ Due(p) # Nil => At(d, p) = Due(p)
    /\ InRows(p) /\ Due(p).kind = "arr" => \A i \in 1..Len(Due(p).e) :
          At(d, Row(p, i - 1)) = Typed(DstType(schema[p]), Due(p).e[i])
    /\ IsElements(p) /\ Due(p).kind = "arr" /\ Due(p).e # <<>> =>
          At(d, Parent(p)) = Arr(Listed(p))

(* A list whose elements are still to come.                                *)
Untouched(p, d) == IsElements(p) => At(d, Parent(p)) \in {Missing, Nil}

(* Where nothing is due, the parent is remembered or has its body.         *)
Completed(p, d, text) ==
    ~InRows(Holder(Parent(p))) => text # NoText /\ At(d, Holder(Parent(p))) # Missing

LeftOut(p, d, text, left, list) ==
    Due(p) = Nil => \/ Parent(p) \in ToSet(list)
                    \/ left = {} /\ (Regular => Completed(p, d, text))

Misfit == \E p \in TransferPaths(schema) : InRows(p) /\ Due(p).kind \notin {"arr", "nil"}

Carried(d, text, left, list, how) ==
    /\ left # {} \/ Regular => Room(d)
    /\ \A p \in TransferPaths(schema) \ left : Arrived(p, d) /\ LeftOut(p, d, text, left, list)
    /\ \A p \in left : Untouched(p, d)
    /\ \A i \in DOMAIN list : \E p \in TransferPaths(schema) : list[i] = Parent(p)
    /\ how = "failed" => Misfit
    /\ how = "done" => left = {} /\ list = <<>>

Carrying == op = "transfer" /\ Apart /\ result # "panicked" =>
                Carried(Tree, out, todo, parents, result)

(* All of it depends on the schema and the volume alone.                   *)
LEMMA InputsSame ==
  ASSUME UNCHANGED <<op, schema, source>>
  PROVE  /\ Apart' <=> Apart
         /\ Regular' <=> Regular
         /\ \A d, text, left, list, how :
               Carried(d, text, left, list, how)' <=> Carried(d, text, left, list, how)
  <1>1. schema' = schema /\ source' = source
    OBVIOUS
  <1>2. Apart' <=> Apart
    BY <1>1 DEF Apart, TransferPaths, Dsts
  <1>3. Regular' <=> Regular
    BY <1>1 DEF Regular, TransferPaths, Dsts
  <1>4. \A p : Due(p)' = Due(p)
    BY <1>1 DEF Due
  <1>5. \A p, d : Arrived(p, d)' <=> Arrived(p, d)
    BY <1>1 DEF Arrived, Due, Listed
  <1>6. TransferPaths(schema)' = TransferPaths(schema)
    BY <1>1 DEF TransferPaths, Dsts
  <1>7. \A d : Room(d)' <=> Room(d)
    BY <1>1 DEF Room, TransferPaths, Dsts
  <1>8. Misfit' <=> Misfit
    BY <1>4, <1>6 DEF Misfit
  <1>9. \A p, d, text, left, list : LeftOut(p, d, text, left, list)' <=> LeftOut(p, d, text, left, list)
    BY <1>3, <1>4 DEF LeftOut, Completed
  <1>10. \A d, text, left, list, how :
            Carried(d, text, left, list, how)' <=> Carried(d, text, left, list, how)
    BY <1>3, <1>5, <1>6, <1>7, <1>8, <1>9 DEF Carried, Untouched
  <1>11. QED
    BY <1>2, <1>3, <1>10

LEMMA CarryingLater ==
  ASSUME UNCHANGED <<op, schema, source>>,
         op = "transfer" /\ Apart /\ result' # "panicked" =>
             Carried(Tree', out', todo', parents', result')
  PROVE  Carrying'
  <1>1. /\ Apart' <=> Apart
        /\ \A d, text, left, list, how :
               Carried(d, text, left, list, how)' <=> Carried(d, text, left, list, how)
    BY InputsSame
  <1>2. op' = op
    OBVIOUS
  <1>3. QED
    BY <1>1, <1>2 DEF Carrying

LEMMA ListEmpty ==
  /\ ToSet(<<>>) = {} /\ DOMAIN <<>> = {}
  BY DEF ToSet

LEMMA ListAppend ==
  ASSUME NEW X, NEW list \in Seq(X), NEW x \in X
  PROVE  /\ ToSet(Append(list, x)) = ToSet(list) \cup {x}
         /\ \A i \in DOMAIN Append(list, x) :
               Append(list, x)[i] = x \/ \E j \in DOMAIN list : Append(list, x)[i] = list[j]
  <1>1. /\ Len(list) \in Nat /\ DOMAIN list = 1..Len(list)
        /\ Append(list, x) \in Seq(X) /\ Len(Append(list, x)) = Len(list) + 1
        /\ \A i \in 1..Len(list) : Append(list, x)[i] = list[i]
        /\ Append(list, x)[Len(list) + 1] = x
    OBVIOUS
  <1>2. PICK b : b = Append(list, x)
    OBVIOUS
  <1>3. DOMAIN b = 1..(Len(list) + 1)
    BY <1>1, <1>2
  <1>4. /\ \A i \in 1..Len(list) : b[i] = list[i]
        /\ b[Len(list) + 1] = x
        /\ \A i \in 1..(Len(list) + 1) : i \in 1..Len(list) \/ i = Len(list) + 1
        /\ 1..Len(list) \subseteq 1..(Len(list) + 1) /\ Len(list) + 1 \in 1..(Len(list) + 1)
    BY <1>1, <1>2
  <1>5. ToSet(b) = ToSet(list) \cup {x}
    <2>1. ToSet(b) = {b[i] : i \in 1..(Len(list) + 1)} /\ ToSet(list) = {list[i] : i \in 1..Len(list)}
      BY <1>1, <1>3 DEF ToSet
    <2>2. ASSUME NEW y \in ToSet(b) PROVE y \in ToSet(list) \cup {x}
      BY <1>4, <2>1
    <2>3. ASSUME NEW y \in ToSet(list) \cup {x} PROVE y \in ToSet(b)
      BY <1>4, <2>1
    <2>4. QED
      BY <2>2, <2>3
  <1>6. \A i \in DOMAIN b : b[i] = x \/ \E j \in DOMAIN list : b[i] = list[j]
    BY <1>1, <1>3, <1>4
  <1>7. QED
    BY <1>2, <1>5, <1>6

LEMMA CarryingAtFirst ==
  ASSUME TransferInit
  PROVE  Carrying
  <1>1. SUFFICES ASSUME op = "transfer", result # "panicked"
                 PROVE  Carried(Tree, out, todo, parents, result)
    BY DEF Carrying
  <1>2. /\ out = NoText /\ parents = <<>> /\ result = "none" /\ todo = TransferPaths(schema)
        /\ schema \in Schemas
    BY <1>1 DEF TransferInit
  <1>3. Tree = Nil
    BY <1>2 DEF Tree
  <1>4. \A t \in Plain : At(Nil, t) \in {Missing, Nil}
    <2>1. ASSUME NEW t \in Plain PROVE At(Nil, t) \in {Missing, Nil}
      <3>1. CASE t = <<>>
        BY <3>1, AtEmpty
      <3>2. CASE t # <<>>
        BY <3>2, EmptyIsEmpty
      <3>3. QED
        BY <3>1, <3>2
    <2>2. QED
      BY <2>1
  <1>5. Room(Nil)
    <2>1. ASSUME NEW q \in TransferPaths(schema), NEW k \in 1..Len(q), NEW i \in Nat
          PROVE  At(Nil, SubSeq(Row(q, i), 1, k - 1)).kind # "arr"
      <3>1. q \in Ways
        BY <1>2, SchemaFacts DEF TransferPaths
      <3>2. Row(q, i) \in Plain /\ k - 1 \in 0..Len(Row(q, i))
        <4>1. Len(q) \in Nat /\ Len(Row(q, i)) = Len(q) /\ Row(q, i) \in Plain
          BY <3>1, PathsAreWays, RowFacts
        <4>2. QED
          BY <2>1, <4>1
      <3>3. SubSeq(Row(q, i), 1, k - 1) \in Plain
        BY <3>2, PlainCuts
      <3>4. At(Nil, SubSeq(Row(q, i), 1, k - 1)) \in {Missing, Nil}
        BY <1>4, <3>3
      <3>5. QED
        BY <3>4 DEF Missing, Nil
    <2>2. QED
      BY <2>1 DEF Room, Shape
  <1>6. \A p \in TransferPaths(schema) : Untouched(p, Nil)
    <2>1. ASSUME NEW p \in TransferPaths(schema), IsElements(p) PROVE At(Nil, Parent(p)) \in {Missing, Nil}
      <3>1. Parent(p) \in Plain
        BY <1>2, <2>1, ElementsFacts DEF TransferPaths
      <3>2. QED
        BY <1>4, <3>1
    <2>2. QED
      BY <2>1 DEF Untouched
  <1>7. QED
    BY <1>2, <1>3, <1>5, <1>6, ListEmpty DEF Carried

(* What writing at p keeps of what arrived, and of the lists to come.      *)
LEMMA ArrivedKept ==
  ASSUME TransferTypes, NEW p \in TransferPaths(schema), NEW q \in TransferPaths(schema),
         Beside(p, q), NEW d, NEW c, Keeps(p, d, c)
  PROVE  /\ Arrived(q, d) => Arrived(q, c)
         /\ Untouched(q, d) => Untouched(q, c)
  <1>1. schema \in Schemas /\ p \in Dsts(schema) /\ q \in Dsts(schema) /\ p \in Ways /\ q \in Ways
    BY SchemaFacts DEF TransferTypes, TransferPaths
  <1>2. \A r \in Plain : Leaves(p, r) =>
           At(c, r) = At(d, r) \/ (At(d, r) = Missing /\ At(c, r) = Nil)
    BY DEF Keeps
  <1>3. \A i \in Nat : Row(q, i) \in Plain /\ Leaves(p, Row(q, i))
    BY <1>1, RowFacts, BesideRows
  <1>4. ~InRows(q) => q \in Plain /\ Leaves(p, q)
    BY <1>1, <1>3, RowFacts
  <1>5. IsElements(q) => Parent(q) \in Plain /\ Leaves(p, Parent(q))
    BY <1>1, ElementsFacts
  <1>6. ASSUME Arrived(q, d) PROVE Arrived(q, c)
    <2>1. ASSUME ~InRows(q), Due(q) # Nil PROVE At(c, q) = Due(q)
      <3>1. At(d, q) = Due(q) /\ Value(Due(q))
        BY <1>6, <2>1 DEF Arrived
      <3>2. At(d, q) # Missing
        BY <3>1, ValueFacts
      <3>3. QED
        BY <1>2, <1>4, <2>1, <3>1, <3>2
    <2>2. ASSUME InRows(q), Due(q).kind = "arr", NEW i \in 1..Len(Due(q).e)
          PROVE  At(c, Row(q, i - 1)) = Typed(DstType(schema[q]), Due(q).e[i])
      <3>1. At(d, Row(q, i - 1)) = Typed(DstType(schema[q]), Due(q).e[i])
        BY <1>6, <2>2 DEF Arrived
      <3>2. Due(q) # Nil /\ Value(Due(q))
        BY <1>6, <2>2 DEF Arrived, Nil
      <3>3. Len(Due(q).e) \in Nat /\ Value(Due(q).e[i])
        BY <2>2, <3>2, Elements
      <3>4. i - 1 \in Nat
        BY <3>3
      <3>5. Value(Typed(DstType(schema[q]), Due(q).e[i]))
        BY <3>3, TypedFacts
      <3>6. At(d, Row(q, i - 1)) # Missing
        BY <3>1, <3>5, ValueFacts
      <3>7. QED
        BY <1>2, <1>3, <3>1, <3>4, <3>6
    <2>3. ASSUME IsElements(q), Due(q).kind = "arr", Due(q).e # <<>>
          PROVE  At(c, Parent(q)) = Arr(Listed(q))
      <3>1. At(d, Parent(q)) = Arr(Listed(q))
        BY <1>6, <2>3 DEF Arrived
      <3>2. At(d, Parent(q)) # Missing
        BY <3>1 DEF Arr, Missing
      <3>3. QED
        BY <1>2, <1>5, <2>3, <3>1, <3>2
    <2>4. /\ Due(q) = Nil \/ Value(Due(q))
          /\ InRows(q) /\ Due(q) # Nil => Due(q).kind = "arr"
      BY <1>6 DEF Arrived
    <2>5. QED
      BY <2>1, <2>2, <2>3, <2>4 DEF Arrived
  <1>7. ASSUME Untouched(q, d) PROVE Untouched(q, c)
    <2>1. SUFFICES ASSUME IsElements(q) PROVE At(c, Parent(q)) \in {Missing, Nil}
      BY DEF Untouched
    <2>2. At(d, Parent(q)) \in {Missing, Nil}
      BY <1>7, <2>1 DEF Untouched
    <2>3. QED
      BY <1>2, <1>5, <2>1, <2>2
  <1>8. QED
    BY <1>6, <1>7

(* What is written arrives.                                                *)
LEMMA WrittenArrives ==
  ASSUME TransferTypes, NEW p \in TransferPaths(schema), Shape(Tree, p), Untouched(p, Tree),
         Value(Due(p)), Due(p) # Nil,
         Add2json(Tree, p, DstType(schema[p]), Due(p)) # Panic
  PROVE  /\ Arrived(p, Add2json(Tree, p, DstType(schema[p]), Due(p)))
         /\ Keeps(p, Tree, Add2json(Tree, p, DstType(schema[p]), Due(p)))
  <1>1. schema \in Schemas /\ p \in Dsts(schema) /\ p \in Ways /\ p # <<>>
    BY SchemaFacts DEF TransferTypes, TransferPaths
  <1> DEFINE type == DstType(schema[p])
             v == Due(p)
             c == Add2json(Tree, p, type, v)
  <1>2. Value(Tree)
    BY TreeIsValue
  <1>3. /\ Keeps(p, Tree, c)
        /\ ~(InRows(p) /\ v.kind \notin {"arr", "nil"})
    <2> HIDE DEF type, v
    <2>1. Add2json(Tree, p, type, v) # Panic /\ Value(v)
      BY DEF type, v
    <2>2. \/ InRows(p) /\ v.kind \notin {"arr", "nil"} /\ Add2json(Tree, p, type, v) = Panic
          \/ Add2json(Tree, p, type, v) # Panic /\ Keeps(p, Tree, Add2json(Tree, p, type, v))
      BY <1>1, <1>2, <2>1, AddKeeps
    <2>3. InRows(p) /\ v.kind \notin {"arr", "nil"} => Add2json(Tree, p, type, v) = Panic
      <3>1. v.kind # "nil" => v # Nil
        BY DEF Nil
      <3>2. QED
        BY <3>1 DEF Add2json
    <2>4. QED
      BY <2>1, <2>2, <2>3
  <1>4. v.kind # "nil"
    BY ValueFacts
  <1>5. /\ ~InRows(p) => At(c, p) = v
        /\ InRows(p) /\ v.kind = "arr" =>
              \A i \in 1..Len(v.e) : At(c, Row(p, i - 1)) = Typed(type, v.e[i])
    BY <1>1, <1>2, AddThere
  <1>6. ASSUME IsElements(p), v.kind = "arr", v.e # <<>> PROVE At(c, Parent(p)) = Arr(Listed(p))
    <2>1. /\ p[Len(p)] = Each /\ Parent(p) = SubSeq(p, 1, Len(p) - 1) /\ ~InRows(Parent(p))
          /\ At(Tree, Parent(p)) \in {Missing, Nil}
      BY <1>1, <1>6, ElementsFacts DEF IsElements, Untouched
    <2>2. /\ Value(Tree) /\ p \in Ways /\ p # <<>>
          /\ Value(v) /\ v.kind = "arr" /\ v.e # <<>> /\ c # Panic
      BY <1>1, <1>2, <1>6
    <2>3. Listed(p) = TypedList(type, v.e)
      BY DEF Listed, TypedList
    <2> HIDE DEF type, v
    <2>4. Add2json(Tree, p, type, v) # Panic
      BY <2>2
    <2>5. At(Add2json(Tree, p, type, v), Parent(p)) = Arr(TypedList(type, v.e))
      BY <2>1, <2>2, <2>4, AddList
    <2>6. QED
      BY <2>3, <2>5
  <1>7. Arrived(p, c)
    BY <1>3, <1>4, <1>5, <1>6 DEF Arrived
  <1>8. QED
    BY <1>3, <1>7

(* One turn of TransferDataFromVolume.                                     *)
LEMMA CarryingByCarry ==
  ASSUME TransferTypes, Carrying, NEW p \in todo, Carry(p)
  PROVE  Carrying'
  <1> DEFINE new == Add2json(Tree, p, DstType(schema[p]), Due(p))
  <1>1. /\ op = "transfer" /\ result = "none" /\ p \in TransferPaths(schema)
        /\ UNCHANGED <<op, schema, source, doc>>
        /\ \/ result' = "panicked"
           \/ /\ result' = "failed" /\ Value(Due(p)) /\ Due(p) # Nil /\ new = Panic
              /\ UNCHANGED <<todo, parents, out>>
           \/ /\ result' = "none" /\ Value(Due(p)) /\ Due(p) # Nil /\ new # Panic
              /\ Tree' = new /\ todo' = todo \ {p} /\ parents' = parents
           \/ /\ result' = "none" /\ Due(p) = Nil /\ out' = out
              /\ todo' = todo \ {p}
              /\ parents' = IF Parent(p) \in ToSet(parents) THEN parents
                            ELSE Append(parents, Parent(p))
    BY CarryCases
  <1>2. SUFFICES ASSUME Apart, result' # "panicked"
                 PROVE  Carried(Tree', out', todo', parents', result')
    BY <1>1, CarryingLater
  <1>3. Carried(Tree, out, todo, parents, "none")
    BY <1>1, <1>2 DEF Carrying
  <1>4. /\ Room(Tree) /\ Shape(Tree, p) /\ Untouched(p, Tree)
        /\ \A q \in TransferPaths(schema) \ todo : Arrived(q, Tree) /\ (Due(q) = Nil => Parent(q) \in ToSet(parents))
        /\ \A q \in todo : Untouched(q, Tree)
        /\ \A i \in DOMAIN parents : \E q \in TransferPaths(schema) : parents[i] = Parent(q)
    <2>1. todo # {}
      OBVIOUS
    <2>2. QED
      BY <1>1, <1>3, <2>1 DEF Carried, Room, LeftOut
  <1>5. \A q \in TransferPaths(schema) : q # p => Beside(p, q)
    BY <1>1, <1>2 DEF Apart
  <1>6. /\ todo \subseteq TransferPaths(schema)
        /\ \A q \in TransferPaths(schema) : q \in Ways
        /\ p \in Ways /\ Parent(p) \in DOMAIN schema /\ parents \in Seq(DOMAIN schema)
    BY <1>1, SchemaFacts DEF TransferTypes, TransferPaths
  <1>7. CASE /\ result' = "failed" /\ Value(Due(p)) /\ Due(p) # Nil /\ new = Panic
             /\ UNCHANGED <<todo, parents, out>>
    <2>1. Misfit
      <3>1. \/ InRows(p) /\ Due(p).kind \notin {"arr", "nil"}
            \/ new # Panic
        BY <1>4, <1>6, <1>7, TreeIsValue, AddKeeps
      <3>2. QED
        BY <1>1, <1>7, <3>1 DEF Misfit
    <2>2. Tree' = Tree
      BY <1>7 DEF Tree
    <2>3. QED
      BY <1>3, <1>7, <2>1, <2>2 DEF Carried
  <1>8. CASE /\ result' = "none" /\ Value(Due(p)) /\ Due(p) # Nil /\ new # Panic
             /\ Tree' = new /\ todo' = todo \ {p} /\ parents' = parents
    <2>1. Arrived(p, new) /\ Keeps(p, Tree, new)
      BY <1>1, <1>4, <1>8, WrittenArrives
    <2> HIDE DEF new
    <2>2. Room(new)
      BY <1>4, <1>5, <1>6, <2>1 DEF Room, Keeps
    <2>3. ASSUME NEW q \in TransferPaths(schema) \ todo'
          PROVE  Arrived(q, new) /\ LeftOut(q, new, out', todo', parents')
      <3>1. CASE q = p
        BY <1>8, <2>1, <3>1 DEF LeftOut
      <3>2. CASE q # p
        <4>1. q \in TransferPaths(schema) \ todo /\ Beside(p, q)
          BY <1>5, <1>8, <2>3, <3>2
        <4>2. Arrived(q, new)
          BY <1>1, <1>4, <2>1, <4>1, ArrivedKept
        <4>3. LeftOut(q, new, out', todo', parents')
          BY <1>4, <1>8, <4>1 DEF LeftOut
        <4>4. QED
          BY <4>2, <4>3
      <3>3. QED
        BY <3>1, <3>2
    <2>4. ASSUME NEW q \in todo' PROVE Untouched(q, new)
      <3>1. q \in todo /\ q # p /\ q \in TransferPaths(schema) /\ Beside(p, q)
        BY <1>5, <1>6, <1>8, <2>4
      <3>2. QED
        BY <1>1, <1>4, <2>1, <3>1, ArrivedKept
    <2>5. QED
      BY <1>4, <1>8, <2>2, <2>3, <2>4 DEF Carried
  <1>9. CASE /\ result' = "none" /\ Due(p) = Nil /\ out' = out
             /\ todo' = todo \ {p}
             /\ parents' = IF Parent(p) \in ToSet(parents) THEN parents
                           ELSE Append(parents, Parent(p))
    <2>1. Tree' = Tree
      BY <1>9 DEF Tree
    <2>2. /\ ToSet(parents') = ToSet(parents) \cup {Parent(p)}
          /\ \A i \in DOMAIN parents' :
                parents'[i] = Parent(p) \/ \E j \in DOMAIN parents : parents'[i] = parents[j]
      BY <1>6, <1>9, ListAppend
    <2>3. Arrived(p, Tree)
      BY <1>9 DEF Arrived, Nil
    <2>4. \A q \in TransferPaths(schema) \ todo' :
             Arrived(q, Tree) /\ LeftOut(q, Tree, out', todo', parents')
      BY <1>4, <1>9, <2>2, <2>3 DEF LeftOut
    <2>5. \A i \in DOMAIN parents' : \E q \in TransferPaths(schema) : parents'[i] = Parent(q)
      BY <1>1, <1>4, <2>2
    <2>6. \A q \in todo' : Untouched(q, Tree)
      BY <1>4, <1>9
    <2>7. QED
      BY <1>4, <1>9, <2>1, <2>4, <2>5, <2>6 DEF Carried
  <1>10. QED
    BY <1>1, <1>2, <1>7, <1>8, <1>9

-----------------------------------------------------------------------------
(* The place where the body of a parent belongs, on the way to what it is  *)
(* the parent of.                                                          *)
LEMMA HolderBelow ==
  ASSUME NEW s \in Schemas, NEW p \in Dsts(s)
  PROVE  LET h == Holder(Parent(p))
         IN  /\ h \in DOMAIN s /\ h \in Ways /\ Len(h) \in Nat /\ Len(h) < Len(p)
             /\ h = SubSeq(p, 1, Len(h)) /\ Below(h, p)
             /\ ~InRows(h) => h \in Plain /\ \A i \in Nat : h = SubSeq(Row(p, i), 1, Len(h))
  <1> DEFINE h == Holder(Parent(p))
  <1>1. /\ p \in Ways /\ Len(p) \in Nat /\ Len(p) >= 1 /\ Parent(p) \in DOMAIN s
        /\ Parent(p) = SubSeq(p, 1, Len(p) - 1)
    BY SchemaFacts
  <1>2. Parent(p) \in Ways /\ h \in DOMAIN s /\ h \in Ways
    BY <1>1, SchemaFacts, HolderInSchema
  <1>3. PICK m : m = Len(p) - 1
    OBVIOUS
  <1>4. m \in 0..Len(p) /\ Parent(p) = SubSeq(p, 1, m) /\ p \in Seq(Segs \cup {Each})
    BY <1>1, <1>3 DEF Ways
  <1>5. Len(Parent(p)) = m
    BY <1>4, Cuts
  <1>6. PICK n \in 0..m : h = SubSeq(Parent(p), 1, n)
    BY <1>2, <1>5, HolderFacts
  <1>7. h = SubSeq(p, 1, n)
    BY <1>4, <1>6, CutCut
  <1> HIDE DEF h
  <1>8. n \in 0..Len(p) /\ n < Len(p)
    BY <1>1, <1>3, <1>6
  <1>9. Len(h) = n /\ \A k \in 1..n : h[k] = p[k]
    BY <1>4, <1>7, <1>8, Cuts
  <1>10. Below(h, p)
    BY <1>1, <1>2, <1>8, <1>9, BelowFacts
  <1>11. ASSUME ~InRows(h) PROVE h \in Plain /\ \A i \in Nat : h = SubSeq(Row(p, i), 1, n)
    <2>1. h \in Plain /\ \A k \in 1..n : h[k] # Each
      BY <1>2, <1>9, <1>11, RowFacts
    <2>2. ASSUME NEW i \in Nat PROVE h = SubSeq(Row(p, i), 1, n)
      <3>1. /\ Row(p, i) \in Seq(Segs) /\ n \in 0..Len(Row(p, i))
            /\ \A k \in 1..Len(p) : Row(p, i)[k] = IF p[k] = Each THEN i ELSE p[k]
        BY <1>1, <1>8, RowFacts DEF Plain
      <3>2. PICK a : a = SubSeq(Row(p, i), 1, n)
        OBVIOUS
      <3>3. a \in Seq(Segs) /\ Len(a) = n /\ \A k \in 1..n : a[k] = Row(p, i)[k]
        BY <3>1, <3>2, Cuts
      <3>4. \A k \in 1..n : k \in 1..Len(p)
        BY <1>1, <1>8
      <3>5. \A k \in 1..n : a[k] = h[k]
        BY <1>9, <2>1, <3>1, <3>3, <3>4
      <3>6. a = h
        BY <1>9, <2>1, <3>3, <3>5, SeqEqual DEF Plain
      <3>7. QED
        BY <3>2, <3>6
    <2>3. QED
      BY <2>1, <2>2
  <1>12. n \in Nat
    BY <1>8
  <1>13. QED
    BY <1>2, <1>7, <1>8, <1>9, <1>10, <1>11, <1>12 DEF h

-----------------------------------------------------------------------------
(* The body of a node that has no default of its own: what is set is empty.*)
LEMMA BodyIsSet ==
  ASSUME TransferTypes, NEW h \in DOMAIN schema, schema[h].dflt = Nil,
         BodyOf(h) # Panic, out' = BodyOf(h)
  PROVE  \/ Tree' = Tree
         \/ /\ ~InRows(h)
            /\ \E v : /\ v \in {Obj(<<>>), Arr(<<>>), Nil} /\ Value(v)
                      /\ v = Arr(<<>>) => Head(schema[h].types) = "array"
                      /\ SetIn(Tree, h, v) # Panic /\ Tree' = SetIn(Tree, h, v)
  <1>1. CASE out' = out
    BY <1>1 DEF Tree
  <1>2. CASE h = <<>> /\ out = NoText /\ BodyOf(h) \in {Obj(<<>>), Arr(<<>>)}
    <2>1. /\ Value(BodyOf(h)) /\ BodyOf(h) # NoText /\ BodyOf(h) # Panic
          /\ BodyOf(h) = Arr(<<>>) => Head(schema[h].types) = "array"
      <3>1. Obj(<<>>) # NoText /\ Arr(<<>>) # NoText
        BY DEF Obj, Arr, NoText
      <3>2. BodyOf(h) = Arr(<<>>) => Head(schema[h].types) = "array"
        BY <1>2, BodyCases
      <3>3. QED
        BY <1>2, <3>1, <3>2, EmptyValues
    <2>2. Tree' = BodyOf(h)
      BY <2>1 DEF Tree
    <2>3. SetIn(Tree, h, BodyOf(h)) = BodyOf(h)
      BY <1>2, SetEmpty
    <2>4. ~InRows(h)
      BY <1>2 DEF InRows, ToSet
    <2>5. QED
      BY <1>2, <2>1, <2>2, <2>3, <2>4
  <1>3. CASE /\ h # <<>> /\ ~InRows(h) /\ h \in Plain
             /\ \E v : /\ Value(v)
                       /\ v \in {Obj(<<>>), Arr(<<>>), Nil}
                       /\ v = Arr(<<>>) => Head(schema[h].types) = "array"
                       /\ SetIn(Tree, h, v) # Panic /\ BodyOf(h) = SetIn(Tree, h, v)
    <2>1. PICK v : /\ Value(v)
                   /\ v \in {Obj(<<>>), Arr(<<>>), Nil}
                   /\ v = Arr(<<>>) => Head(schema[h].types) = "array"
                   /\ SetIn(Tree, h, v) # Panic /\ BodyOf(h) = SetIn(Tree, h, v)
      BY <1>3
    <2>2. Value(SetIn(Tree, h, v))
      BY <1>3, <2>1, TreeIsValue, SetFacts DEF Node
    <2>3. SetIn(Tree, h, v) # NoText
      <3>1. NoText.kind = "noText"
        BY DEF NoText
      <3>2. QED
        BY <2>2, <3>1, ValueFacts
    <2>4. Tree' = SetIn(Tree, h, v)
      BY <2>1, <2>3 DEF Tree
    <2>5. QED
      BY <1>3, <2>1, <2>4
  <1>4. QED
    BY <1>1, <1>2, <1>3, BodyCases

(* A body takes nothing away, and changes only what is above it.           *)
LEMMA BodyKeeps ==
  ASSUME TransferTypes, NEW h \in DOMAIN schema, BodyOf(h) # Panic, out' = BodyOf(h),
         NEW r \in Plain, At(Tree, r) # Missing
  PROVE  /\ out # NoText => out' # NoText /\ At(Tree', r) # Missing
         /\ ~Below(r, h) /\ (r # <<>> \/ At(Tree, r) # Nil) => At(Tree', r) = At(Tree, r)
  <1>1. CASE out' = out
    BY <1>1 DEF Tree
  <1>2. CASE h = <<>> /\ out = NoText
    <2>1. Tree = Nil
      BY <1>2 DEF Tree
    <2>2. r = <<>> /\ At(Tree, r) = Nil
      BY <2>1, AtEmpty, EmptyIsEmpty
    <2>3. QED
      BY <1>2, <2>2
  <1>3. CASE /\ h \in Plain /\ At(Tree, h) = Missing
             /\ \E v : Value(v) /\ SetIn(Tree, h, v) # Panic /\ BodyOf(h) = SetIn(Tree, h, v)
    <2>1. PICK v : Value(v) /\ SetIn(Tree, h, v) # Panic /\ out' = SetIn(Tree, h, v)
      BY <1>3
    <2>2. Value(SetIn(Tree, h, v))
      BY <1>3, <2>1, TreeIsValue, SetFacts DEF Node
    <2>3. SetIn(Tree, h, v) # NoText
      <3>1. NoText.kind = "noText"
        BY DEF NoText
      <3>2. QED
        BY <2>2, <3>1, ValueFacts
    <2>4. Tree' = SetIn(Tree, h, v) /\ out' # NoText
      BY <2>1, <2>3 DEF Tree
    <2>5. /\ At(SetIn(Tree, h, v), r) # Missing
          /\ ~Below(r, h) => At(SetIn(Tree, h, v), r) = At(Tree, r)
      BY <1>3, <2>1, TreeIsValue, SetNew
    <2>6. QED
      BY <2>4, <2>5
  <1>4. QED
    BY <1>1, <1>2, <1>3, BodyCases

(* The body of a parent leaves what arrived.                               *)
LEMMA ArrivedByBody ==
  ASSUME TransferTypes, NEW p \in TransferPaths(schema), NEW q \in TransferPaths(schema),
         p = q \/ Beside(q, p), NEW h, h = Holder(Parent(p)),
         BodyOf(h) # Panic, out' = BodyOf(h), Arrived(q, Tree)
  PROVE  Arrived(q, Tree')
  <1>1. /\ schema \in Schemas /\ p \in Dsts(schema) /\ q \in Dsts(schema) /\ p \in Ways /\ q \in Ways
        /\ Len(q) \in Nat /\ Len(q) >= 1 /\ Len(p) \in Nat
    BY SchemaFacts DEF TransferTypes, TransferPaths
  <1>2. /\ h \in DOMAIN schema /\ h \in Ways /\ Len(h) \in Nat /\ Len(h) < Len(p)
        /\ h = SubSeq(p, 1, Len(h))
    BY <1>1, HolderBelow
  <1>3. PICK n : n = Len(h)
    OBVIOUS
  <1>4. n \in 0..Len(p) /\ n < Len(p) /\ h = SubSeq(p, 1, n)
    BY <1>1, <1>2, <1>3
  <1>5. \A r \in Plain : /\ At(Tree, r) # Missing /\ (r # <<>> \/ At(Tree, r) # Nil) /\ ~Below(r, h)
                            => At(Tree', r) = At(Tree, r)
    BY <1>2, BodyKeeps
  <1>6. ASSUME NEW j \in Nat
        PROVE  Row(q, j) \in Plain /\ Row(q, j) # <<>> /\ ~Below(Row(q, j), h)
    <2>1. Row(q, j) \in Plain /\ Len(Row(q, j)) = Len(q)
      BY <1>1, RowFacts
    <2>2. Row(q, j) \in Ways /\ Row(q, j) # <<>>
      BY <1>1, <2>1, PlainWays
    <2>3. Row(q, j) = SubSeq(Row(q, j), 1, Len(q))
      BY <2>1, <2>2, WholeCut
    <2>4. Len(q) \in 0..Len(q) /\ \A l \in (Len(q) + 1)..Len(q) : q[l] = Each
      BY <1>1
    <2>5. ~Below(Row(q, j), h)
      BY <1>1, <1>2, <1>4, <2>2, <2>3, <2>4, NotAbove
    <2>6. QED
      BY <2>1, <2>2, <2>5
  <1>7. ASSUME ~InRows(q), Due(q) # Nil PROVE At(Tree', q) = Due(q)
    <2>1. At(Tree, q) = Due(q) /\ Value(Due(q))
      BY <1>7 DEF Arrived
    <2>2. At(Tree, q) # Missing
      BY <2>1, ValueFacts
    <2>3. q = Row(q, 0)
      BY <1>1, <1>7, RowFacts
    <2>4. q \in Plain /\ q # <<>> /\ ~Below(q, h)
      BY <1>6, <2>3
    <2>5. QED
      BY <1>5, <2>1, <2>2, <2>4
  <1>8. ASSUME InRows(q), Due(q).kind = "arr", NEW i \in 1..Len(Due(q).e)
        PROVE  At(Tree', Row(q, i - 1)) = Typed(DstType(schema[q]), Due(q).e[i])
    <2>1. At(Tree, Row(q, i - 1)) = Typed(DstType(schema[q]), Due(q).e[i])
      BY <1>8 DEF Arrived
    <2>2. Due(q) # Nil /\ Value(Due(q))
      BY <1>8 DEF Arrived, Nil
    <2>3. Len(Due(q).e) \in Nat /\ Value(Due(q).e[i])
      BY <1>8, <2>2, Elements
    <2>4. i - 1 \in Nat
      BY <2>3
    <2>5. Value(Typed(DstType(schema[q]), Due(q).e[i]))
      BY <2>3, TypedFacts
    <2>6. At(Tree, Row(q, i - 1)) # Missing
      BY <2>1, <2>5, ValueFacts
    <2>7. Row(q, i - 1) \in Plain /\ Row(q, i - 1) # <<>> /\ ~Below(Row(q, i - 1), h)
      BY <1>6, <2>4
    <2>8. QED
      BY <1>5, <2>1, <2>6, <2>7
  <1>9. ASSUME IsElements(q), Due(q).kind = "arr", Due(q).e # <<>>
        PROVE  At(Tree', Parent(q)) = Arr(Listed(q))
    <2>1. At(Tree, Parent(q)) = Arr(Listed(q))
      BY <1>9 DEF Arrived
    <2>2. At(Tree, Parent(q)) # Missing /\ At(Tree, Parent(q)) # Nil
      BY <2>1 DEF Arr, Missing, Nil
    <2>3. /\ q[Len(q)] = Each /\ Parent(q) \in Plain
          /\ Parent(q) = SubSeq(Row(q, 0), 1, Len(q) - 1)
      BY <1>1, <1>9, ElementsFacts
    <2>4. PICK m : m = Len(q) - 1
      OBVIOUS
    <2>5. m \in 0..Len(q) /\ \A l \in (m + 1)..Len(q) : q[l] = Each
      BY <1>1, <2>3, <2>4
    <2>6. Parent(q) \in Ways
      BY <2>3, PlainWays
    <2>7. ~Below(Parent(q), h)
      BY <1>1, <1>2, <1>4, <2>3, <2>4, <2>5, <2>6, NotAbove
    <2>8. QED
      BY <1>5, <2>1, <2>2, <2>3, <2>7
  <1>10. QED
    BY <1>7, <1>8, <1>9 DEF Arrived

(* In a regular schema there is room for the body, and it gets there.      *)
LEMMA RegularBody ==
  ASSUME TransferTypes, Apart, Regular, Room(Tree), NEW p \in TransferPaths(schema),
         NEW h, h = Holder(Parent(p)), BodyOf(h) # Panic, out' = BodyOf(h)
  PROVE  Room(Tree') /\ Completed(p, Tree', out')
  <1>1. schema \in Schemas /\ p \in Dsts(schema) /\ p \in Ways /\ Len(p) \in Nat
    BY SchemaFacts DEF TransferTypes, TransferPaths
  <1>2. /\ h \in DOMAIN schema /\ h \in Ways /\ Len(h) \in Nat /\ Len(h) < Len(p) /\ Below(h, p)
        /\ ~InRows(h) => h \in Plain /\ h = SubSeq(Row(p, 0), 1, Len(h))
    BY <1>1, HolderBelow
  <1>3. PICK m : m = Len(h)
    OBVIOUS
  <1>4. m \in 0..Len(p) /\ m < Len(p) /\ (~InRows(h) => h = SubSeq(Row(p, 0), 1, m))
    BY <1>1, <1>2, <1>3
  <1>5. /\ schema[h].dflt = Nil
        /\ Head(schema[h].types) = "array" => p[m + 1] \notin Names
        /\ h = <<>> => Head(schema[h].types) \in {"object", "array"}
    BY <1>2, <1>3 DEF Regular
  <1>6. Node(Tree) /\ Value(Tree)
    BY TreeIsValue DEF Node
  <1>7. Room(Tree')
    <2>1. CASE Tree' = Tree
      BY <2>1
    <2>2. CASE /\ ~InRows(h)
               /\ \E v : /\ v \in {Obj(<<>>), Arr(<<>>), Nil} /\ Value(v)
                         /\ v = Arr(<<>>) => Head(schema[h].types) = "array"
                         /\ SetIn(Tree, h, v) # Panic /\ Tree' = SetIn(Tree, h, v)
      <3>1. PICK v : /\ v \in {Obj(<<>>), Arr(<<>>), Nil} /\ Value(v)
                     /\ v = Arr(<<>>) => Head(schema[h].types) = "array"
                     /\ SetIn(Tree, h, v) # Panic /\ Tree' = SetIn(Tree, h, v)
        BY <2>2
      <3>2. v.kind = "arr" => p[m + 1] \notin Names
        <4>1. Obj(<<>>).kind = "obj" /\ Nil.kind = "nil"
          BY DEF Obj, Nil
        <4>2. QED
          BY <1>5, <3>1, <4>1
      <3>3. \A t \in Plain : t # <<>> => At(v, t) = Missing
        BY <3>1, EmptyIsEmpty
      <3>4. ASSUME NEW q \in TransferPaths(schema) PROVE Shape(SetIn(Tree, h, v), q)
        <4>1. q \in Ways /\ Shape(Tree, q) /\ (p = q \/ Beside(p, q))
          BY <1>1, SchemaFacts DEF TransferPaths, Apart, Room
        <4>2. h = SubSeq(Row(p, 0), 1, m) /\ 0 \in Nat
          BY <1>4, <2>2
        <4>3. SetIn(Tree, SubSeq(Row(p, 0), 1, m), v) # Panic
          BY <3>1, <4>2
        <4>4. Shape(SetIn(Tree, SubSeq(Row(p, 0), 1, m), v), q)
          BY <1>1, <1>4, <1>6, <3>1, <3>2, <3>3, <4>1, <4>3, SetShape
        <4>5. QED
          BY <4>2, <4>4
      <3>5. QED
        BY <3>1, <3>4 DEF Room
    <2>3. QED
      BY <1>2, <1>5, <2>1, <2>2, BodyIsSet
  <1>8. Completed(p, Tree', out')
    <2>1. SUFFICES ASSUME ~InRows(h) PROVE out' # NoText /\ At(Tree', h) # Missing
      BY DEF Completed
    <2>2. h \in Plain /\ h = SubSeq(Row(p, 0), 1, m)
      BY <1>2, <1>4, <2>1
    <2>3. CASE h = <<>>
      <3>1. out' \in {Obj(<<>>), Arr(<<>>)}
        BY <1>2, <1>5, <2>3, BodyCases
      <3>2. /\ Obj(<<>>) # NoText /\ Arr(<<>>) # NoText
            /\ Obj(<<>>) # Missing /\ Arr(<<>>) # Missing
        BY DEF Obj, Arr, NoText, Missing
      <3>3. out' # NoText /\ Tree' = out' /\ out' # Missing
        BY <3>1, <3>2 DEF Tree
      <3>4. At(Tree', h) = Tree'
        BY <2>3, AtEmpty
      <3>5. QED
        BY <3>3, <3>4
    <2>4. CASE h # <<>> /\ At(Tree, h) # Missing /\ BodyOf(h) = out
      <3>1. Tree' = Tree
        BY <2>4 DEF Tree
      <3>2. out # NoText
        <4>1. out = NoText => Tree = Nil
          BY DEF Tree
        <4>2. At(Nil, h) = Missing
          BY <2>2, <2>4, EmptyIsEmpty
        <4>3. QED
          BY <2>4, <4>1, <4>2
      <3>3. QED
        BY <2>4, <3>1, <3>2
    <2>5. CASE /\ h # <<>> /\ At(Tree, h) = Missing
               /\ \E v : /\ Value(v)
                         /\ \/ SetIn(Tree, h, v) = Panic /\ BodyOf(h) = out
                            \/ SetIn(Tree, h, v) # Panic /\ BodyOf(h) = SetIn(Tree, h, v)
      <3>1. PICK v : /\ Value(v)
                     /\ \/ SetIn(Tree, h, v) = Panic /\ BodyOf(h) = out
                        \/ SetIn(Tree, h, v) # Panic /\ BodyOf(h) = SetIn(Tree, h, v)
        BY <2>5
      <3>2. SetIn(Tree, SubSeq(Row(p, 0), 1, m), v) # Panic
        <4>1. Shape(Tree, p) /\ 0 \in Nat
          BY DEF Room
        <4>2. QED
          BY <1>1, <1>4, <1>6, <3>1, <4>1, RoomIsEnough
      <3>3. out' = SetIn(Tree, h, v) /\ SetIn(Tree, h, v) # Panic
        BY <2>2, <3>1, <3>2
      <3>4. Value(out') /\ At(out', h) = v
        BY <1>6, <2>2, <3>1, <3>3, SetFacts
      <3>5. out' # NoText
        <4>1. NoText.kind = "noText"
          BY DEF NoText
        <4>2. QED
          BY <3>4, <4>1, ValueFacts
      <3>6. Tree' = out' /\ v # Missing
        BY <3>1, <3>5, ValueFacts DEF Tree
      <3>7. QED
        BY <3>4, <3>5, <3>6
    <2>6. QED
      BY <1>2, <2>1, <2>3, <2>4, <2>5, BodyCases
  <1>9. QED
    BY <1>7, <1>8

LEMMA ListTail ==
  ASSUME NEW X, NEW list \in Seq(X), list # <<>>
  PROVE  /\ Head(list) \in X
         /\ \E i \in DOMAIN list : list[i] = Head(list)
         /\ \A x \in ToSet(list) : x = Head(list) \/ x \in ToSet(Tail(list))
         /\ \A i \in DOMAIN Tail(list) : \E j \in DOMAIN list : Tail(list)[i] = list[j]
  <1>1. /\ Len(list) \in Nat /\ Len(list) # 0 /\ DOMAIN list = 1..Len(list)
        /\ Head(list) = list[1] /\ Head(list) \in X
        /\ Tail(list) \in Seq(X) /\ Len(Tail(list)) = Len(list) - 1
        /\ \A i \in 1..(Len(list) - 1) : Tail(list)[i] = list[i + 1]
    BY HeadTailProperties
  <1>2. PICK t : t = Tail(list)
    OBVIOUS
  <1>3. DOMAIN t = 1..(Len(list) - 1) /\ \A i \in 1..(Len(list) - 1) : t[i] = list[i + 1] /\ i + 1 \in DOMAIN list
    BY <1>1, <1>2
  <1>4. ASSUME NEW x \in ToSet(list), x # Head(list) PROVE x \in ToSet(t)
    <2>1. PICK j \in 1..Len(list) : x = list[j]
      BY <1>1 DEF ToSet
    <2>2. j - 1 \in 1..(Len(list) - 1) /\ (j - 1) + 1 = j
      BY <1>1, <1>4, <2>1
    <2>3. x = t[j - 1] /\ j - 1 \in DOMAIN t
      BY <1>3, <2>1, <2>2
    <2>4. QED
      BY <2>3 DEF ToSet
  <1>5. 1 \in DOMAIN list
    BY <1>1
  <1>6. QED
    BY <1>1, <1>2, <1>3, <1>4, <1>5

LEMMA CarryingByAddParent ==
  ASSUME TransferTypes, Carrying, AddParent
  PROVE  Carrying'
  <1>1. /\ op = "transfer" /\ result = "none" /\ todo = {} /\ parents # <<>>
        /\ UNCHANGED <<op, schema, source, doc, todo>>
        /\ \/ result' = "panicked" /\ UNCHANGED <<parents, out>>
           \/ /\ result' = "none" /\ parents' = Tail(parents)
              /\ BodyOf(Holder(Head(parents))) # Panic
              /\ out' = BodyOf(Holder(Head(parents)))
    BY AddParentCases
  <1>2. SUFFICES ASSUME Apart, result' # "panicked"
                 PROVE  Carried(Tree', out', todo', parents', result')
    BY <1>1, CarryingLater
  <1>3. Carried(Tree, out, {}, parents, "none")
    BY <1>1, <1>2 DEF Carrying
  <1>4. /\ Regular => Room(Tree)
        /\ \A q \in TransferPaths(schema) : Arrived(q, Tree) /\ LeftOut(q, Tree, out, {}, parents)
        /\ \A i \in DOMAIN parents : \E q \in TransferPaths(schema) : parents[i] = Parent(q)
    BY <1>3 DEF Carried
  <1>5. /\ \E i \in DOMAIN parents : parents[i] = Head(parents)
        /\ \A x \in ToSet(parents) : x = Head(parents) \/ x \in ToSet(Tail(parents))
        /\ \A i \in DOMAIN Tail(parents) : \E j \in DOMAIN parents : Tail(parents)[i] = parents[j]
    BY <1>1, ListTail DEF TransferTypes
  <1>6. PICK p \in TransferPaths(schema) : Head(parents) = Parent(p)
    BY <1>4, <1>5
  <1>7. PICK h : h = Holder(Parent(p))
    OBVIOUS
  <1>8. BodyOf(h) # Panic /\ out' = BodyOf(h) /\ parents' = Tail(parents) /\ result' = "none"
    BY <1>1, <1>2, <1>6, <1>7
  <1>9. ASSUME NEW q \in TransferPaths(schema) PROVE Arrived(q, Tree')
    <2>1. p = q \/ Beside(q, p)
      BY <1>2 DEF Apart
    <2>2. QED
      BY <1>4, <1>7, <1>8, <2>1, ArrivedByBody
  <1>10. Regular => Room(Tree') /\ Completed(p, Tree', out')
    BY <1>2, <1>4, <1>7, <1>8, RegularBody
  <1>11. ASSUME NEW q \in TransferPaths(schema) PROVE LeftOut(q, Tree', out', {}, parents')
    <2>1. SUFFICES ASSUME Due(q) = Nil, Parent(q) \notin ToSet(Tail(parents)), Regular
                   PROVE  Completed(q, Tree', out')
      BY <1>8 DEF LeftOut
    <2>2. CASE Parent(q) \in ToSet(parents)
      <3>1. Parent(q) = Parent(p)
        BY <1>5, <1>6, <2>1, <2>2
      <3>2. QED
        BY <1>10, <2>1, <3>1 DEF Completed
    <2>3. CASE Parent(q) \notin ToSet(parents)
      <3>1. Completed(q, Tree, out)
        BY <1>4, <2>1, <2>3 DEF LeftOut
      <3>2. SUFFICES ASSUME ~InRows(Holder(Parent(q)))
                     PROVE  out' # NoText /\ At(Tree', Holder(Parent(q))) # Missing
        BY DEF Completed
      <3>3. Holder(Parent(q)) \in Plain
        BY <3>2, HolderBelow DEF TransferTypes, TransferPaths
      <3>4. out # NoText /\ At(Tree, Holder(Parent(q))) # Missing
        BY <3>1, <3>2 DEF Completed
      <3>5. h \in DOMAIN schema
        BY <1>7, HolderBelow DEF TransferTypes, TransferPaths
      <3>6. QED
        BY <1>8, <3>3, <3>4, <3>5, BodyKeeps
    <2>4. QED
      BY <2>2, <2>3
  <1>12. \A i \in DOMAIN parents' : \E q \in TransferPaths(schema) : parents'[i] = Parent(q)
    BY <1>4, <1>5, <1>8
  <1>13. todo' = {}
    BY <1>1
  <1>14. QED
    BY <1>8, <1>9, <1>10, <1>11, <1>12, <1>13 DEF Carried

LEMMA CarryingKept ==
  ASSUME TransferTypes, Carrying, [TransferNext]_transferVars
  PROVE  Carrying'
  <1>1. CASE UNCHANGED transferVars
    <2>1. UNCHANGED <<op, schema, source, todo, parents, out, result>> /\ Tree' = Tree
      BY <1>1 DEF transferVars, Tree
    <2>2. op = "transfer" /\ Apart /\ result' # "panicked" =>
              Carried(Tree', out', todo', parents', result')
      BY <2>1 DEF Carrying
    <2>3. QED
      BY <2>1, <2>2, CarryingLater
  <1>2. ASSUME NEW p \in todo, Carry(p) PROVE Carrying'
    BY <1>2, CarryingByCarry
  <1>3. ASSUME NEW p \in todo, Complete(p) PROVE Carrying'
    <2>1. op = "format" /\ UNCHANGED <<op, schema, source>>
      BY <1>3, CompleteCases
    <2>2. QED
      BY <2>1, CarryingLater
  <1>4. ASSUME AddParent PROVE Carrying'
    BY <1>4, CarryingByAddParent
  <1>5. ASSUME Done PROVE Carrying'
    <2>1. /\ result = "none" /\ result' = "done" /\ todo = {} /\ (op = "transfer" => parents = <<>>)
          /\ UNCHANGED <<op, schema, source, doc, todo, parents, out>>
      BY <1>5, DoneCases
    <2>2. Tree' = Tree
      BY <2>1 DEF Tree
    <2>3. op = "transfer" /\ Apart => Carried(Tree', out', todo', parents', result')
      BY <2>1, <2>2 DEF Carrying, Carried
    <2>4. QED
      BY <2>1, <2>3, CarryingLater
  <1>6. QED
    BY <1>1, <1>2, <1>3, <1>4, <1>5 DEF TransferNext

LEMMA CarryingHolds == TransferSpec => []Carrying
  <1>1. TransferInit => Carrying
    BY CarryingAtFirst
  <1>2. TransferTypes /\ Carrying /\ [TransferNext]_transferVars => Carrying'
    BY CarryingKept
  <1>3. QED
    BY <1>1, <1>2, TypesHold, PTL DEF TransferSpec

(* TransferDataFromVolume: along paths that are apart every value arrives  *)
(* where the schema says, or its default does, whatever the order Go's maps*)
(* give the paths in and however many values there are; no later path, and *)
(* no body that is added, takes one away, and the only error is a value    *)
(* that goes into rows and is no list.                                     *)
THEOREM ValuesDelivered == TransferSpec => []DeliveredInAnyOrder
  <1>1. TransferTypes /\ Carrying => DeliveredInAnyOrder
    <2>1. SUFFICES ASSUME TransferTypes, Carrying PROVE DeliveredInAnyOrder
      OBVIOUS
    <2>2. ASSUME Transferred, NEW p \in TransferPaths(schema)
          PROVE  /\ ~InRows(p) /\ Due(p) # Nil => At(Tree, p) = Due(p)
                 /\ Last(p) = Each /\ ~InRows(Parent(p)) /\ Due(p).kind = "arr" /\ Due(p).e # <<>> =>
                       At(Tree, Parent(p)) = Arr(Listed(p))
      <3>1. Carried(Tree, out, todo, parents, "done")
        BY <2>1, <2>2 DEF Carrying, Transferred
      <3>2. Arrived(p, Tree)
        BY <2>2, <3>1 DEF Carried
      <3>3. QED
        BY <3>2 DEF Arrived, IsElements
    <2>3. ASSUME op = "transfer", result = "failed", Apart PROVE Misfit
      BY <2>1, <2>3 DEF Carrying, Carried
    <2>4. QED
      BY <2>2, <2>3 DEF DeliveredInAnyOrder, Misfit
  <1>2. QED
    BY <1>1, TypesHold, CarryingHolds, PTL

(* What AddParent2Json is for: in a schema where what is above a value has *)
(* no default and is no array that would need a name, what a missing value *)
(* belongs to is there in the end, outside of rows.                        *)
THEOREM ParentsAreThere == TransferSpec => []ParentsPresent
  <1>1. TransferTypes /\ Carrying => ParentsPresent
    <2>1. SUFFICES ASSUME TransferTypes, Carrying, Transferred, Regular,
                          NEW p \in TransferPaths(schema), NEW q,
                          q = IF Parent(p) # <<>> /\ Last(Parent(p)) = Each
                              THEN Parent(Parent(p)) ELSE Parent(p),
                          Due(p) = Nil, ~InRows(q)
                   PROVE  out # NoText /\ At(Tree, q) # Missing
      BY DEF ParentsPresent
    <2>2. Carried(Tree, out, todo, parents, "done")
      BY <2>1 DEF Carrying, Transferred
    <2>3. parents = <<>> /\ todo = {} /\ LeftOut(p, Tree, out, todo, parents)
      BY <2>1, <2>2 DEF Carried
    <2>4. Completed(p, Tree, out)
      BY <2>1, <2>3, ListEmpty DEF LeftOut
    <2>5. Parent(p) \in Ways
      BY <2>1, SchemaFacts DEF TransferTypes, TransferPaths
    <2>6. Holder(Parent(p)) = q
      BY <2>1, <2>5, HolderOf
    <2>7. QED
      BY <2>1, <2>4, <2>6 DEF Completed
  <1>2. QED
    BY <1>1, TypesHold, CarryingHolds, PTL

(* A path at the # of its nth segment: what is above and what is below it. *)
LEMMA PathAtRows ==
  ASSUME NEW path \in Ways, NEW n \in 1..Len(path), path[n] = Each
  PROVE  LET above == SubSeq(path, 1, n - 1)
             rest  == SubSeq(path, n + 1, Len(path))
             r     == SubSeq(path, Len(above) + 1, Len(path))
         IN  /\ above \in Ways /\ Len(above) \in Nat /\ Len(above) <= Len(path)
             /\ \A i \in 1..Len(above) : above[i] = path[i]
             /\ r \in Ways /\ r # <<>> /\ r[1] = Each /\ Tail(r) = rest /\ rest \in Ways
  <1>1. path \in Seq(Segs \cup {Each}) /\ Len(path) \in Nat
    BY PathsAreWays DEF Ways
  <1>2. PICK m : m = n - 1
    OBVIOUS
  <1>3. m \in 0..Len(path) /\ n \in 0..Len(path) /\ n = m + 1 /\ Len(path) - m # 0 /\ 1 \in 1..(Len(path) - m)
    BY <1>1, <1>2
  <1>4. PICK above : above = SubSeq(path, 1, m)
    OBVIOUS
  <1>5. above \in Seq(Segs \cup {Each}) /\ Len(above) = m /\ \A i \in 1..m : above[i] = path[i]
    BY <1>1, <1>3, <1>4, Cuts
  <1>6. PICK r : r = SubSeq(path, m + 1, Len(path))
    OBVIOUS
  <1>7. /\ r \in Seq(Segs \cup {Each}) /\ Len(r) = Len(path) - m
        /\ \A i \in 1..(Len(path) - m) : r[i] = path[m + i]
    BY <1>1, <1>3, <1>6, Cuts
  <1>8. r # <<>> /\ r[1] = Each
    BY <1>3, <1>7
  <1>9. PICK rest : rest = SubSeq(path, n + 1, Len(path))
    OBVIOUS
  <1>10. /\ rest \in Seq(Segs \cup {Each}) /\ Len(rest) = Len(path) - n
         /\ \A i \in 1..(Len(path) - n) : rest[i] = path[n + i]
    BY <1>1, <1>3, <1>9, Cuts
  <1>11. Tail(r) = rest
    <2>1. PICK t : t = Tail(r)
      OBVIOUS
    <2>2. /\ t \in Seq(Segs \cup {Each}) /\ Len(t) = Len(r) - 1
          /\ \A i \in 1..(Len(r) - 1) : t[i] = r[i + 1]
      BY <1>7, <1>8, <2>1, HeadTailProperties
    <2>3. Len(t) = Len(path) - n
      BY <1>1, <1>3, <1>7, <2>2
    <2>4. \A i \in 1..(Len(path) - n) :
             i \in 1..(Len(r) - 1) /\ i + 1 \in 1..(Len(path) - m) /\ m + (i + 1) = n + i
      BY <1>1, <1>3, <1>7
    <2>5. \A i \in 1..(Len(path) - n) : t[i] = rest[i]
      BY <1>7, <1>10, <2>2, <2>4
    <2>6. t = rest
      BY <1>10, <2>2, <2>3, <2>5, SeqEqual
    <2>7. QED
      BY <2>1, <2>6
  <1>12. Len(above) \in Nat /\ Len(above) <= Len(path)
    BY <1>1, <1>3, <1>5
  <1>13. QED
    BY <1>2, <1>4, <1>5, <1>6, <1>7, <1>8, <1>9, <1>10, <1>11, <1>12 DEF Ways

(* What a path with one # gives is the list of what its rest finds in the  *)
(* rows, when all have it.                                                 *)
RowsGiven(x, path, n, above, rest, rows) ==
    /\ above = SubSeq(path, 1, n - 1) /\ ~InRows(above)
    /\ rest = SubSeq(path, n + 1, Len(path)) /\ rest # <<>>
    /\ rows = Unwrapped(Reads(x, above)) /\ rows.kind = "arr"
    /\ \A i \in DOMAIN rows.e : At(rows.e[i], rest) # Missing

ColumnGiven(v, rest, rows) ==
    /\ v.kind = "arr"
    /\ \A i \in DOMAIN rows.e : i \in 1..Len(v.e) /\ v.e[i] = At(rows.e[i], rest)

LEMMA ColumnOfRows ==
  ASSUME NEW x, Value(x), NEW path \in Ways, NEW n \in 1..Len(path), path[n] = Each,
         NEW above, NEW rest, NEW rows, RowsGiven(x, path, n, above, rest, rows)
  PROVE  ColumnGiven(Reads(x, path), rest, rows)
  <1>0. /\ above = SubSeq(path, 1, n - 1) /\ ~InRows(above)
        /\ rest = SubSeq(path, n + 1, Len(path)) /\ rest # <<>>
        /\ rows = Unwrapped(Reads(x, above)) /\ rows.kind = "arr"
        /\ \A i \in DOMAIN rows.e : At(rows.e[i], rest) # Missing
    BY DEF RowsGiven
  <1>1. PICK r : r = SubSeq(path, Len(above) + 1, Len(path))
    OBVIOUS
  <1>2. /\ above \in Ways /\ Len(above) \in Nat /\ Len(above) <= Len(path)
        /\ \A i \in 1..Len(above) : above[i] = path[i]
        /\ r \in Ways /\ r # <<>> /\ r[1] = Each /\ Tail(r) = rest /\ rest \in Ways
    BY <1>0, <1>1, PathAtRows
  <1>3. above \in Plain
    BY <1>0, <1>2, RowFacts
  <1>4. PICK a : a = Reads(x, above)
    OBVIOUS
  <1>5. Value(a) /\ Found(a)
    <2>1. a = Panic \/ Node(a)
      BY <1>2, <1>4, ReadsType
    <2>2. a # Panic /\ a # Missing
      <3>1. Unwrapped(Panic).kind = "panic" /\ Unwrapped(Missing).kind = "missing"
        BY DEF Unwrapped, Panic, Missing
      <3>2. QED
        BY <1>0, <1>4, <3>1
    <2>3. QED
      BY <2>1, <2>2 DEF Node, Found
  <1>6. Reads(x, path) = Reads(a, r)
    BY <1>1, <1>2, <1>3, <1>4, <1>5, ReadsBelow
  <1>7. Reads(a, r) = At(rows, r)
    BY <1>0, <1>2, <1>4, <1>5, ReadsColumn
  <1>8. Value(rows)
    BY <1>0, <1>4, <1>5, UnwrappedFacts
  <1> DEFINE list == [i \in 1..Len(rows.e) |-> At(rows.e[i], rest)]
  <1>9. At(rows, r) = Arr(FoundIn(list))
    <2> HIDE DEF list
    <2>1. At(rows, r) = Arr(FoundIn([i \in 1..Len(rows.e) |-> At(rows.e[i], Tail(r))]))
      <3>1. r[1] = Each /\ rows.kind = "arr" /\ Tail(r) # <<>>
        BY <1>0, <1>2
      <3>2. QED
        BY <1>2, <1>8, <3>1, AtStep
    <2>2. list = [i \in 1..Len(rows.e) |-> At(rows.e[i], Tail(r))]
      BY <1>2 DEF list
    <2>3. QED
      BY <2>1, <2>2
  <1>10. /\ Len(rows.e) \in Nat /\ DOMAIN rows.e = 1..Len(rows.e)
         /\ \A i \in 1..Len(rows.e) : Node(At(rows.e[i], rest))
    <2>1. /\ Len(rows.e) \in Nat /\ rows.e = [i \in 1..Len(rows.e) |-> rows.e[i]]
          /\ \A i \in 1..Len(rows.e) : Value(rows.e[i])
      BY <1>0, <1>8, Elements
    <2>2. DOMAIN rows.e = 1..Len(rows.e)
      BY <2>1
    <2>3. QED
      BY <1>2, <2>1, <2>2, AtType
  <1>11. Results(list, Len(rows.e))
    BY <1>10 DEF Results
  <1>12. \A i \in 1..Len(rows.e) : list[i] = At(rows.e[i], rest)
    OBVIOUS
  <1> HIDE DEF list
  <1>13. PICK e : e = FoundIn(list)
    OBVIOUS
  <1>14. Len(e) \in Nat /\ Len(rows.e) <= Len(e) /\ \A i \in 1..Len(rows.e) : e[i] = list[i]
    <2>1. Len(rows.e) \in 0..Len(rows.e) /\ \A i \in 1..Len(rows.e) : list[i] # Missing
      BY <1>0, <1>10, <1>12
    <2>2. QED
      BY <1>10, <1>11, <1>13, <2>1, FoundFacts
  <1>15. Reads(x, path) = Arr(e)
    BY <1>6, <1>7, <1>9, <1>13
  <1>16. Arr(e).kind = "arr" /\ Arr(e).e = e
    BY DEF Arr
  <1>17. \A i \in 1..Len(rows.e) : i \in 1..Len(e) /\ e[i] = At(rows.e[i], rest)
    BY <1>10, <1>12, <1>14
  <1>18. QED
    BY <1>10, <1>15, <1>16, <1>17 DEF ColumnGiven

(* The rows of the source that the nth segment of a path goes through.     *)
Above(p, n)   == SubSeq(schema[p].src.path, 1, n - 1)
Beneath(p, n) == SubSeq(schema[p].src.path, n + 1, Len(schema[p].src.path))
RowsAt(p, n)  == Unwrapped(ValueOf(source, [schema[p].src EXCEPT !.path = Above(p, n)]))

(* TransferDataFromVolume: a column that every row of the source has comes *)
(* to the rows of the result in the rows' order, so what was in one row    *)
(* stays in one row, in whatever order the columns are carried, and however*)
(* many rows there are.                                                    *)
THEOREM RowsStayTogether == TransferSpec => []RowsKept
  <1>1. TransferTypes /\ Carrying => RowsKept
    <2>1. SUFFICES ASSUME TransferTypes, Carrying, Transferred,
                          NEW p \in TransferPaths(schema), NEW n \in DOMAIN schema[p].src.path,
                          schema[p].src.path[n] = Each, ~InRows(Above(p, n)), Beneath(p, n) # <<>>,
                          InRows(p), IsString(source[schema[p].src.root]), RowsAt(p, n).kind = "arr",
                          \A i \in DOMAIN RowsAt(p, n).e : At(RowsAt(p, n).e[i], Beneath(p, n)) # Missing,
                          NEW i \in DOMAIN RowsAt(p, n).e
                   PROVE  At(Tree, Row(p, i - 1)) =
                             Typed(DstType(schema[p]), At(RowsAt(p, n).e[i], Beneath(p, n)))
      BY DEF RowsKept, Above, Beneath, RowsAt
    <2>2. PICK src : src = schema[p].src
      OBVIOUS
    <2>3. src \in [root : Roots, path : Ways] /\ src.root \in Roots /\ src.path \in Ways
      BY <2>1, <2>2, SourceFacts DEF TransferTypes, TransferPaths, Dsts
    <2>4. PICK x : x = source[src.root]
      OBVIOUS
    <2>5. Node(x) /\ IsString(x) /\ n \in 1..Len(src.path) /\ src.path[n] = Each
      BY <2>1, <2>2, <2>3, <2>4 DEF TransferTypes, Ways
    <2>6. PICK above : above = SubSeq(src.path, 1, n - 1)
      OBVIOUS
    <2>7. above \in Ways /\ ~InRows(above)
      BY <2>1, <2>2, <2>3, <2>5, <2>6, PathAtRows DEF Above
    <2>8. ValueOf(source, [src EXCEPT !.path = above]) = Reads(x, above) /\ Value(x)
      <3>1. PICK key : key = [src EXCEPT !.path = above]
        OBVIOUS
      <3>2. key.root = src.root /\ key.path = above
        BY <2>3, <3>1
      <3>3. QED
        BY <2>4, <2>5, <2>7, <3>1, <3>2, ValueOfFacts
    <2>9. ValueOf(source, src) = Reads(x, src.path)
      BY <2>3, <2>4, <2>5, ValueOfFacts
    <2>10. PICK rows : rows = RowsAt(p, n)
      OBVIOUS
    <2>11. PICK rest : rest = SubSeq(src.path, n + 1, Len(src.path))
      OBVIOUS
    <2>12. /\ rows = Unwrapped(Reads(x, above)) /\ rows.kind = "arr" /\ rest # <<>>
           /\ \A k \in DOMAIN rows.e : At(rows.e[k], rest) # Missing
           /\ i \in DOMAIN rows.e
      <3>1. rest = Beneath(p, n)
        BY <2>2, <2>11 DEF Beneath
      <3>2. rows = Unwrapped(Reads(x, above))
        <4>1. Above(p, n) = above
          BY <2>2, <2>6 DEF Above
        <4>2. rows = Unwrapped(ValueOf(source, [src EXCEPT !.path = above]))
          BY <2>2, <2>10, <4>1 DEF RowsAt
        <4>3. QED
          BY <2>8, <4>2
      <3>3. QED
        BY <2>1, <2>10, <3>1, <3>2
    <2>13. PICK v : v = Reads(x, src.path)
      OBVIOUS
    <2>14. v.kind = "arr" /\ i \in 1..Len(v.e) /\ v.e[i] = At(rows.e[i], rest)
      <3>1. PICK path : path = src.path
        OBVIOUS
      <3>2. path \in Ways /\ n \in 1..Len(path) /\ path[n] = Each
        BY <2>3, <2>5, <3>1
      <3>3. RowsGiven(x, path, n, above, rest, rows)
        BY <2>6, <2>7, <2>11, <2>12, <3>1 DEF RowsGiven
      <3>4. ColumnGiven(v, rest, rows)
        BY <2>8, <2>13, <3>1, <3>2, <3>3, ColumnOfRows
      <3>5. QED
        BY <2>12, <3>4 DEF ColumnGiven
    <2>15. Due(p) = v
      <3>1. v # Nil /\ v # Missing
        BY <2>14 DEF Nil, Missing
      <3>2. QED
        BY <2>2, <2>9, <2>13, <3>1 DEF Due
    <2>16. Arrived(p, Tree)
      <3>1. Carried(Tree, out, todo, parents, "done")
        BY <2>1 DEF Carrying, Transferred
      <3>2. todo = {}
        BY <3>1 DEF Carried
      <3>3. QED
        BY <2>1, <3>1, <3>2 DEF Carried
    <2>17. rows.e[i] = RowsAt(p, n).e[i] /\ rest = Beneath(p, n)
      BY <2>2, <2>10, <2>11 DEF Beneath
    <2>18. QED
      BY <2>1, <2>14, <2>15, <2>16, <2>17 DEF Arrived
  <1>2. QED
    BY <1>1, TypesHold, CarryingHolds, PTL
=============================================================================
