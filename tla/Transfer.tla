------------------------------ MODULE Transfer ------------------------------
(***************************************************************************)
(* Schemas and what is done along them.  A schema says for each place of a *)
(* result where in the volume its value comes from; GetTransferPaths       *)
(* gathers these places in any order, TransferDataFromVolume carries the   *)
(* values over and gives the objects they leave out a body, and FormatJson *)
(* completes a document that misses some.                                  *)
(***************************************************************************)
EXTENDS JsonTree

CONSTANTS Schemas,   \* schemas to try
          Volumes,   \* volumes to transfer from
          Documents, \* documents to format: trees
          Looked     \* bound: paths looked up in a document

NoSrc == [root |-> "none", path |-> <<>>]
NilMark == "__nil__"

NoText == [kind |-> "noText"]

(* A schema is a function from the data paths of its nodes.  types: the    *)
(* names of its types, none if there is no type or a list of one, which    *)
(* MultiType does not accept; dflt: the default, or Nil.                   *)
Dsts(schema) == DOMAIN schema \ {<<>>}
Parent(dst)  == Front(dst)
Below(p, q)  == IsStrictPrefix(p, q)

(* The nodes with a source.                                                *)
TransferPaths(s) == {p \in Dsts(s) : s[p].src # NoSrc}

(* Every node but the root has a parent; a source is a key.  Defaults and  *)
(* the values of a volume are values, a document is an object or an array. *)
ASSUME SchemasAssumption ==
    \A s \in Schemas :
       /\ <<>> \in DOMAIN s
       /\ \A p \in Dsts(s) : p \in Seq(Names \cup {Each}) /\ Parent(p) \in DOMAIN s
       /\ \A p \in DOMAIN s :
             /\ s[p].src # NoSrc => s[p].src \in [root : Roots, path : Seq(Segs \cup {Each})]
             /\ Ends(s[p].dflt)
ASSUME VolumesAssumption ==
    \A v \in Volumes : /\ DOMAIN v = Roots
                       /\ \A r \in Roots : v[r] = Missing \/ Ends(v[r])
ASSUME DocumentsAssumption == \A d \in Documents : d = NoText \/ (Ends(d) /\ IsTree(d))

(* Left out, as in Volume: a number or another # behind a # of a source; a *)
(* source that lies behind the quotation marks of a text in a text; and    *)
(* rows below a place with a source, which may put a string there: sjson   *)
(* would write rows among its characters.                                  *)
ASSUME PlacesAssumption ==
    \A s \in Schemas : \A p \in TransferPaths(s) :
       LET path == s[p].src.path
       IN  /\ \A n \in 1..(Len(path) - 1) : path[n] = Each => path[n + 1] \in Names
           /\ \A v \in Volumes : ~MeetsGarbled(v[s[p].src.root], path)
           /\ \A q \in Dsts(s) : Below(p, q) => \A n \in (Len(p) + 1)..Len(q) : q[n] # Each

ASSUME LookedAssumption == Looked \subseteq Seq(Segs)

VARIABLES op,      \* "transfer" or "format"
          schema,  \* the schema, by data path
          source,  \* the volume
          doc,     \* the document that is formatted
          todo,    \* data paths to be handled yet, in any order
          parents, \* parents of what was left out, in order
          out,     \* the JSON text, as a tree, or NoText when it is empty
          result   \* "none", "done", "failed" or "panicked"

transferVars == <<op, schema, source, doc, todo, parents, out, result>>
input == <<op, schema, source, doc>>

TransferTypeOK ==
    /\ op \in {"transfer", "format"} /\ schema \in Schemas
    /\ todo \subseteq Dsts(schema)
    /\ parents \in Seq(DOMAIN schema)
    /\ out = NoText \/ IsValue(out)
    /\ result \in {"none", "done", "failed", "panicked"}

-----------------------------------------------------------------------------
(* MultiType: a type, or more than one in a list.                          *)
HasType(node) == node.types # <<>>

DstType(node) == IF Len(node.types) = 1 THEN node.types[1] ELSE "several"

(* GetTransferPaths: the nodes with a source, if all have a type and all   *)
(* that nothing is below have a source.                                    *)
Transferable(s) ==
    /\ \A p \in DOMAIN s : HasType(s[p])
    /\ \A p \in Dsts(s) \ TransferPaths(s) : \E q \in TransferPaths(s) : Below(p, q)

(* SetSrcAsDst: every node but the root becomes a transfer path.           *)
Formattable(s) == \A p \in DOMAIN s : HasType(s[p])

(* IsRequired: the name of a node stands in its own Required or in its     *)
(* parent's; the root has no name, and the elements of arrays have "items".*)
IsRequired(s, p) ==
    /\ p # <<>>
    /\ (IF Last(p) = Each THEN "items" ELSE Last(p))
          \in s[p].required \cup s[Parent(p)].required

(* GetOptionalTransferPath finds one: the node, or one above it, may be    *)
(* missing; elements of arrays do not count, unless the root is the array. *)
HasOptional(s, p) ==
    \/ ~IsRequired(s, p)
    \/ \E q \in DOMAIN s : /\ Below(q, p)
                           /\ Len(q) > 1 => Last(q) # Each
                           /\ ~IsRequired(s, q) \/ s[q].allowEmpty

TransferInit ==
    /\ schema \in Schemas
    /\ \/ op = "transfer" /\ source \in Volumes /\ doc = Nil /\ out = NoText
       \/ op = "format" /\ source = [r \in Roots |-> Missing] /\ doc \in Documents /\ out = doc
    /\ parents = <<>>
    /\ IF IF op = "transfer" THEN Transferable(schema) ELSE Formattable(schema)
       THEN /\ result = "none"
            /\ todo = IF op = "transfer" THEN TransferPaths(schema) ELSE Dsts(schema)
       ELSE result = "panicked" /\ todo = {}

-----------------------------------------------------------------------------
Tree == IF out = NoText THEN Nil ELSE out

(* Mutant: null in the volume is a value.                                  *)
ValueOrNull(p) == ValueOf(source, schema[p].src)

(* The value of a transfer path; null in the volume counts as none.        *)
Sent(p) == LET v == ValueOf(source, schema[p].src) IN IF v = Nil THEN Missing ELSE v

Stop(how) == /\ result' = how
             /\ UNCHANGED <<input, todo, parents, out>>

(* Mutant: an error of Add2json is not looked at.                          *)
WriteUnchecked(p, v) == /\ out' = Add2json(Tree, p, DstType(schema[p]), v)
                        /\ todo' = todo \ {p}
                        /\ UNCHANGED <<input, parents, result>>

Write(p, v) ==
    LET new == Add2json(Tree, p, DstType(schema[p]), v)
    IN  IF new = Panic THEN Stop("failed")
        ELSE /\ out' = IF new = Nil THEN out ELSE new
             /\ todo' = todo \ {p}
             /\ UNCHANGED <<input, parents, result>>

(* No value and no default: the parent is remembered, once.                *)
LeaveOut(p) ==
    /\ parents' = IF Parent(p) \in ToSet(parents) THEN parents ELSE Append(parents, Parent(p))
    /\ todo' = todo \ {p}
    /\ UNCHANGED <<input, out, result>>

(* One turn of TransferDataFromVolume; a text in the volume that is no     *)
(* JSON makes GetValue panic.                                              *)
Carry(p) ==
    /\ op = "transfer" /\ result = "none" /\ p \in todo
    /\ LET v == Sent(p)
       IN  \/ v = Panic /\ Stop("panicked")
           \/ Found(v) /\ Write(p, v)
           \/ v = Missing /\ ~HasOptional(schema, p) /\ Stop("failed")
           \/ /\ v = Missing /\ HasOptional(schema, p)
              /\ IF schema[p].dflt = Nil THEN LeaveOut(p) ELSE Write(p, schema[p].dflt)

(* sjson.Set where no # may stand, and the text stays when it fails.       *)
SetOrKeep(p, v) == LET new == SetIn(Tree, p, v)
                   IN  IF InRows(p) \/ new = Panic THEN out ELSE new

(* Mutant: the elements of arrays are parents like others.                 *)
BodyInRows(p) ==
    CASE p = <<>> /\ out = NoText /\ Head(schema[p].types) = "object" -> Obj(<<>>)
      [] p = <<>> /\ out = NoText /\ Head(schema[p].types) = "array" -> Arr(<<>>)
      [] p = <<>> /\ out # NoText -> Panic
      [] p # <<>> /\ At(Tree, p) # Missing -> out
      [] OTHER -> SetOrKeep(p, IF Head(schema[p].types) = "object" THEN Obj(<<>>) ELSE Arr(<<>>))

(* AddParent2Json: the text with a body for p, or for the array if p is    *)
(* its elements, unless it has one.  The root gets one only into an empty  *)
(* text, else its empty path panics.                                       *)
Holder(p) == SubSeq(p, 1, Largest({n \in 0..Len(p) : n = 0 \/ p[n] # Each}))

BodyOf(p) ==
    LET type == Head(schema[p].types)
        v    == CASE schema[p].dflt # Nil -> schema[p].dflt
                  [] schema[p].dflt = Nil /\ type = "object" -> Obj(<<>>)
                  [] schema[p].dflt = Nil /\ type = "array" -> Arr(<<>>)
                  [] OTHER -> Nil
    IN  CASE p = <<>> /\ out # NoText -> Panic
          [] p = <<>> /\ out = NoText ->
                 IF type = "object" THEN Obj(<<>>) ELSE IF type = "array" THEN Arr(<<>>) ELSE out
          [] p # <<>> /\ At(Tree, p) # Missing -> out
          [] OTHER -> SetOrKeep(p, v)

Body(p) == BodyOf(Holder(p))

AddParent ==
    /\ op = "transfer" /\ result = "none" /\ todo = {} /\ parents # <<>>
    /\ LET new == Body(Head(parents))
       IN  IF new = Panic THEN Stop("panicked")
           ELSE /\ out' = new /\ parents' = Tail(parents)
                /\ UNCHANGED <<input, todo, result>>

-----------------------------------------------------------------------------
(* FormatJson writes the default and then the zero of the type over it.    *)
FormatZero(type) == CASE type = "string" -> Empty
                      [] type \in {"int", "integer", "number", "float"} -> Num(0)
                      [] type = "array" -> Arr(<<>>)
                      [] OTHER -> Nil

(* Mutant: what is there is set, too.                                      *)
CompleteAll(p) ==
    /\ op = "format" /\ result = "none" /\ p \in todo
    /\ todo' = todo \ {p}
    /\ out' = SetOrKeep(p, FormatZero(DstType(schema[p])))
    /\ UNCHANGED <<input, parents, result>>

(* One turn of FormatJson.                                                 *)
Complete(p) ==
    LET new == SetIn(Tree, p, FormatZero(DstType(schema[p])))
    IN  /\ op = "format" /\ result = "none" /\ p \in todo
        /\ IF At(Tree, p) # Missing \/ schema[p].dflt = Text(NilMark) \/ InRows(p)
           THEN todo' = todo \ {p} /\ UNCHANGED <<input, parents, out, result>>
           ELSE IF new = Panic THEN Stop("failed")
           ELSE /\ out' = new /\ todo' = todo \ {p}
                /\ UNCHANGED <<input, parents, result>>

Done == /\ result = "none" /\ todo = {} /\ (op = "transfer" => parents = <<>>)
        /\ Stop("done")

TransferNext == \/ \E p \in todo : Carry(p) \/ Complete(p)
                \/ AddParent \/ Done

TransferSpec == TransferInit /\ [][TransferNext]_transferVars

-----------------------------------------------------------------------------
(* What is due at p: the value in the volume, or the default, or Nil.      *)
Due(p) == LET v == ValueOf(source, schema[p].src)
          IN  IF v \in {Nil, Missing} THEN schema[p].dflt ELSE v

(* Two places are beside each other when their paths part at two names: not*)
(* at numbers or rows, and neither lies in the other.  If all places with a*)
(* source are, nothing may depend on the order in which Go's maps give them*)
Beside(p, q) == \E k \in 1..Len(p) : /\ k <= Len(q) /\ p[k] # q[k]
                                     /\ p[k] \in Names /\ q[k] \in Names
                                     /\ \A j \in 1..(k - 1) : p[j] = q[j]

Apart == \A p, q \in TransferPaths(schema) : p # q => Beside(p, q)

Transferred == op = "transfer" /\ result = "done" /\ Apart

Listed(p) == [i \in DOMAIN Due(p).e |-> Typed(DstType(schema[p]), Due(p).e[i])]

(* In whatever order the paths come, each value arrives where the schema   *)
(* says, or its default does, and no later step takes it away.  A missing  *)
(* value is never an error, required or not: the root may always be        *)
(* missing.  Only what goes into rows and is no list is one.               *)
DeliveredInAnyOrder ==
    /\ Transferred => \A p \in TransferPaths(schema) :
          /\ ~InRows(p) /\ Due(p) # Nil => At(Tree, p) = Due(p)
          /\ Last(p) = Each /\ ~InRows(Parent(p)) /\ Due(p).kind = "arr" /\ Due(p).e # <<>> =>
                At(Tree, Parent(p)) = Arr(Listed(p))
    /\ op = "transfer" /\ result = "failed" /\ Apart =>
          \E p \in TransferPaths(schema) : InRows(p) /\ Due(p).kind \notin {"arr", "nil"}

(* Columns that are complete arrive as rows: what was in one row of the    *)
(* source is in one row of the result, though each column travels alone.   *)
(* The rows may stand in JSON text.                                        *)
RowsKept ==
    Transferred => \A p \in TransferPaths(schema) : \A n \in DOMAIN schema[p].src.path :
        LET src    == schema[p].src
            above  == SubSeq(src.path, 1, n - 1)
            rest   == SubSeq(src.path, n + 1, Len(src.path))
            rows   == Unwrapped(ValueOf(source, [src EXCEPT !.path = above]))
            row(i) == At(rows.e[i], rest)
        IN  /\ src.path[n] = Each /\ ~InRows(above) /\ rest # <<>>
            /\ InRows(p) /\ IsString(source[src.root])
            /\ rows.kind = "arr" /\ \A i \in DOMAIN rows.e : row(i) # Missing
            => \A i \in DOMAIN rows.e :
                  At(Tree, Row(p, i - 1)) = Typed(DstType(schema[p]), row(i))

(* Nothing above a place with a source has a default of its own, nor is it *)
(* an array where the place has a name in it; the root is one of both.     *)
Regular == \A p \in TransferPaths(schema) : \A q \in DOMAIN schema : Below(q, p) =>
              LET type == Head(schema[q].types)
              IN  /\ schema[q].dflt = Nil
                  /\ type = "array" => p[Len(q) + 1] \notin Names
                  /\ q = <<>> => type \in {"object", "array"}

(* Where a value is left out, the object or array it belongs to is there,  *)
(* outside of rows.                                                        *)
ParentsPresent ==
    Transferred /\ Regular => \A p \in TransferPaths(schema) :
        LET q == IF Parent(p) # <<>> /\ Last(Parent(p)) = Each THEN Parent(Parent(p)) ELSE Parent(p)
        IN  Due(p) = Nil /\ ~InRows(q) => out # NoText /\ At(Tree, q) # Missing

(* What FormatJson may fill: not rows, and no place whose default is the   *)
(* mark.                                                                   *)
Fillable == {p \in Dsts(schema) : ~InRows(p) /\ schema[p].dflt # Text(NilMark)}

OnlyPlace(p) == ~\E q \in Fillable : Below(p, q)

(* FormatJson changes a value of the document only where there is a place  *)
(* to fill below it, in any order: a number where the schema has an object *)
(* is lost, what is in an object or beside a place is not.  In the end     *)
(* every such place is there, and one that the document lacked holds the   *)
(* zero of its type, if there is none below it: never its default.         *)
FormatOnlyFills ==
    op = "format" /\ result # "panicked" =>
        /\ doc # NoText => \A p \in Looked :
              Found(At(doc, p)) /\ OnlyPlace(p) => At(Tree, p) = At(doc, p)
        /\ result = "done" => \A p \in Fillable :
              /\ At(Tree, p) # Missing
              /\ (doc = NoText \/ At(doc, p) = Missing) /\ OnlyPlace(p) =>
                    At(Tree, p) = FormatZero(DstType(schema[p]))

(* What template_core_func.go says of a value without a default: it is     *)
(* skipped, and the object it belongs to is completed.                     *)
MissingIsSkipped ==
    op = "transfer" /\ Transferable(schema) /\ (\A r \in Roots : source[r].kind # "text")
        => result # "panicked"
=============================================================================
