--------------------------- MODULE RegistryProofs ---------------------------
(***************************************************************************)
(* Proofs about Registry, for every set of files, names, directories and   *)
(* contents, and any number of additions: additions never take the text of *)
(* a template away, later files win over earlier ones, and every name a    *)
(* caller is given or files a meta under can be executed.                  *)
(***************************************************************************)
EXTENDS Registry, SequenceTheorems, TLAPS

-----------------------------------------------------------------------------
(* What a text that parses defines: names and bodies that are there.       *)
LEMMA TreesAreBodies ==
    ASSUME NEW base \in Names, NEW c \in Contents
    PROVE  /\ DOMAIN Trees(base, c) \subseteq Names
           /\ base \in DOMAIN Trees(base, c)
           /\ \A n \in DOMAIN Trees(base, c) : /\ Trees(base, c)[n] \in Bodies
                                               /\ Trees(base, c)[n] # Absent
<1>1. DOMAIN Trees(base, c) = {base} \cup DOMAIN c.defs
  BY DEF Trees
<1>2. \A n \in DOMAIN c.defs : c.defs[n] \in Range(c.defs)
  BY DEF Range
<1>3. \A b \in {c.main} \cup Range(c.defs) : b \in Bodies /\ b # Absent
  BY ContentsAssumption DEF Bodies
<1>4. \A n \in DOMAIN Trees(base, c) : Trees(base, c)[n] \in {c.main} \cup Range(c.defs)
  BY <1>1, <1>2 DEF Trees
<1> QED BY <1>1, <1>3, <1>4, ContentsAssumption

(* Adding definitions takes no template and no text away.                  *)
LEMMA AddingKeeps ==
    ASSUME NEW set \in [Names -> Bodies \cup {Absent}], NEW trees,
           DOMAIN trees \subseteq Names,
           \A n \in DOMAIN trees : trees[n] \in Bodies /\ trees[n] # Absent
    PROVE  /\ Associated(set, trees) \in [Names -> Bodies \cup {Absent}]
           /\ \A n \in DOMAIN trees : Associated(set, trees)[n] # Absent
           /\ \A n \in Names : set[n] # Absent => Associated(set, trees)[n] # Absent
           /\ \A n \in Names : set[n] \notin {Absent, Empty}
                                => Associated(set, trees)[n] \notin {Absent, Empty}
  BY DEF Associated

LEMMA FilesAreNamed ==
    \A f \in DOMAIN Files : Files[f].base \in Names /\ Files[f].dirs \in Seq(Range(Files[f].dirs))
<1>1. \A f \in DOMAIN Files : Files[f] \in Range(Files)
  BY DEF Range
<1> QED BY <1>1, FilesAssumption

LEMMA TreesOfFile ==
    ASSUME disk \in [DOMAIN Files -> Contents], NEW f \in DOMAIN Files
    PROVE  /\ DOMAIN TreesOf(f) \subseteq Names
           /\ \A n \in DOMAIN TreesOf(f) : TreesOf(f)[n] \in Bodies /\ TreesOf(f)[n] # Absent
  BY FilesAreNamed, TreesAreBodies DEF TreesOf

(* No file defines the empty name.                                         *)
LEMMA RootUndefined ==
    ASSUME disk \in [DOMAIN Files -> Contents], NEW f \in DOMAIN Files
    PROVE  Root \notin DOMAIN TreesOf(f)
<1>1. Files[f] \in Range(Files) /\ disk[f] \in Contents
  BY DEF Range
<1>2. Files[f].base # Root /\ Root \notin DOMAIN disk[f].defs
  BY <1>1, FilesAssumption, ContentsAssumption
<1> QED BY <1>2 DEF TreesOf, Trees

(* A plain directory has all its files found.                              *)
LEMMA PlainFindsAll ==
    ASSUME NEW root \in Roots \cup {NoRoot}, ~root.dot
    PROVE  Glob("dir", root) = {f \in DOMAIN Files : Below(root, Files[f])}
<1>1. ASSUME NEW f \in DOMAIN Files, Below(root, Files[f]) PROVE Matches(root, Files[f])
  <2>1. root.dirs \in Seq(Range(root.dirs)) /\ Files[f].dirs \in Seq(Range(Files[f].dirs))
    <3>1. root \in Roots => root.dirs \in Seq(Range(root.dirs))
      BY RootsAssumption
    <3>2. NoRoot.dirs \in Seq(Range(NoRoot.dirs))
      <4>1. NoRoot.dirs = <<>>
        BY DEF NoRoot
      <4> QED BY <4>1
    <3> QED BY <3>1, <3>2, FilesAreNamed
  <2>2. Len(root.dirs) \in Nat /\ Len(Files[f].dirs) \in Nat
    BY <2>1
  <2>3. Len(root.dirs) <= Len(Files[f].dirs)
        /\ SubSeq(root.dirs, 1, Len(root.dirs)) = SubSeq(Files[f].dirs, 1, Len(root.dirs))
    BY <1>1 DEF Below, IsPrefix
  <2>4. SubSeq(root.dirs, 1, Len(root.dirs)) = root.dirs
    BY <2>1, SubSeqFull
  <2>5. 1 \in 1..(Len(Files[f].dirs) + 1) /\ 1 + Len(root.dirs) - 1 = Len(root.dirs)
    BY <2>2
  <2> QED BY <2>3, <2>4, <2>5 DEF Matches
<1> QED BY <1>1 DEF Glob

-----------------------------------------------------------------------------
(* The inductive invariant.  A call for files is the only one that runs.   *)
Running == call.outcome = "running" => call.kind \in {"dir", "fs"} /\ call.pass \in {1, 2}

(* No file found is forgotten between the two readings.                    *)
AllFound ==
    call.kind \in {"dir", "fs"} =>
        /\ call.outcome = "running" /\ call.pass = 1
               => Range(call.read) \cup call.todo = Glob(call.kind, call.root)
        /\ call.outcome = "running" /\ call.pass = 2
               => Range(call.read) = Glob(call.kind, call.root) /\ call.todo \subseteq Range(call.read)
        /\ call.outcome = "ok" => Range(call.read) = Glob(call.kind, call.root)

(* The second reading has the names of the files it has behind it.         *)
NamesSoFar ==
    call.kind \in {"dir", "fs"} /\ ~call.edited =>
        /\ call.outcome = "running" /\ call.pass = 1 => call.names = {}
        /\ call.outcome = "running" /\ call.pass = 2
               => call.names = UNION {DOMAIN TreesOf(f) : f \in Range(call.read) \ call.todo}
        /\ call.outcome = "ok"
               => returned = UNION {DOMAIN TreesOf(f) : f \in Range(call.read)}

(* Whatever was handed out is there, and nothing is while files are read.  *)
HandedOut == /\ ~stale => \A n \in metas \cup returned : templates[n] # Absent
             /\ call.outcome = "running" => returned = {}

IInv == TypeOK /\ Running /\ AllFound /\ NamesSoFar /\ LaterWins /\ HandedOut

-----------------------------------------------------------------------------
LEMMA OneField ==
    ASSUME NEW c \in CallType
    PROVE  /\ \A v \in {"none", "dir", "fs", "str"} : [c EXCEPT !.kind = v] \in CallType
           /\ \A v \in Roots : [c EXCEPT !.root = v] \in CallType
           /\ \A v \in SUBSET DOMAIN Files : [c EXCEPT !.todo = v] \in CallType
           /\ \A v \in {0, 1, 2} : [c EXCEPT !.pass = v] \in CallType
           /\ \A v \in Seq(DOMAIN Files) : [c EXCEPT !.read = v] \in CallType
           /\ \A v \in SUBSET Names : [c EXCEPT !.names = v] \in CallType
           /\ \A v \in [Names -> Bodies \cup {Absent}] : [c EXCEPT !.before = v] \in CallType
           /\ [c EXCEPT !.edited = TRUE] \in CallType
           /\ \A v \in {"none", "running", "ok", "panic"} : [c EXCEPT !.outcome = v] \in CallType
<1> USE DEF CallType
<1>1. \A v \in {"none", "dir", "fs", "str"} : [c EXCEPT !.kind = v] \in CallType
  OBVIOUS
<1>2. \A v \in Roots : [c EXCEPT !.root = v] \in CallType
  OBVIOUS
<1>3. \A v \in SUBSET DOMAIN Files : [c EXCEPT !.todo = v] \in CallType
  OBVIOUS
<1>4. \A v \in {0, 1, 2} : [c EXCEPT !.pass = v] \in CallType
  OBVIOUS
<1>5. \A v \in Seq(DOMAIN Files) : [c EXCEPT !.read = v] \in CallType
  OBVIOUS
<1>6. \A v \in SUBSET Names : [c EXCEPT !.names = v] \in CallType
  OBVIOUS
<1>7. \A v \in [Names -> Bodies \cup {Absent}] : [c EXCEPT !.before = v] \in CallType
  OBVIOUS
<1>8. [c EXCEPT !.edited = TRUE] \in CallType
  OBVIOUS
<1>9. \A v \in {"none", "running", "ok", "panic"} : [c EXCEPT !.outcome = v] \in CallType
  OBVIOUS
<1> QED BY <1>1, <1>2, <1>3, <1>4, <1>5, <1>6, <1>7, <1>8, <1>9

LEMMA NoCallType == NoCall \in CallType
<1>1. [n \in Names |-> Absent] \in [Names -> Bodies \cup {Absent}] /\ <<>> \in Seq(DOMAIN Files)
  OBVIOUS
<1> QED BY <1>1 DEF NoCall, CallType

LEMMA InitType == Init => TypeOK
<1>1. \A d : d = [n \in Names |-> Absent] => d \in [Names -> Bodies \cup {Absent}]
  OBVIOUS
<1>2. 0 \in 0..MaxCalls
  BY MaxCallsAssumption
<1> QED BY <1>1, <1>2, NoCallType DEF Init, TypeOK

LEMMA TypeStep == TypeOK /\ [Next]_vars => TypeOK'
<1> SUFFICES ASSUME TypeOK, [Next]_vars PROVE TypeOK'
  OBVIOUS
<1> USE DEF TypeOK
<1>1. ASSUME NEW kind \in {"dir", "fs"}, NEW root \in Roots, AddTemplates(kind, root)
      PROVE  TypeOK'
  <2>1. calls' \in 0..MaxCalls
    BY <1>1, MaxCallsAssumption DEF AddTemplates
  <2>2. Glob(kind, root) \in SUBSET DOMAIN Files
    BY DEF Glob
  <2>3. call' \in CallType
    <3> DEFINE outcome == IF Glob(kind, root) = {} THEN "panic" ELSE "running"
               c1 == [NoCall EXCEPT !.kind = kind]
               c2 == [c1 EXCEPT !.root = root]
               c3 == [c2 EXCEPT !.todo = Glob(kind, root)]
               c4 == [c3 EXCEPT !.pass = 1]
               c5 == [c4 EXCEPT !.before = templates]
    <3>1. call' = [c5 EXCEPT !.outcome = outcome]
      BY <1>1 DEF AddTemplates
    <3>2. c1 \in CallType
      BY NoCallType, OneField
    <3>3. c2 \in CallType
      BY <3>2, OneField
    <3>4. c3 \in CallType
      BY <2>2, <3>3, OneField
    <3> HIDE DEF c3
    <3>5. c4 \in CallType
      BY <3>4, OneField
    <3> HIDE DEF c4
    <3>6. c5 \in CallType
      BY <3>5, OneField
    <3> HIDE DEF c5
    <3>7. outcome \in {"none", "running", "ok", "panic"}
      OBVIOUS
    <3> HIDE DEF outcome
    <3> QED BY <3>1, <3>6, <3>7, OneField
  <2> QED BY <1>1, <2>1, <2>3 DEF AddTemplates
<1>2. ASSUME NEW f \in DOMAIN Files, ParseFile(f)
      PROVE  TypeOK'
  <2>1. Associated(templates, TreesOf(f)) \in [Names -> Bodies \cup {Absent}]
    BY TreesOfFile, AddingKeeps
  <2>2. call' \in CallType
    <3>1. CASE call' = [call EXCEPT !.outcome = "panic"]
      BY <3>1, OneField
    <3>2. CASE call' = [call EXCEPT !.todo = @ \ {f}, !.read = Append(@, f)]
      <4>1. call.todo \ {f} \in SUBSET DOMAIN Files /\ Append(call.read, f) \in Seq(DOMAIN Files)
        BY DEF CallType
      <4> DEFINE c1 == [call EXCEPT !.todo = call.todo \ {f}]
      <4>2. c1 \in CallType
        BY <4>1, OneField
      <4>3. call' = [c1 EXCEPT !.read = Append(call.read, f)]
        BY <3>2
      <4> QED BY <4>1, <4>2, <4>3, OneField
    <3> QED BY <1>2, <3>1, <3>2 DEF ParseFile, Panicked
  <2> QED BY <1>2, <2>1, <2>2 DEF ParseFile, Panicked
<1>3. ASSUME NEW f \in DOMAIN Files, ReparseFile(f)
      PROVE  TypeOK'
  <2>1. DOMAIN TreesOf(f) \in SUBSET Names
    BY TreesOfFile
  <2>2. call' \in CallType
    <3>1. CASE call' = [call EXCEPT !.outcome = "panic"]
      BY <3>1, OneField
    <3>2. CASE call' = [call EXCEPT !.todo = @ \ {f}, !.names = @ \cup DOMAIN TreesOf(f)]
      <4>1. call.todo \ {f} \in SUBSET DOMAIN Files
            /\ call.names \cup DOMAIN TreesOf(f) \in SUBSET Names
        BY <2>1 DEF CallType
      <4> DEFINE c1 == [call EXCEPT !.todo = call.todo \ {f}]
      <4>2. c1 \in CallType
        BY <4>1, OneField
      <4>3. call' = [c1 EXCEPT !.names = call.names \cup DOMAIN TreesOf(f)]
        BY <3>2
      <4> QED BY <4>1, <4>2, <4>3, OneField
    <3> QED BY <1>3, <3>1, <3>2 DEF ReparseFile, Panicked
  <2> QED BY <1>3, <2>2 DEF ReparseFile, Panicked
<1>4. CASE ParseAgain
  <2>1. call' \in CallType
    <3>1. Range(call.read) \in SUBSET DOMAIN Files
      BY DEF CallType, Range
    <3> DEFINE c1 == [call EXCEPT !.pass = 2]
    <3>2. c1 \in CallType
      BY OneField
    <3>3. call' = [c1 EXCEPT !.todo = Range(call.read)]
      BY <1>4 DEF ParseAgain
    <3> QED BY <3>1, <3>2, <3>3, OneField
  <2> QED BY <1>4, <2>1 DEF ParseAgain
<1>5. CASE ReturnNames
  <2>1. call' \in CallType
    BY <1>5, OneField DEF ReturnNames
  <2>2. returned' \subseteq Names
    BY <1>5 DEF ReturnNames, CallType
  <2> QED BY <1>5, <2>1, <2>2 DEF ReturnNames
<1>6. ASSUME NEW name \in Names, NEW c \in Contents, AddTemplateByStr(name, c)
      PROVE  TypeOK'
  <2>1. calls' \in 0..MaxCalls
    BY <1>6, MaxCallsAssumption DEF AddTemplateByStr
  <2>2. /\ Associated(templates, Trees(name, c)) \in [Names -> Bodies \cup {Absent}]
        /\ DOMAIN Trees(name, c) \in SUBSET Names
    BY TreesAreBodies, AddingKeeps
  <2>3. DOMAIN Trees(Root, c) \ {Root} \subseteq Names
    BY ContentsAssumption DEF Trees
  <2>4. call' \in CallType
    <3> DEFINE c1 == [NoCall EXCEPT !.kind = "str"]
               c2 == [c1 EXCEPT !.names = DOMAIN Trees(name, c)]
               c3 == [c2 EXCEPT !.before = templates]
               c4 == [c1 EXCEPT !.before = templates]
    <3>1. c1 \in CallType
      BY NoCallType, OneField
    <3>2. c2 \in CallType
      BY <2>2, <3>1, OneField
    <3> HIDE DEF c1, c2
    <3>3. c3 \in CallType
      BY <3>2, OneField
    <3>4. c4 \in CallType
      BY <3>1, OneField
    <3>5. call' = [c3 EXCEPT !.outcome = "ok"] \/ call' = [c4 EXCEPT !.outcome = "panic"]
      BY <1>6 DEF AddTemplateByStr, c1, c2
    <3> HIDE DEF c3, c4
    <3> QED BY <3>3, <3>4, <3>5, OneField
  <2> QED BY <1>6, <2>1, <2>2, <2>3, <2>4 DEF AddTemplateByStr
<1>7. ASSUME NEW n \in Names, RegisterMeta(n)
      PROVE  TypeOK'
  BY <1>7 DEF RegisterMeta
<1>8. ASSUME NEW f \in DOMAIN Files, NEW c \in Contents, Edit(f, c)
      PROVE  TypeOK'
  <2>1. call' \in CallType
    BY <1>8, OneField DEF Edit
  <2> QED BY <1>8, <2>1 DEF Edit
<1>9. CASE UNCHANGED vars
  BY <1>9 DEF vars
<1> QED BY <1>1, <1>2, <1>3, <1>4, <1>5, <1>6, <1>7, <1>8, <1>9 DEF Next

(* The sets and records of the repository keep their types.                *)
THEOREM TypeCorrect == Spec => []TypeOK
  BY InitType, TypeStep, PTL DEF Spec

-----------------------------------------------------------------------------
(* No addition takes the text of a template away.                          *)
THEOREM NeverBlankedHolds == Spec => NeverBlanked
<1> DEFINE Kept == \A n \in Names : templates[n] \notin {Absent, Empty}
                                      => templates'[n] \notin {Absent, Empty}
<1>1. TypeOK /\ [Next]_vars => [Kept]_templates
  <2> SUFFICES ASSUME TypeOK, [Next]_vars PROVE [Kept]_templates
    OBVIOUS
  <2>1. ASSUME NEW f \in DOMAIN Files, ParseFile(f) PROVE [Kept]_templates
    <3>1. \A n \in Names : templates[n] \notin {Absent, Empty}
                              => Associated(templates, TreesOf(f))[n] \notin {Absent, Empty}
      BY TreesOfFile, AddingKeeps DEF TypeOK
    <3> QED BY <2>1, <3>1 DEF ParseFile
  <2>2. ASSUME NEW name \in Names, NEW c \in Contents, AddTemplateByStr(name, c)
        PROVE  [Kept]_templates
    <3>1. \A n \in Names : templates[n] \notin {Absent, Empty}
                              => Associated(templates, Trees(name, c))[n] \notin {Absent, Empty}
      BY TreesAreBodies, AddingKeeps DEF TypeOK
    <3> QED BY <2>2, <3>1 DEF AddTemplateByStr
  <2>3. (\A f \in DOMAIN Files : ~ParseFile(f))
        /\ (\A name \in Names, c \in Contents : ~AddTemplateByStr(name, c))
           => UNCHANGED templates
    BY DEF Next, vars, AddTemplates, ReparseFile, ParseAgain, ReturnNames, RegisterMeta, Edit
  <2> QED BY <2>1, <2>2, <2>3
<1> QED BY <1>1, TypeCorrect, PTL DEF Spec, NeverBlanked

-----------------------------------------------------------------------------
(* One more file: its text wins, its blank body only where nothing was.    *)
LEMMA OneMoreFile ==
    ASSUME disk \in [DOMAIN Files -> Contents], NEW files \in Seq(DOMAIN Files),
           NEW f \in DOMAIN Files, NEW n \in Names, NEW body, Defined(n, files, body)
    PROVE  Defined(n, Append(files, f),
                   IF n \in DOMAIN TreesOf(f) /\ (TreesOf(f)[n] # Empty \/ body = Absent)
                   THEN TreesOf(f)[n] ELSE body)
<1> DEFINE more == Append(files, f)
           having(fs) == {i \in DOMAIN fs : n \in DOMAIN TreesOf(fs[i])}
           full(fs) == {i \in having(fs) : TreesOf(fs[i])[n] # Empty}
           last == Len(files) + 1
<1>1. /\ DOMAIN files = 1..Len(files) /\ Len(files) \in Nat
      /\ DOMAIN more = 1..last /\ last \in DOMAIN more /\ more[last] = f
      /\ \A i \in DOMAIN files : i \in DOMAIN more /\ more[i] = files[i] /\ i < last
      /\ \A i \in DOMAIN more : i = last \/ i \in DOMAIN files
  OBVIOUS
<1> HIDE DEF more, last
<1>2. CASE n \in DOMAIN TreesOf(f) /\ TreesOf(f)[n] # Empty
  <2>1. last \in full(more)
    BY <1>1, <1>2
  <2>2. \A j \in full(more) : j <= last
    BY <1>1
  <2> QED BY <1>1, <1>2, <2>1, <2>2 DEF Defined, more
<1>3. CASE ~(n \in DOMAIN TreesOf(f) /\ TreesOf(f)[n] # Empty)
  <2>1. full(more) = full(files)
    BY <1>1, <1>3
  <2>2. having(more) = having(files) \cup (IF n \in DOMAIN TreesOf(f) THEN {last} ELSE {})
    BY <1>1
  <2>3. \A i \in full(files) : i \in DOMAIN files /\ more[i] = files[i]
                               /\ TreesOf(files[i])[n] # Absent
    BY <1>1, TreesOfFile
  <2>4. \/ \E i \in full(files) : (\A j \in full(files) : j <= i) /\ body = TreesOf(files[i])[n]
        \/ /\ full(files) = {}
           /\ body = IF having(files) # {} /\ call.before[n] = Absent THEN Empty ELSE call.before[n]
    BY DEF Defined
  <2> DEFINE next == IF n \in DOMAIN TreesOf(f) /\ body = Absent THEN Empty ELSE body
  <2>5. next = IF n \in DOMAIN TreesOf(f) /\ (TreesOf(f)[n] # Empty \/ body = Absent)
               THEN TreesOf(f)[n] ELSE body
    BY <1>3
  <2>6. \/ \E i \in full(more) : (\A j \in full(more) : j <= i) /\ next = TreesOf(more[i])[n]
        \/ /\ full(more) = {}
           /\ next = IF having(more) # {} /\ call.before[n] = Absent THEN Empty ELSE call.before[n]
    <3>1. CASE full(files) # {}
      BY <2>1, <2>3, <2>4, <3>1
    <3>2. CASE full(files) = {}
      <4>1. body = IF having(files) # {} /\ call.before[n] = Absent THEN Empty ELSE call.before[n]
        BY <2>4, <3>2
      <4>2. having(more) # {} <=> having(files) # {} \/ n \in DOMAIN TreesOf(f)
        BY <2>2
      <4> HIDE DEF having, full
      <4> QED BY <2>1, <3>2, <4>1, <4>2, NamesAssumption
    <3> QED BY <3>1, <3>2
  <2> HIDE DEF next
  <2>7. Defined(n, more, next)
    BY <2>6 DEF Defined
  <2> QED BY <2>5, <2>7 DEF more
<1> QED BY <1>2, <1>3

(* A file that names n leaves n there.                                     *)
LEMMA DefinedIsThere ==
    ASSUME disk \in [DOMAIN Files -> Contents], NEW files \in Seq(DOMAIN Files),
           NEW n \in Names, NEW body, Defined(n, files, body),
           NEW i \in DOMAIN files, n \in DOMAIN TreesOf(files[i])
    PROVE  body # Absent
<1>1. \A j \in DOMAIN files : n \in DOMAIN TreesOf(files[j]) => TreesOf(files[j])[n] # Absent
  BY TreesOfFile
<1> QED BY <1>1, NamesAssumption DEF Defined

LEMMA RangeOfAppend ==
    ASSUME NEW S, NEW s \in Seq(S), NEW x \in S
    PROVE  Range(Append(s, x)) = Range(s) \cup {x}
<1>1. /\ DOMAIN s = 1..Len(s) /\ Len(s) \in Nat
      /\ DOMAIN Append(s, x) = 1..(Len(s) + 1) /\ Append(s, x)[Len(s) + 1] = x
      /\ \A i \in DOMAIN s : i \in DOMAIN Append(s, x) /\ Append(s, x)[i] = s[i]
      /\ \A i \in DOMAIN Append(s, x) : i = Len(s) + 1 \/ i \in DOMAIN s
      /\ Len(s) + 1 \in DOMAIN Append(s, x)
  OBVIOUS
<1> QED BY <1>1 DEF Range

-----------------------------------------------------------------------------
LEMMA InitInv == Init => IInv
<1> SUFFICES ASSUME Init PROVE IInv
  OBVIOUS
<1>1. TypeOK
  BY InitType
<1>2. call.kind = "none" /\ call.outcome = "none" /\ metas = {} /\ returned = {}
  BY DEF Init, NoCall
<1> QED BY <1>1, <1>2 DEF IInv, Running, AllFound, NamesSoFar, LaterWins, HandedOut

(* An addition that fails leaves the templates it has put there.           *)
LEMMA PanicKeeps ==
    ASSUME IInv, TypeOK', Panicked, call.outcome = "running",
           UNCHANGED <<disk, templates, metas, stale>>
    PROVE  IInv'
<1>1. /\ call'.outcome = "panic" /\ returned' = {}
      /\ call'.kind = call.kind /\ call'.read = call.read /\ call'.before = call.before
      /\ call'.edited = call.edited
  BY DEF Panicked, IInv, TypeOK, CallType
<1>2. Running' /\ AllFound' /\ NamesSoFar'
  BY <1>1 DEF Running, AllFound, NamesSoFar
<1>3. LaterWins'
  BY <1>1 DEF IInv, LaterWins, Defined, TreesOf
<1>4. HandedOut'
  BY <1>1 DEF IInv, HandedOut
<1> QED BY <1>2, <1>3, <1>4 DEF IInv

LEMMA AddTemplatesInv ==
    ASSUME IInv, TypeOK', NEW kind \in {"dir", "fs"}, NEW root \in Roots, AddTemplates(kind, root)
    PROVE  IInv'
<1>1. /\ call'.kind = kind /\ call'.root = root /\ call'.todo = Glob(kind, root)
      /\ call'.pass = 1 /\ call'.read = <<>> /\ call'.names = {} /\ call'.before = templates
      /\ call'.outcome \in {"running", "panic"} /\ call'.edited = FALSE
      /\ returned' = {} /\ UNCHANGED <<disk, templates, metas, stale>>
  BY DEF AddTemplates, NoCall
<1>2. DOMAIN call'.read = {} /\ Range(call'.read) = {}
  BY <1>1 DEF Range
<1>3. Running' /\ NamesSoFar'
  BY <1>1 DEF Running, NamesSoFar
<1>4. AllFound'
  BY <1>1, <1>2 DEF AllFound, Glob
<1>5. LaterWins'
  BY <1>1, <1>2 DEF LaterWins, Defined
<1>6. HandedOut'
  BY <1>1 DEF IInv, HandedOut
<1> QED BY <1>3, <1>4, <1>5, <1>6 DEF IInv

LEMMA ParseFileInv ==
    ASSUME IInv, TypeOK', NEW f \in DOMAIN Files, ParseFile(f)
    PROVE  IInv'
<1>1. CASE ~Parses(Files[f].base, disk[f])
  BY <1>1, PanicKeeps DEF ParseFile, NextFile
<1>2. CASE Parses(Files[f].base, disk[f])
  <2>1. /\ call'.kind = call.kind /\ call'.root = call.root /\ call'.todo = call.todo \ {f}
        /\ call'.read = Append(call.read, f) /\ call'.names = call.names
        /\ call'.pass = 1 /\ call.pass = 1 /\ call'.before = call.before
        /\ call'.edited = call.edited /\ call'.outcome = "running" /\ call.outcome = "running"
        /\ f \in call.todo /\ templates' = Associated(templates, TreesOf(f))
        /\ UNCHANGED <<disk, metas, stale, returned>>
    BY <1>2 DEF ParseFile, NextFile, IInv, TypeOK, CallType
  <2>2. Running' /\ NamesSoFar'
    BY <2>1 DEF IInv, Running, NamesSoFar
  <2>3. AllFound'
    <3>1. Range(call'.read) = Range(call.read) \cup {f}
      BY <2>1, RangeOfAppend DEF IInv, TypeOK, CallType
    <3> QED BY <2>1, <3>1 DEF IInv, AllFound, Glob
  <2>4. LaterWins'
    <3> SUFFICES ASSUME call.kind \in {"dir", "fs"}, ~call.edited, NEW n \in Names
                 PROVE  Defined(n, call.read, templates[n])'
      BY <2>1 DEF LaterWins
    <3>1. Defined(n, call.read, templates[n]) /\ call.read \in Seq(DOMAIN Files)
          /\ disk \in [DOMAIN Files -> Contents]
      BY DEF IInv, LaterWins, TypeOK, CallType
    <3>2. templates'[n] = IF n \in DOMAIN TreesOf(f) /\ (TreesOf(f)[n] # Empty \/ templates[n] = Absent)
                          THEN TreesOf(f)[n] ELSE templates[n]
      BY <2>1 DEF Associated, IInv, TypeOK
    <3>3. Defined(n, Append(call.read, f), templates'[n])
      BY <3>1, <3>2, OneMoreFile
    <3> QED BY <2>1, <3>3 DEF Defined, TreesOf
  <2>5. HandedOut'
    <3>1. \A n \in Names : templates[n] # Absent => templates'[n] # Absent
      BY <2>1, TreesOfFile, AddingKeeps DEF IInv, TypeOK
    <3> QED BY <2>1, <3>1 DEF IInv, HandedOut, TypeOK
  <2> QED BY <2>2, <2>3, <2>4, <2>5 DEF IInv
<1> QED BY <1>1, <1>2

LEMMA ParseAgainInv ==
    ASSUME IInv, TypeOK', ParseAgain
    PROVE  IInv'
<1>1. /\ call'.kind = call.kind /\ call'.root = call.root /\ call'.todo = Range(call.read)
      /\ call'.read = call.read /\ call'.names = call.names
      /\ call'.pass = 2 /\ call.pass = 1 /\ call.todo = {} /\ call'.before = call.before
      /\ call'.edited = call.edited /\ call'.outcome = "running" /\ call.outcome = "running"
      /\ UNCHANGED <<disk, templates, metas, stale, returned>>
  BY DEF ParseAgain, IInv, TypeOK, CallType
<1>2. Running'
  BY <1>1 DEF IInv, Running
<1>3. AllFound'
  BY <1>1 DEF IInv, AllFound, Glob
<1>4. NamesSoFar'
  BY <1>1 DEF IInv, NamesSoFar
<1>5. LaterWins'
  BY <1>1 DEF IInv, LaterWins, Defined, TreesOf
<1>6. HandedOut'
  BY <1>1 DEF IInv, HandedOut
<1> QED BY <1>2, <1>3, <1>4, <1>5, <1>6 DEF IInv

LEMMA ReparseFileInv ==
    ASSUME IInv, TypeOK', NEW f \in DOMAIN Files, ReparseFile(f)
    PROVE  IInv'
<1>1. CASE ~Parses(Files[f].base, disk[f])
  BY <1>1, PanicKeeps DEF ReparseFile, NextFile
<1>2. CASE Parses(Files[f].base, disk[f])
  <2>1. /\ call'.kind = call.kind /\ call'.root = call.root /\ call'.todo = call.todo \ {f}
        /\ call'.read = call.read /\ call'.names = call.names \cup DOMAIN TreesOf(f)
        /\ call'.pass = 2 /\ call.pass = 2 /\ call'.before = call.before
        /\ call'.edited = call.edited /\ call'.outcome = "running" /\ call.outcome = "running"
        /\ f \in call.todo /\ UNCHANGED <<disk, templates, metas, stale, returned>>
    BY <1>2 DEF ReparseFile, NextFile, IInv, TypeOK, CallType
  <2>2. Running'
    BY <2>1 DEF IInv, Running
  <2>3. AllFound'
    BY <2>1 DEF IInv, AllFound, Glob
  <2>4. NamesSoFar'
    <3> SUFFICES ASSUME call.kind \in {"dir", "fs"}, ~call.edited
                 PROVE  call'.names = UNION {DOMAIN TreesOf(g)' : g \in Range(call.read) \ call'.todo}
      BY <2>1 DEF NamesSoFar
    <3>1. call.names = UNION {DOMAIN TreesOf(g) : g \in Range(call.read) \ call.todo}
          /\ call.todo \subseteq Range(call.read)
      BY <2>1 DEF IInv, NamesSoFar, AllFound
    <3>2. Range(call.read) \ call'.todo = (Range(call.read) \ call.todo) \cup {f}
      BY <2>1, <3>1
    <3>3. call'.names = UNION {DOMAIN TreesOf(g) : g \in Range(call.read) \ call'.todo}
      BY <2>1, <3>1, <3>2
    <3> QED BY <2>1, <3>3 DEF TreesOf
  <2>5. LaterWins'
    BY <2>1 DEF IInv, LaterWins, Defined, TreesOf
  <2>6. HandedOut'
    BY <2>1 DEF IInv, HandedOut
  <2> QED BY <2>2, <2>3, <2>4, <2>5, <2>6 DEF IInv
<1> QED BY <1>1, <1>2

LEMMA ReturnNamesInv ==
    ASSUME IInv, TypeOK', ReturnNames
    PROVE  IInv'
<1>1. /\ call'.kind = call.kind /\ call'.root = call.root /\ call'.read = call.read
      /\ call.pass = 2 /\ call.todo = {} /\ call'.before = call.before
      /\ call'.edited = call.edited /\ call'.outcome = "ok" /\ call.outcome = "running"
      /\ returned' = call.names \ {Root} /\ stale' = (stale \/ call.edited)
      /\ UNCHANGED <<disk, templates, metas>>
  BY DEF ReturnNames, IInv, TypeOK, CallType
<1>2. call.kind \in {"dir", "fs"} /\ ~call.edited => Root \notin call.names
  <2> SUFFICES ASSUME call.kind \in {"dir", "fs"}, ~call.edited, Root \in call.names PROVE FALSE
    OBVIOUS
  <2>1. /\ call.names = UNION {DOMAIN TreesOf(g) : g \in Range(call.read)}
        /\ call.read \in Seq(DOMAIN Files) /\ disk \in [DOMAIN Files -> Contents]
    BY <1>1 DEF IInv, TypeOK, CallType, NamesSoFar
  <2>2. PICK g \in Range(call.read) : Root \in DOMAIN TreesOf(g)
    BY <2>1
  <2>3. g \in DOMAIN Files
    BY <2>1 DEF Range
  <2>4. Root \notin DOMAIN TreesOf(g)
    BY <2>1, <2>3, RootUndefined
  <2> QED BY <2>2, <2>4
<1>3. Running'
  BY <1>1 DEF Running
<1>4. AllFound'
  BY <1>1 DEF IInv, AllFound, Glob
<1>5. call.kind \in {"dir", "fs"} /\ ~call.edited
         => returned' = UNION {DOMAIN TreesOf(g) : g \in Range(call.read)}
  BY <1>1, <1>2 DEF IInv, NamesSoFar
<1>6. NamesSoFar'
  BY <1>1, <1>5 DEF NamesSoFar, TreesOf
<1>7. LaterWins'
  BY <1>1 DEF IInv, LaterWins, Defined, TreesOf
<1>8. HandedOut'
  <2> SUFFICES ASSUME ~stale', NEW n \in metas \cup returned' PROVE templates[n] # Absent
    BY <1>1 DEF HandedOut
  <2>1. CASE n \in metas
    BY <1>1, <2>1 DEF IInv, HandedOut
  <2>2. CASE n \in returned'
    <3>1. call.kind \in {"dir", "fs"} /\ ~call.edited
      BY <1>1 DEF IInv, Running
    <3>2. PICK i \in DOMAIN call.read : n \in DOMAIN TreesOf(call.read[i])
      BY <1>5, <2>2, <3>1 DEF Range
    <3>3. n \in Names /\ call.read \in Seq(DOMAIN Files) /\ disk \in [DOMAIN Files -> Contents]
      BY <1>1, <2>2 DEF IInv, TypeOK, CallType
    <3>4. Defined(n, call.read, templates[n])
      BY <3>1, <3>3 DEF IInv, LaterWins
    <3> QED BY <3>2, <3>3, <3>4, DefinedIsThere
  <2> QED BY <2>1, <2>2
<1> QED BY <1>3, <1>4, <1>6, <1>7, <1>8 DEF IInv

LEMMA AddTemplateByStrInv ==
    ASSUME IInv, TypeOK', NEW name \in Names, NEW c \in Contents, AddTemplateByStr(name, c)
    PROVE  IInv'
<1>1. call'.kind = "str" /\ call'.outcome \in {"ok", "panic"} /\ UNCHANGED <<metas, stale>>
  BY DEF AddTemplateByStr, NoCall
<1>2. Running' /\ AllFound' /\ NamesSoFar' /\ LaterWins'
  BY <1>1 DEF Running, AllFound, NamesSoFar, LaterWins
<1>3. HandedOut'
  <2>1. \A n \in metas : n \in Names /\ (~stale => templates[n] # Absent)
    BY DEF IInv, TypeOK, HandedOut
  <2>2. CASE Parses(name, c)
    <3>1. templates' = Associated(templates, Trees(name, c)) /\ returned' = DOMAIN Trees(Root, c) \ {Root}
      BY <2>2 DEF AddTemplateByStr
    <3>2. /\ \A n \in Names : templates[n] # Absent => templates'[n] # Absent
          /\ \A n \in DOMAIN Trees(name, c) : templates'[n] # Absent
      <4>1. templates \in [Names -> Bodies \cup {Absent}]
        BY DEF IInv, TypeOK
      <4>2. /\ DOMAIN Trees(name, c) \subseteq Names
            /\ \A n \in DOMAIN Trees(name, c) : /\ Trees(name, c)[n] \in Bodies
                                               /\ Trees(name, c)[n] # Absent
        BY TreesAreBodies
      <4> QED BY <3>1, <4>1, <4>2, AddingKeeps
    <3>3. returned' \subseteq DOMAIN Trees(name, c)
      BY <3>1 DEF Trees
    <3> QED BY <1>1, <2>1, <3>2, <3>3 DEF HandedOut
  <2>3. CASE ~Parses(name, c)
    BY <1>1, <2>1, <2>3 DEF AddTemplateByStr, HandedOut
  <2> QED BY <2>2, <2>3
<1> QED BY <1>2, <1>3 DEF IInv

LEMMA RegisterMetaInv ==
    ASSUME IInv, TypeOK', NEW n \in Names, RegisterMeta(n)
    PROVE  IInv'
<1>1. n \in returned /\ metas' = metas \cup {n}
      /\ UNCHANGED <<disk, templates, call, returned, stale>>
  BY DEF RegisterMeta
<1>2. Running' /\ AllFound' /\ NamesSoFar' /\ LaterWins'
  BY <1>1 DEF IInv, Running, AllFound, Glob, NamesSoFar, LaterWins, Defined, TreesOf
<1>3. HandedOut'
  BY <1>1 DEF IInv, HandedOut
<1> QED BY <1>2, <1>3 DEF IInv

(* An edit spoils the call, and a call that goes on has returned nothing.  *)
LEMMA EditInv ==
    ASSUME IInv, TypeOK', NEW f \in DOMAIN Files, NEW c \in Contents, Edit(f, c)
    PROVE  IInv'
<1>1. /\ call'.kind = call.kind /\ call'.root = call.root /\ call'.todo = call.todo
      /\ call'.read = call.read /\ call'.pass = call.pass /\ call'.edited
      /\ call'.outcome = call.outcome
      /\ UNCHANGED <<templates, metas, stale, returned>>
  BY DEF Edit, IInv, TypeOK, CallType
<1>2. Running' /\ NamesSoFar' /\ LaterWins'
  BY <1>1 DEF IInv, Running, NamesSoFar, LaterWins
<1>3. AllFound'
  BY <1>1 DEF IInv, AllFound, Glob
<1>4. HandedOut'
  BY <1>1 DEF IInv, HandedOut
<1> QED BY <1>2, <1>3, <1>4 DEF IInv

LEMMA InvStep == IInv /\ [Next]_vars => IInv'
<1> SUFFICES ASSUME IInv, [Next]_vars PROVE IInv'
  OBVIOUS
<1>1. TypeOK'
  BY TypeStep DEF IInv
<1>2. CASE UNCHANGED vars
  BY <1>1, <1>2 DEF vars, IInv, Running, AllFound, Glob, NamesSoFar, LaterWins, Defined, TreesOf, HandedOut
<1> QED BY <1>1, <1>2, AddTemplatesInv, ParseFileInv, ReparseFileInv, ParseAgainInv, ReturnNamesInv,
           AddTemplateByStrInv, RegisterMetaInv, EditInv DEF Next

(* Names read, names returned and templates keep step with each other.     *)
THEOREM Invariant == Spec => []IInv
  BY InitInv, InvStep, PTL DEF Spec

(* The templates are what the files read so far define, the last first.    *)
THEOREM LaterWinsHolds == Spec => []LaterWins
<1>1. IInv => LaterWins
  BY DEF IInv
<1> QED BY <1>1, Invariant, PTL

(* The names returned are those the files define, and they and the metas   *)
(* filed under them resolve.                                               *)
THEOREM NamesResolveHolds == Spec => []NamesResolve
<1>1. IInv => MetasResolve
  BY DEF IInv, HandedOut, MetasResolve
<1>2. IInv => NamesAreDefined
  <2> SUFFICES ASSUME IInv, call.kind \in {"dir", "fs"}, call.outcome = "ok", ~call.edited
               PROVE  /\ returned = UNION {DOMAIN TreesOf(f) : f \in Range(call.read)}
                      /\ call.kind = "dir" /\ ~call.root.dot
                            => Range(call.read) = {f \in DOMAIN Files : Below(call.root, Files[f])}
                      /\ \A n \in returned : templates[n] # Absent
    BY DEF NamesAreDefined
  <2>1. returned = UNION {DOMAIN TreesOf(f) : f \in Range(call.read)}
    BY DEF IInv, NamesSoFar
  <2>2. ASSUME call.kind = "dir", ~call.root.dot
        PROVE  Range(call.read) = {f \in DOMAIN Files : Below(call.root, Files[f])}
    <3>1. Range(call.read) = Glob("dir", call.root)
      BY <2>2 DEF IInv, AllFound
    <3>2. call.root \in Roots \cup {NoRoot}
      BY DEF IInv, TypeOK, CallType
    <3> QED BY <2>2, <3>1, <3>2, PlainFindsAll
  <2>3. ASSUME NEW n \in returned PROVE templates[n] # Absent
    <3>1. PICK i \in DOMAIN call.read : n \in DOMAIN TreesOf(call.read[i])
      BY <2>1 DEF Range
    <3>2. n \in Names /\ call.read \in Seq(DOMAIN Files) /\ disk \in [DOMAIN Files -> Contents]
      BY DEF IInv, TypeOK, CallType
    <3>3. Defined(n, call.read, templates[n])
      BY <3>2 DEF IInv, LaterWins
    <3> QED BY <3>1, <3>2, <3>3, DefinedIsThere
  <2> QED BY <2>1, <2>2, <2>3
<1> QED BY <1>1, <1>2, Invariant, PTL DEF NamesResolve
=============================================================================
