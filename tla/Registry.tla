------------------------------ MODULE Registry ------------------------------
(***************************************************************************)
(* The repository of templates: AddTemplateByDir and AddTemplateByFS find  *)
(* files, parse them one by one into the set of templates, then read and   *)
(* parse them all again to learn the names to return; AddTemplateByStr     *)
(* parses a string; RegisterMeta files what is known about a template.     *)
(* The files may be edited in between.                                     *)
(***************************************************************************)
EXTENDS Naturals, Sequences, FiniteSets, SequencesExt

CONSTANTS Files,    \* all files, in the order a walk meets them: their directories and base
          Names,    \* names of templates, the bases of the files and Root among them
          Root,     \* the empty name, which is that of the set itself
          Roots,    \* directories callers name: with a dot in front, or plain
          Contents, \* what a file or a string may say
          Empty,    \* the body of nothing but blanks and definitions
          Absent,   \* stands for a template that is not there
          MaxCalls  \* bound: additions

ASSUME FilesAssumption == /\ Files \in Seq(Range(Files))
                          /\ \A f \in Range(Files) : f.base \in Names \ {Root} /\ f.dirs \in Seq(Range(f.dirs))
ASSUME RootsAssumption == \A r \in Roots : r.dot \in BOOLEAN /\ r.dirs \in Seq(Range(r.dirs))
ASSUME NamesAssumption == Root \in Names /\ Empty # Absent
ASSUME ContentsAssumption == \A c \in Contents : DOMAIN c.defs \subseteq Names \ {Root}
                                                /\ Absent \notin {c.main} \cup Range(c.defs)
ASSUME MaxCallsAssumption == MaxCalls \in Nat

VARIABLES disk,      \* what each file says
          templates, \* the body of each template
          metas,     \* names with a meta
          call,      \* the addition under way, or the latest
          returned,  \* what it returned
          stale,     \* history: some addition's files were edited while it ran
          calls      \* history: number of additions

vars == <<disk, templates, metas, call, returned, stale, calls>>

Bodies == UNION {{c.main} \cup Range(c.defs) : c \in Contents}

NoRoot == [dot |-> FALSE, dirs |-> <<>>]

NoCall == [kind |-> "none", root |-> NoRoot, todo |-> {}, pass |-> 0,
           read |-> <<>>, names |-> {}, before |-> [n \in Names |-> Absent],
           edited |-> FALSE, outcome |-> "none"]

CallType == [kind : {"none", "dir", "fs", "str"}, root : Roots \cup {NoRoot},
             todo : SUBSET DOMAIN Files, pass : {0, 1, 2}, read : Seq(DOMAIN Files),
             names : SUBSET Names, before : [Names -> Bodies \cup {Absent}],
             edited : BOOLEAN, outcome : {"none", "running", "ok", "panic"}]

TypeOK == /\ disk \in [DOMAIN Files -> Contents]
          /\ templates \in [Names -> Bodies \cup {Absent}]
          /\ metas \subseteq Names /\ returned \subseteq Names \ {Root}
          /\ call \in CallType
          /\ stale \in BOOLEAN
          /\ calls \in 0..MaxCalls

Init == /\ disk \in [DOMAIN Files -> Contents]
        /\ templates = [n \in Names |-> Absent]
        /\ metas = {}
        /\ call = NoCall
        /\ returned = {}
        /\ stale = FALSE
        /\ calls = 0

-----------------------------------------------------------------------------
(* What parsing c as the template named base defines; it fails on a syntax *)
(* error and when c defines its own name a second time.                    *)
Parses(base, c) == /\ ~c.bad
                   /\ ~(c.main # Empty /\ base \in DOMAIN c.defs /\ c.defs[base] # Empty)

Trees(base, c) ==
    [n \in {base} \cup DOMAIN c.defs |->
        IF n \in DOMAIN c.defs /\ (n # base \/ c.main = Empty) THEN c.defs[n] ELSE c.main]

(* text/template keeps a template rather than replace it by an empty one.  *)
Associated(set, trees) ==
    [n \in DOMAIN set |->
        IF n \in DOMAIN trees /\ (trees[n] # Empty \/ set[n] = Absent) THEN trees[n] ELSE set[n]]

(* getPattern: the expression is looked for anywhere in the path, and a    *)
(* leading dot is cut off it but not the slash behind.                     *)
Matches(root, f) ==
    \E i \in 1..(Len(f.dirs) + 1) :
        /\ root.dot => i > 1
        /\ i + Len(root.dirs) - 1 <= Len(f.dirs)
        /\ SubSeq(f.dirs, i, i + Len(root.dirs) - 1) = root.dirs

Below(root, f) == IsPrefix(root.dirs, f.dirs)

(* GlobDirectory walks below the directory, GlobFS through everything.     *)
Glob(kind, root) ==
    {f \in DOMAIN Files : (kind = "dir" => Below(root, Files[f])) /\ Matches(root, Files[f])}

-----------------------------------------------------------------------------
Idle == call.outcome # "running"

Panicked == /\ call' = [call EXCEPT !.outcome = "panic"]
            /\ returned' = {}

(* Mutant: the files make a new set instead of being added.                *)
AddTemplatesFresh(kind, root) ==
    LET found == Glob(kind, root)
    IN  /\ Idle /\ calls < MaxCalls
        /\ calls' = calls + 1
        /\ call' = [NoCall EXCEPT !.kind = kind, !.root = root, !.todo = found, !.pass = 1,
                                  !.before = templates,
                                  !.outcome = IF found = {} THEN "panic" ELSE "running"]
        /\ returned' = {}
        /\ templates' = [n \in Names |-> Absent]
        /\ UNCHANGED <<disk, metas, stale>>

(* AddTemplateByDir and AddTemplateByFS; no file at all is an error.       *)
AddTemplates(kind, root) ==
    LET found == Glob(kind, root)
    IN  /\ Idle /\ calls < MaxCalls
        /\ calls' = calls + 1
        /\ call' = [NoCall EXCEPT !.kind = kind, !.root = root, !.todo = found, !.pass = 1,
                                  !.before = templates,
                                  !.outcome = IF found = {} THEN "panic" ELSE "running"]
        /\ returned' = {}
        /\ UNCHANGED <<disk, templates, metas, stale>>

(* Files come in the order of the walk.                                    *)
NextFile(f) == call.outcome = "running" /\ f \in call.todo /\ \A g \in call.todo : f <= g

TreesOf(f) == Trees(Files[f].base, disk[f])

(* Mutant: a template that is there is not replaced.                       *)
ParseFileFirstWins(f) ==
    /\ NextFile(f) /\ call.pass = 1
    /\ IF Parses(Files[f].base, disk[f])
       THEN /\ templates' = [n \in Names |-> IF templates[n] = Absent
                                             THEN Associated(templates, TreesOf(f))[n]
                                             ELSE templates[n]]
            /\ call' = [call EXCEPT !.todo = @ \ {f}, !.read = Append(@, f)]
            /\ UNCHANGED returned
       ELSE UNCHANGED templates /\ Panicked
    /\ UNCHANGED <<disk, metas, stale, calls>>

(* ParseFiles, one file: the ones before it stay when it fails.            *)
ParseFile(f) ==
    /\ NextFile(f) /\ call.pass = 1
    /\ IF Parses(Files[f].base, disk[f])
       THEN /\ templates' = Associated(templates, TreesOf(f))
            /\ call' = [call EXCEPT !.todo = @ \ {f}, !.read = Append(@, f)]
            /\ UNCHANGED returned
       ELSE UNCHANGED templates /\ Panicked
    /\ UNCHANGED <<disk, metas, stale, calls>>

(* The files are read again, into a set of their own.                      *)
ParseAgain ==
    /\ call.outcome = "running" /\ call.pass = 1 /\ call.todo = {}
    /\ call' = [call EXCEPT !.pass = 2, !.todo = Range(call.read)]
    /\ UNCHANGED <<disk, templates, metas, returned, stale, calls>>

ReparseFile(f) ==
    /\ NextFile(f) /\ call.pass = 2
    /\ IF Parses(Files[f].base, disk[f])
       THEN /\ call' = [call EXCEPT !.todo = @ \ {f},
                                    !.names = @ \cup DOMAIN TreesOf(f)]
            /\ UNCHANGED returned
       ELSE Panicked
    /\ UNCHANGED <<disk, templates, metas, stale, calls>>

(* Mutant: the names of all templates.                                     *)
ReturnNamesAll ==
    /\ call.outcome = "running" /\ call.pass = 2 /\ call.todo = {}
    /\ call' = [call EXCEPT !.outcome = "ok"]
    /\ returned' = {n \in Names : templates[n] # Absent}
    /\ stale' = (stale \/ call.edited)
    /\ UNCHANGED <<disk, templates, metas, calls>>

(* GetTemplateNames: all but the empty name.                               *)
ReturnNames ==
    /\ call.outcome = "running" /\ call.pass = 2 /\ call.todo = {}
    /\ call' = [call EXCEPT !.outcome = "ok"]
    /\ returned' = call.names \ {Root}
    /\ stale' = (stale \/ call.edited)
    /\ UNCHANGED <<disk, templates, metas, calls>>

(* Mutant: the empty name is not left out.                                 *)
AddTemplateByStrRoot(name, c) ==
    /\ Idle /\ calls < MaxCalls
    /\ calls' = calls + 1
    /\ IF Parses(name, c)
       THEN /\ templates' = Associated(templates, Trees(name, c))
            /\ call' = [NoCall EXCEPT !.kind = "str", !.names = DOMAIN Trees(name, c),
                                      !.before = templates, !.outcome = "ok"]
            /\ returned' = DOMAIN Trees(Root, c)
       ELSE /\ UNCHANGED templates
            /\ call' = [NoCall EXCEPT !.kind = "str", !.before = templates, !.outcome = "panic"]
            /\ returned' = {}
    /\ UNCHANGED <<disk, metas, stale>>

(* A string is parsed under the name, the one of the set itself if it is   *)
(* empty, and again under the empty one in a set of its own.               *)
AddTemplateByStr(name, c) ==
    /\ Idle /\ calls < MaxCalls
    /\ calls' = calls + 1
    /\ IF Parses(name, c)
       THEN /\ templates' = Associated(templates, Trees(name, c))
            /\ call' = [NoCall EXCEPT !.kind = "str", !.names = DOMAIN Trees(name, c),
                                      !.before = templates, !.outcome = "ok"]
            /\ returned' = DOMAIN Trees(Root, c) \ {Root}
       ELSE /\ UNCHANGED templates
            /\ call' = [NoCall EXCEPT !.kind = "str", !.before = templates, !.outcome = "panic"]
            /\ returned' = {}
    /\ UNCHANGED <<disk, metas, stale>>

(* The caller registers a meta for a name it was given.                    *)
RegisterMeta(n) == /\ Idle /\ n \in returned
                   /\ metas' = metas \cup {n}
                   /\ UNCHANGED <<disk, templates, call, returned, stale, calls>>

(* Somebody saves a file while templates are added.                        *)
Edit(f, c) == /\ ~Idle /\ ~call.edited /\ c # disk[f]
              /\ disk' = [disk EXCEPT ![f] = c]
              /\ call' = [call EXCEPT !.edited = TRUE]
              /\ UNCHANGED <<templates, metas, returned, stale, calls>>

Next == \/ \E kind \in {"dir", "fs"}, root \in Roots : AddTemplates(kind, root)
        \/ \E f \in DOMAIN Files : ParseFile(f) \/ ReparseFile(f)
        \/ ParseAgain \/ ReturnNames
        \/ \E name \in Names, c \in Contents : AddTemplateByStr(name, c)
        \/ \E n \in Names : RegisterMeta(n)
        \/ \E f \in DOMAIN Files, c \in Contents : Edit(f, c)

Spec == Init /\ [][Next]_vars

-----------------------------------------------------------------------------
(* A template that has text keeps text: neither files without any, nor     *)
(* syntax errors, nor edits take it away.                                  *)
NeverBlanked ==
    [][\A n \in Names : templates[n] \notin {Absent, Empty}
                          => templates'[n] \notin {Absent, Empty}]_templates

(* The body that the files in the list define for n: of the last that has  *)
(* text for it; without any what was there, an empty one if nothing was.   *)
Defined(n, files, body) ==
    LET having == {i \in DOMAIN files : n \in DOMAIN TreesOf(files[i])}
        full   == {i \in having : TreesOf(files[i])[n] # Empty}
    IN  \/ \E i \in full : (\A j \in full : j <= i) /\ body = TreesOf(files[i])[n]
        \/ /\ full = {}
           /\ body = IF having # {} /\ call.before[n] = Absent THEN Empty ELSE call.before[n]

(* While the files are not edited, the templates are what those parsed so  *)
(* far define, the later over the earlier, over what was there before: all *)
(* files when the call succeeds, the ones before the faulty file when not. *)
LaterWins ==
    call.kind \in {"dir", "fs"} /\ ~call.edited =>
        \A n \in Names : Defined(n, call.read, templates[n])

(* The names an addition returns are those its files define, and all can   *)
(* be executed, unless the files were edited between the two readings.  A  *)
(* plain directory gives all of its files; one named with a dot in front   *)
(* only those that repeat it further down.                                 *)
NamesAreDefined ==
    call.kind \in {"dir", "fs"} /\ call.outcome = "ok" /\ ~call.edited =>
        LET files == IF call.kind = "dir" /\ ~call.root.dot
                     THEN {f \in DOMAIN Files : Below(call.root, Files[f])}
                     ELSE Range(call.read)
        IN  /\ returned = UNION {DOMAIN TreesOf(f) : f \in files}
            /\ \A n \in returned : templates[n] # Absent

(* A meta belongs to a template that is there, however many additions      *)
(* failed since, unless an edit slipped in.                                *)
MetasResolve == ~stale => \A n \in metas : templates[n] # Absent

(* Whatever name a caller was given, it can be looked up and executed.     *)
NamesResolve == NamesAreDefined /\ MetasResolve
=============================================================================
