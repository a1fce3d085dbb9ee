---------------------------- MODULE SharedHandle ----------------------------
(***************************************************************************)
(* What a provider promises about its connection handle, whatever the      *)
(* synchronisation inside: one cell that is settled once, either open or   *)
(* failed, and callers that are answered from it.  LazyHandle implements   *)
(* this specification.                                                     *)
(***************************************************************************)
CONSTANT Procs

VARIABLES cell,    \* "unset", then "open" or "failed" for good
          answer   \* what each caller's latest call came back with

vars == <<cell, answer>>

Answers == {"none", "handle", "nil", "refused", "panicked",
            "sourceHandle", "sourceNil"}

TypeOK == /\ cell \in {"unset", "open", "failed"}
          /\ answer \in [Procs -> Answers]

Init == /\ cell = "unset"
        /\ answer = [p \in Procs |-> "none"]

(* The cell is settled.  This happens once and is never undone.            *)
Settle == /\ cell = "unset"
          /\ cell' \in {"open", "failed"}
          /\ UNCHANGED answer

Answer(p, a) == /\ answer' = [answer EXCEPT ![p] = a]
                /\ UNCHANGED cell

Ask(p) == Answer(p, "none")

(* GetDb and GetClient answer from a settled cell only.                    *)
Get(p) == /\ cell # "unset"
          /\ Answer(p, IF cell = "open" THEN "handle" ELSE "nil")

(* A missing DSN is refused as long as there is no handle.                 *)
Refuse(p) == cell # "open" /\ Answer(p, "refused")

(* The caller that ran the failing initialiser sees its panic.             *)
Panic(p) == cell = "failed" /\ Answer(p, "panicked")

(* GetSource reads the cell as it is.                                      *)
Peek(p) == Answer(p, IF cell = "open" THEN "sourceHandle" ELSE "sourceNil")

Next == \/ Settle
        \/ \E p \in Procs : Ask(p) \/ Get(p) \/ Refuse(p) \/ Panic(p) \/ Peek(p)

Spec == Init /\ [][Next]_vars
=============================================================================
