-------------------------------- MODULE Script --------------------------------
(***************************************************************************)
(* What rendering a template promises about its effects, without frames,   *)
(* volumes or panics: a request is a straight script of statements that    *)
(* are executed one after the other, in order and each once, and stops at  *)
(* the first one that fails.  TemplateExec implements this specification.  *)
(***************************************************************************)
EXTENDS Sequences, Naturals

CONSTANT Effects  \* statements, requests and commands a script may hold

VARIABLES plan,   \* the script of the current request
          done,   \* what of it was handed to a provider
          status  \* "idle", "running", "ok" or "failed"

vars == <<plan, done, status>>

Init == plan = <<>> /\ done = <<>> /\ status = "idle"

(* A request begins; one for an unknown template fails at once.            *)
Begin == /\ status # "running"
         /\ plan' \in Seq(Effects)
         /\ done' = <<>>
         /\ \/ status' = "running"
            \/ status' = "failed" /\ plan' = <<>>

(* The next effect is attempted.                                           *)
Execute == /\ status = "running"
           /\ Len(done) < Len(plan)
           /\ done' = Append(done, plan[Len(done) + 1])
           /\ status' \in {"running", "failed"}
           /\ UNCHANGED plan

(* The request fails without an effect, wherever it is in the script.      *)
Abort == status = "running" /\ status' = "failed" /\ UNCHANGED <<plan, done>>

(* Only the whole script is a success.                                     *)
Succeed == /\ status = "running"
           /\ done = plan
           /\ status' = "ok"
           /\ UNCHANGED <<plan, done>>

Next == Begin \/ Execute \/ Abort \/ Succeed

Spec == Init /\ [][Next]_vars
=============================================================================
