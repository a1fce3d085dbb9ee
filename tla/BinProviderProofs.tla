-------------------------- MODULE BinProviderProofs --------------------------
(***************************************************************************)
(* BinProvider for any pipe capacity and any amount of output: types, the  *)
(* complete output, and that nothing is left when a call returns.          *)
(***************************************************************************)
EXTENDS BinProvider, TLAPS

BeforeStart == {"parse", "stdin", "stderr", "stdout", "start"}

(* Before cmd.Start there is no process; after it the call is past it, and *)
(* the child runs exactly as long as it holds its output pipes.            *)
PhaseInv == /\ step \in BeforeStart => child = "none"
            /\ step \notin BeforeStart \cup {"returned"} => child # "none"
            /\ child = "running" <=> "child" \in holders
            /\ child = "none" => holders = {}
            /\ child = "reaped" => step = "returned"

(* No chunk is lost: planned is what is read, in the pipe, or to come; and *)
(* a process that let go of its pipes has nothing to write.                *)
AccountInv ==
    /\ \A s \in Streams :
          Sum(s) = got[s] + pipe[s] + todo["child"][s] + todo["heir"][s]
    /\ \A p \in Processes, s \in Streams : p \notin holders => todo[p][s] = 0
    /\ child = "none" => \A s \in Streams : got[s] = 0 /\ pipe[s] = 0

(* The read ends stay open until cmd.Wait.                                 *)
EndsInv == /\ step = "stdout" => <<"stderr", "ours">> \in fds
           /\ step = "start" => \A s \in Streams : <<s, "ours">> \in fds
           /\ child # "none" /\ step # "returned" =>
                 \A s \in Streams : <<s, "ours">> \in fds

(* A reader stops when its pipe is drained and nobody can write any more.  *)
WorkerInv ==
    /\ \A w \in Workers : worker[w] # "none" => child # "none"
    /\ \A s \in Streams : worker[s] = "done" => pipe[s] = 0 /\ holders = {}
    /\ step = "wait" \/ Ran => \A w \in Workers : worker[w] = "done"

ResultInv == Ran => /\ child = "reaped"
                    /\ fds = {}
                    /\ result = [how |-> "ok", out |-> got["stdout"]]

IInv == TypeOK /\ PhaseInv /\ AccountInv /\ EndsInv /\ WorkerInv /\ ResultInv

-----------------------------------------------------------------------------
LEMMA NoPlanIsPlan == NoPlan \in Plans
  BY BoundsAssumption DEF NoPlan, Plans

(* StandardizeSpaces leaves one line, so the body is always empty.         *)
LEMMA BodyIsEmpty == \A lines : Body(lines) = <<>>
  BY DEF Body, StandardizeSpaces

(* All counts of chunks are natural numbers.                               *)
LEMMA Counts ==
  TypeOK => \A s \in Streams :
               /\ pipe[s] \in Nat
               /\ got[s] \in Nat
               /\ \A p \in Processes : /\ todo[p][s] \in Nat
                                      /\ plan.writes[p][s] \in Nat
  <1> SUFFICES ASSUME TypeOK, NEW s \in Streams
               PROVE  /\ pipe[s] \in Nat
                      /\ got[s] \in Nat
                      /\ \A p \in Processes : /\ todo[p][s] \in Nat
                                             /\ plan.writes[p][s] \in Nat
    OBVIOUS
  <1> USE BoundsAssumption, PipeCapAssumption
  <1>1. pipe[s] \in 0..PipeCap /\ got[s] \in Nat
    BY DEF TypeOK
  <1>2. \A p \in Processes : /\ todo[p][s] \in 0..MaxChunks
                            /\ plan.writes[p][s] \in 0..MaxChunks
    BY DEF TypeOK, Plans
  <1>3. QED
    BY <1>1, <1>2

LEMMA InitInv == Init => IInv
  <1> SUFFICES ASSUME Init PROVE IInv
    OBVIOUS
  <1> USE BoundsAssumption, PipeCapAssumption DEF Init
  <1>1. TypeOK
    <2>1. /\ NoPlan.writes \in [Processes -> [Streams -> 0..MaxChunks]]
          /\ plan \in Plans
      BY NoPlanIsPlan DEF NoPlan
    <2>2. QED
      BY <2>1 DEF TypeOK, Steps, Results
  <1>2. PhaseInv /\ EndsInv /\ WorkerInv /\ ResultInv
    BY DEF PhaseInv, EndsInv, WorkerInv, ResultInv, BeforeStart, Ran, Streams,
         Workers
  <1>3. AccountInv
    BY DEF AccountInv, Sum, NoPlan, Streams, Processes
  <1>4. QED
    BY <1>1, <1>2, <1>3 DEF IInv

-----------------------------------------------------------------------------
(* Every variable keeps its type, action by action.                        *)
LEMMA TypeStep == TypeOK /\ Next => TypeOK'
  <1> SUFFICES ASSUME TypeOK, Next PROVE TypeOK'
    OBVIOUS
  <1> USE PipeCapAssumption
      DEF TypeOK, Steps, Results, Ends, Workers, Streams, Return, process,
          service
  <1>1. CASE Parse
    BY <1>1 DEF Parse
  <1>2. CASE ParseFails \/ ParseEmpty
    BY <1>2 DEF ParseFails, ParseEmpty
  <1>3. CASE OpenPipe
    BY <1>3 DEF OpenPipe, NextStep
  <1>4. CASE OpenPipeFails
    BY <1>4 DEF OpenPipeFails, Deferred
  <1>5. CASE Start
    <2>1. /\ plan' \in Plans
          /\ todo' \in [Processes -> [Streams -> 0..MaxChunks]]
      BY <1>5 DEF Start, Plans
    <2>2. holders' \subseteq Processes
      BY <1>5 DEF Start, Processes
    <2>3. QED
      BY <1>5, <2>1, <2>2 DEF Start
  <1>6. CASE StartFails
    BY <1>6 DEF StartFails
  <1>7. CASE Spawn
    BY <1>7 DEF Spawn
  <1>8. CASE CopyStdin
    <2>1. stdin' = <<>>
      BY <1>8, BodyIsEmpty DEF CopyStdin
    <2>2. stdin' \in Seq(Seq(Words))
      BY <2>1
    <2>3. QED
      BY <1>8, <2>2 DEF CopyStdin
  <1>9. ASSUME NEW s \in Streams, ReadChunk(s) PROVE TypeOK'
    BY <1>9 DEF ReadChunk
  <1>10. ASSUME NEW s \in Streams, EndOfFile(s) PROVE TypeOK'
    BY <1>10 DEF EndOfFile
  <1>11. CASE Join
    BY <1>11 DEF Join
  <1>12. CASE Wait
    BY <1>12 DEF Wait
  <1>13. ASSUME NEW p \in Processes, NEW s \in Streams, Write(p, s)
         PROVE  TypeOK'
    <2>1. todo' \in [Processes -> [Streams -> 0..MaxChunks]]
      BY <1>13, BoundsAssumption DEF Write
    <2>2. pipe' \in [Streams -> 0..PipeCap]
      BY <1>13 DEF Write
    <2>3. QED
      BY <1>13, <2>1, <2>2 DEF Write
  <1>14. CASE ChildExits \/ HeirExits
    BY <1>14 DEF ChildExits, HeirExits
  <1>15. CASE Terminated
    BY <1>15 DEF Terminated, vars
  <1>16. QED
    BY <1>1, <1>2, <1>3, <1>4, <1>5, <1>6, <1>7, <1>8, <1>9, <1>10, <1>11,
       <1>12, <1>13, <1>14, <1>15
       DEF Next, Caller, Prepare, Serve, Run

(* The account of chunks balances after every step.                        *)
LEMMA AccountStep == IInv /\ TypeOK' /\ Next => AccountInv'
  <1> SUFFICES ASSUME IInv, TypeOK', Next PROVE AccountInv'
    OBVIOUS
  <1>1. TypeOK /\ PhaseInv /\ AccountInv
    BY DEF IInv
  <1>2. /\ \A s \in Streams : pipe[s] \in Nat /\ got[s] \in Nat
        /\ \A p \in Processes, s \in Streams :
              todo[p][s] \in Nat /\ plan.writes[p][s] \in Nat
    BY <1>1, Counts
  <1>3. \A p \in Processes, s \in Streams : plan'.writes[p][s] \in Nat
    BY BoundsAssumption DEF TypeOK, Plans
  <1>4. "child" \in Processes /\ "heir" \in Processes
    BY DEF Processes
  <1> USE <1>1 DEF AccountInv, Sum
  <1>5. CASE Start
    <2>1. child = "none"
      BY <1>5 DEF Start, PhaseInv, BeforeStart
    <2>2. /\ child' # "none"
          /\ todo' = plan'.writes
          /\ "child" \in holders'
          /\ "heir" \in holders' \/ plan'.writes["heir"] = NoPlan.writes["heir"]
          /\ UNCHANGED <<pipe, got>>
      BY <1>5 DEF Start, service
    <2>3. \A s \in Streams : NoPlan.writes["heir"][s] = 0
      BY <1>4 DEF NoPlan
    <2>4. \A p \in Processes : p = "child" \/ p = "heir"
      BY DEF Processes
    <2>5. QED
      BY <2>1, <2>2, <2>3, <2>4, <1>3, <1>4
  <1>6. ASSUME NEW s \in Streams, ReadChunk(s) PROVE AccountInv'
    <2>1. /\ pipe' = [pipe EXCEPT ![s] = @ - 1]
          /\ got' = [got EXCEPT ![s] = @ + 1]
          /\ UNCHANGED <<plan, todo, holders, child>>
          /\ worker[s] = "running"
      BY <1>6 DEF ReadChunk, process
    <2>2. child # "none"
      BY <2>1 DEF IInv, WorkerInv, Workers
    <2>3. \A t \in Streams : pipe'[t] + got'[t] = pipe[t] + got[t]
      BY <2>1, <1>2 DEF TypeOK
    <2>4. \A t \in Streams : pipe'[t] \in Int /\ got'[t] \in Int
      BY <2>1, <1>2 DEF TypeOK
    <2>5. QED
      BY <2>1, <2>2, <2>3, <2>4, <1>2, <1>4
  <1>7. ASSUME NEW p \in Processes, NEW s \in Streams, Write(p, s)
        PROVE  AccountInv'
    <2>1. /\ todo' = [todo EXCEPT ![p] = [todo[p] EXCEPT ![s] = @ - 1]]
          /\ pipe' = [pipe EXCEPT ![s] = @ + 1]
          /\ UNCHANGED <<plan, got, holders, child>>
          /\ p \in holders
      BY <1>7 DEF Write
    <2>2. child # "none"
      BY <2>1 DEF PhaseInv
    <2>3. /\ todo'[p][s] = todo[p][s] - 1
          /\ pipe'[s] = pipe[s] + 1
      BY <2>1 DEF TypeOK
    <2>4. \A t \in Streams : t # s =>
             pipe'[t] = pipe[t] /\ todo'[p][t] = todo[p][t]
      BY <2>1 DEF TypeOK
    <2>5. \A q \in Processes : q # p => todo'[q] = todo[q]
      BY <2>1 DEF TypeOK
    <2>6. p = "child" \/ p = "heir"
      BY DEF Processes
    <2>7. \A t \in Streams :
             Sum(t) = got[t] + pipe'[t] + todo'["child"][t] + todo'["heir"][t]
      BY <2>3, <2>4, <2>5, <2>6, <1>2, <1>4
    <2>8. QED
      BY <2>1, <2>2, <2>4, <2>5, <2>7
  <1>8. CASE ChildExits \/ HeirExits
    <2>1. /\ UNCHANGED <<plan, todo, pipe, got>>
          /\ child' = "none" => child = "none"
      BY <1>8 DEF ChildExits, HeirExits, service
    <2>2. \A q \in holders \ holders' : \A s \in Streams : todo[q][s] = 0
      BY <1>8 DEF ChildExits, HeirExits, Finished
    <2>3. QED
      BY <2>1, <2>2
  <1>9. CASE UNCHANGED <<plan, todo, holders, pipe, got>> /\ (child' = "none" => child = "none")
    BY <1>9
  <1>10. QED
    BY <1>5, <1>6, <1>7, <1>8, <1>9
       DEF Next, Caller, Prepare, Serve, Run, Parse, ParseFails, ParseEmpty,
           OpenPipe, OpenPipeFails, StartFails, Spawn, CopyStdin, EndOfFile,
           Join, Wait, Terminated, vars, Workers, process, service

(* Every other part of the invariant is preserved, action by action.       *)
LEMMA ControlStep ==
  IInv /\ TypeOK' /\ Next => PhaseInv' /\ EndsInv' /\ WorkerInv' /\ ResultInv'
  <1> SUFFICES ASSUME IInv, TypeOK', Next
               PROVE  PhaseInv' /\ EndsInv' /\ WorkerInv' /\ ResultInv'
    OBVIOUS
  <1> USE DEF IInv, TypeOK, PhaseInv, EndsInv, WorkerInv, ResultInv, Ran,
          BeforeStart, Return, process, service, Streams, Workers, Processes
  <1>1. CASE Parse \/ ParseFails \/ ParseEmpty
    BY <1>1 DEF Parse, ParseFails, ParseEmpty
  <1>2. CASE OpenPipe
    BY <1>2 DEF OpenPipe, NextStep
  <1>3. CASE OpenPipeFails \/ StartFails
    BY <1>3 DEF OpenPipeFails, StartFails
  <1>4. CASE Start
    BY <1>4 DEF Start
  <1>5. CASE Spawn
    BY <1>5 DEF Spawn
  <1>6. CASE CopyStdin
    BY <1>6 DEF CopyStdin
  <1>7. ASSUME NEW s \in Streams, ReadChunk(s) \/ EndOfFile(s)
        PROVE  PhaseInv' /\ EndsInv' /\ WorkerInv' /\ ResultInv'
    BY <1>7 DEF ReadChunk, EndOfFile
  <1>8. CASE Join
    BY <1>8 DEF Join
  <1>9. CASE Wait
    BY <1>9 DEF Wait
  <1>10. ASSUME NEW p \in Processes, NEW s \in Streams, Write(p, s)
         PROVE  PhaseInv' /\ EndsInv' /\ WorkerInv' /\ ResultInv'
    BY <1>10 DEF Write
  <1>11. CASE ChildExits \/ HeirExits
    BY <1>11 DEF ChildExits, HeirExits, Finished
  <1>12. CASE Terminated
    BY <1>12 DEF Terminated, vars
  <1>13. QED
    BY <1>1, <1>2, <1>3, <1>4, <1>5, <1>6, <1>7, <1>8, <1>9, <1>10, <1>11,
       <1>12 DEF Next, Caller, Prepare, Serve, Run

LEMMA NextInv == IInv /\ [Next]_vars => IInv'
  <1>1. ASSUME IInv, Next PROVE IInv'
    BY <1>1, TypeStep, AccountStep, ControlStep DEF IInv
  <1>2. ASSUME IInv, UNCHANGED vars PROVE IInv'
    BY <1>2 DEF vars, IInv, TypeOK, PhaseInv, AccountInv, EndsInv, WorkerInv,
         ResultInv, Ran, Sum
  <1>3. QED
    BY <1>1, <1>2

(* The inductive invariant holds throughout a call.                        *)
THEOREM Invariance == Spec => []IInv
  BY InitInv, NextInv, PTL DEF Spec

(* Every variable keeps its type.                                          *)
THEOREM TypeCorrect == Spec => []TypeOK
  BY Invariance, PTL DEF IInv

(* Whatever the capacity of the pipes and the amount of output, a call     *)
(* that ran its command returns all that was written to stdout.            *)
THEOREM OutputCompleteHolds == Spec => []OutputComplete
  <1>1. IInv => OutputComplete
    <2> SUFFICES ASSUME IInv, Ran
                 PROVE  result.how = "ok" /\ result.out = Sum("stdout")
      BY DEF OutputComplete
    <2>1. pipe["stdout"] = 0 /\ holders = {}
      BY DEF IInv, WorkerInv, Workers, Streams
    <2>2. todo["child"]["stdout"] = 0 /\ todo["heir"]["stdout"] = 0
      BY <2>1 DEF IInv, AccountInv, Streams, Processes
    <2>3. Sum("stdout") = got["stdout"]
      BY <2>1, <2>2 DEF IInv, AccountInv, Streams, TypeOK
    <2>4. QED
      BY <2>3 DEF IInv, ResultInv
  <1>2. QED
    BY <1>1, Invariance, PTL

(* A call that ran its command leaves no process, goroutine or descriptor. *)
THEOREM NothingLeftHolds == Spec => []NothingLeft
  <1>1. IInv => NothingLeft
    BY DEF IInv, WorkerInv, ResultInv, NothingLeft
  <1>2. QED
    BY <1>1, Invariance, PTL
=============================================================================
