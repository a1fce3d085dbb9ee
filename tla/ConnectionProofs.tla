-------------------------- MODULE ConnectionProofs --------------------------
(***************************************************************************)
(* The connections of providers: how one is opened lazily, and how the CURL *)
(* provider works with the one it got.                                     *)
(***************************************************************************)
EXTENDS LazyHandle, CurlRequest, TLAPS

-----------------------------------------------------------------------------
(***************************************************************************)
(* LazyHandle for any set of goroutines: types, the single open, the       *)
(* agreement of the callers, the permanence of a failure, and that the     *)
(* double-checked sync.Once implements SharedHandle.                       *)
(***************************************************************************)
(* p is between OnceLock and OnceUnlock.                                   *)
InOnce(p) == pc[p] \in {"recheck", "open", "assign", "done", "doneFailed",
                        "unlock", "unlockFailed"}

(* At most one goroutine is inside the Once.                               *)
MutexInv == \A p \in Procs : InOnce(p) => onceHolder = p

(* What holds where: the initialiser runs on an untouched cell, and only   *)
(* a settled cell is answered from.                                        *)
StepInv ==
    \A p \in Procs :
        /\ pc[p] = "open"   => ~onceDone /\ opens = 0 /\ handle = NoHandle
        /\ pc[p] = "assign" => ~onceDone /\ opens = 1 /\ handle = NoHandle
        /\ pc[p] = "done"   => ~onceDone /\ opens = 1 /\ handle = 1
        /\ pc[p] = "doneFailed" => ~onceDone /\ opens = 0 /\ handle = NoHandle
        /\ pc[p] = "unlockFailed" => onceDone /\ handle = NoHandle
        /\ pc[p] \in {"load", "unlock"} => onceDone \/ handle # NoHandle

(* Nothing was opened, or the one open was stored, or it is about to be;   *)
(* and an open that Once does not yet know of has its goroutine inside.    *)
CellInv ==
    /\ opens \in {0, 1}
    /\ handle # NoHandle => opens = 1 /\ handle = 1
    /\ ~onceDone /\ opens = 1 => \E p \in Procs : pc[p] \in {"assign", "done"}

(* Replies were given from a settled cell and still describe it.           *)
AnswerInv ==
    \A p \in Procs :
        /\ answer[p].how = "value" =>
              /\ answer[p].handle = handle
              /\ onceDone \/ handle # NoHandle
        /\ answer[p].how = "panicked" => onceDone /\ handle = NoHandle

LazyIInv == LazyTypeOK /\ MutexInv /\ StepInv /\ CellInv /\ AnswerInv

-----------------------------------------------------------------------------
LEMMA LazyInitInv == LazyInit => LazyIInv
  <1> SUFFICES ASSUME LazyInit PROVE LazyIInv
    OBVIOUS
  <1> USE DEF LazyInit, Reply, NoHandle
  <1>1. LazyTypeOK
    BY DEF LazyTypeOK, Replies, Steps
  <1>2. MutexInv /\ StepInv
    BY DEF MutexInv, StepInv, InOnce
  <1>3. CellInv /\ AnswerInv
    BY DEF CellInv, AnswerInv
  <1>4. QED
    BY <1>1, <1>2, <1>3 DEF LazyIInv

(* Types are preserved by every step.                                      *)
LEMMA LazyTypeStep == LazyTypeOK /\ [LazyNext]_lazyVars => LazyTypeOK'
  <1> SUFFICES ASSUME LazyTypeOK, [LazyNext]_lazyVars PROVE LazyTypeOK'
    OBVIOUS
  <1> USE DEF LazyTypeOK, Goto, Give, Reply, Replies, Steps, once, NoHandle
  <1>1. ASSUME NEW p \in Procs, Call(p) \/ GetSource(p) PROVE LazyTypeOK'
    BY <1>1 DEF Call, GetSource
  <1>2. ASSUME NEW p \in Procs, Proceed(p) PROVE LazyTypeOK'
    <2>1. CASE CheckHandle(p)
      BY <2>1 DEF CheckHandle
    <2>2. CASE RefuseConfig(p)
      BY <2>2 DEF RefuseConfig
    <2>3. CASE OnceFast(p)
      BY <2>3 DEF OnceFast
    <2>4. CASE OnceLock(p)
      BY <2>4 DEF OnceLock
    <2>5. CASE OnceRecheck(p)
      BY <2>5 DEF OnceRecheck
    <2>6. CASE OpenHandle(p)
      BY <2>6 DEF OpenHandle
    <2>7. CASE AssignHandle(p)
      BY <2>7 DEF AssignHandle
    <2>8. CASE OpenPanics(p)
      BY <2>8 DEF OpenPanics
    <2>9. CASE OnceDone(p)
      BY <2>9 DEF OnceDone
    <2>10. CASE OnceUnlock(p)
      BY <2>10 DEF OnceUnlock
    <2>11. CASE OnceUnlockPanicking(p)
      BY <2>11 DEF OnceUnlockPanicking
    <2>12. CASE LoadHandle(p)
      BY <2>12 DEF LoadHandle
    <2>13. QED
      BY <1>2, <2>1, <2>2, <2>3, <2>4, <2>5, <2>6, <2>7, <2>8, <2>9,
         <2>10, <2>11, <2>12 DEF Proceed
  <1>3. CASE Reconfigure
    BY <1>3 DEF Reconfigure
  <1>4. CASE UNCHANGED lazyVars
    BY <1>4 DEF lazyVars
  <1>5. QED
    BY <1>1, <1>2, <1>3, <1>4 DEF LazyNext

(* One step of one goroutine preserves the invariant, action by action.    *)
LEMMA ProceedStep ==
  ASSUME LazyIInv, LazyTypeOK', NEW p \in Procs, Proceed(p)
  PROVE  LazyIInv'
  <1> USE NoProcAssumption
      DEF LazyIInv, LazyTypeOK, MutexInv, StepInv, CellInv, AnswerInv, InOnce,
          Goto, Give, Reply, Replies, Steps, once, NoHandle
  <1>1. CASE CheckHandle(p)
    BY <1>1 DEF CheckHandle
  <1>2. CASE RefuseConfig(p)
    BY <1>2 DEF RefuseConfig
  <1>3. CASE OnceFast(p)
    BY <1>3 DEF OnceFast
  <1>4. CASE OnceLock(p)
    BY <1>4 DEF OnceLock
  <1>5. CASE OnceRecheck(p)
    BY <1>5 DEF OnceRecheck
  <1>6. CASE OpenHandle(p)
    BY <1>6 DEF OpenHandle
  <1>7. CASE AssignHandle(p)
    BY <1>7 DEF AssignHandle
  <1>8. CASE OpenPanics(p)
    BY <1>8 DEF OpenPanics
  <1>9. CASE OnceDone(p)
    BY <1>9 DEF OnceDone
  <1>10. CASE OnceUnlock(p)
    BY <1>10 DEF OnceUnlock
  <1>11. CASE OnceUnlockPanicking(p)
    BY <1>11 DEF OnceUnlockPanicking
  <1>12. CASE LoadHandle(p)
    BY <1>12 DEF LoadHandle
  <1>13. QED
    BY <1>1, <1>2, <1>3, <1>4, <1>5, <1>6, <1>7, <1>8, <1>9, <1>10, <1>11,
       <1>12 DEF Proceed

LEMMA LazyNextInv == LazyIInv /\ [LazyNext]_lazyVars => LazyIInv'
  <1> SUFFICES ASSUME LazyIInv, [LazyNext]_lazyVars PROVE LazyIInv'
    OBVIOUS
  <1>1. LazyTypeOK'
    BY LazyTypeStep DEF LazyIInv
  <1> USE DEF MutexInv, StepInv, CellInv, AnswerInv, InOnce
  <1>2. ASSUME NEW p \in Procs, Proceed(p) PROVE LazyIInv'
    BY <1>1, <1>2, ProceedStep
  <1>3. ASSUME NEW p \in Procs, Call(p) \/ GetSource(p) PROVE LazyIInv'
    BY <1>1, <1>3 DEF Call, GetSource, Goto, Give, Reply, once, LazyIInv, LazyTypeOK
  <1>4. CASE Reconfigure
    BY <1>1, <1>4 DEF Reconfigure, once, LazyIInv
  <1>5. CASE UNCHANGED lazyVars
    BY <1>1, <1>5 DEF lazyVars, LazyIInv
  <1>6. QED
    BY <1>2, <1>3, <1>4, <1>5 DEF LazyNext

(* The inductive invariant holds throughout.                               *)
THEOREM LazyInvariance == LazySpec => []LazyIInv
  BY LazyInitInv, LazyNextInv, PTL DEF LazySpec

(* Every variable keeps its type.                                          *)
THEOREM LazyTypes == LazySpec => []LazyTypeOK
  BY LazyInvariance, PTL DEF LazyIInv

(* However many goroutines race in the first call, one handle is opened.   *)
THEOREM SingleOpenHolds == LazySpec => []SingleOpen
  <1>1. LazyIInv => SingleOpen
    BY DEF LazyIInv, CellInv, SingleOpen
  <1>2. QED
    BY <1>1, LazyInvariance, PTL

(* Nobody is given anything but the provider's one handle, and nil only    *)
(* from a provider that has none and never will.                           *)
THEOREM CallersAgreeHolds == LazySpec => []CallersAgree
  <1>1. LazyIInv => CallersAgree
    BY DEF LazyIInv, AnswerInv, CallersAgree
  <1>2. QED
    BY <1>1, LazyInvariance, PTL

(* After a failed initialisation no step produces a handle.                *)
THEOREM FailureIsPermanentHolds == LazySpec => FailureIsPermanent
  <1>1. LazyIInv /\ [LazyNext]_lazyVars =>
          [(\E p \in Procs : answer[p].how = "panicked") => handle' = handle]_lazyVars
    <2> SUFFICES ASSUME LazyIInv, [LazyNext]_lazyVars,
                        NEW p \in Procs, answer[p].how = "panicked"
                 PROVE  handle' = handle
      BY DEF lazyVars
    <2>1. onceDone
      BY DEF LazyIInv, AnswerInv
    <2>2. ASSUME NEW q \in Procs, AssignHandle(q) PROVE FALSE
      BY <2>1, <2>2 DEF LazyIInv, StepInv, AssignHandle, Goto
    <2>3. QED
      BY <2>2 DEF LazyNext, Proceed, Call, CheckHandle, RefuseConfig, OnceFast,
          OnceLock, OnceRecheck, OpenHandle, OpenPanics, OnceDone, OnceUnlock,
          OnceUnlockPanicking, LoadHandle, GetSource, Reconfigure, lazyVars
  <1>2. QED
    BY <1>1, LazyInvariance, PTL DEF LazySpec, FailureIsPermanent

-----------------------------------------------------------------------------
LEMMA InitRefines == LazyInit => Shared!Init
  BY DEF LazyInit, Shared!Init, AbstractAnswer, Reply, NoHandle

(* A step of one goroutine settles the cell, answers, or is invisible.     *)
LEMMA ProceedRefines ==
  ASSUME LazyIInv, LazyTypeOK', NEW p \in Procs, Proceed(p)
  PROVE  Shared!Next \/ UNCHANGED Shared!vars
  <1> USE DEF Goto, Give, Reply, once, NoHandle
  <1>1. CASE \/ OnceFast(p) \/ OnceLock(p) \/ OnceRecheck(p)
             \/ OpenHandle(p) \/ OpenPanics(p) \/ OnceUnlock(p)
    BY <1>1 DEF OnceFast, OnceLock, OnceRecheck, OpenHandle, OpenPanics,
         OnceUnlock, Shared!vars
  <1>2. CASE CheckHandle(p)
    BY <1>2 DEF CheckHandle, Shared!vars
  <1>3. CASE RefuseConfig(p)
    <2>1. Shared!Refuse(p)
      BY <1>3 DEF RefuseConfig, Shared!Refuse, Shared!Answer, AbstractAnswer,
           LazyIInv, LazyTypeOK
    <2>2. QED
      BY <2>1 DEF Shared!Next
  <1>4. CASE AssignHandle(p)
    <2>1. Shared!Settle
      BY <1>4 DEF AssignHandle, Shared!Settle, LazyIInv, StepInv
    <2>2. QED
      BY <2>1 DEF Shared!Next
  <1>5. CASE OnceDone(p)
    <2>1. CASE pc[p] = "done"
      BY <1>5, <2>1 DEF OnceDone, Shared!vars, LazyIInv, StepInv
    <2>2. CASE pc[p] = "doneFailed"
      <3>1. Shared!Settle
        BY <1>5, <2>2 DEF OnceDone, Shared!Settle, LazyIInv, StepInv
      <3>2. QED
        BY <3>1 DEF Shared!Next
    <2>3. QED
      BY <1>5, <2>1, <2>2 DEF OnceDone
  <1>6. CASE OnceUnlockPanicking(p)
    <2>1. Shared!Panic(p)
      BY <1>6 DEF OnceUnlockPanicking, Shared!Panic, Shared!Answer,
           AbstractAnswer, LazyIInv, LazyTypeOK, StepInv
    <2>2. QED
      BY <2>1 DEF Shared!Next
  <1>7. CASE LoadHandle(p)
    <2>1. Shared!Get(p)
      BY <1>7 DEF LoadHandle, Shared!Get, Shared!Answer, AbstractAnswer,
           LazyIInv, LazyTypeOK, StepInv
    <2>2. QED
      BY <2>1 DEF Shared!Next
  <1>8. QED
    BY <1>1, <1>2, <1>3, <1>4, <1>5, <1>6, <1>7 DEF Proceed

LEMMA NextRefines ==
  LazyIInv /\ LazyIInv' /\ [LazyNext]_lazyVars => [Shared!Next]_(Shared!vars)
  <1> SUFFICES ASSUME LazyIInv, LazyIInv', [LazyNext]_lazyVars
               PROVE  Shared!Next \/ UNCHANGED Shared!vars
    OBVIOUS
  <1> USE DEF Goto, Give, Reply, once, NoHandle
  <1>1. ASSUME NEW p \in Procs, Proceed(p)
        PROVE  Shared!Next \/ UNCHANGED Shared!vars
    BY <1>1, ProceedRefines DEF LazyIInv
  <1>2. ASSUME NEW p \in Procs, Call(p) PROVE Shared!Next
    <2>1. Shared!Ask(p)
      BY <1>2 DEF Call, Shared!Ask, Shared!Answer, AbstractAnswer, LazyIInv, LazyTypeOK
    <2>2. QED
      BY <2>1 DEF Shared!Next
  <1>3. ASSUME NEW p \in Procs, GetSource(p) PROVE Shared!Next
    <2>1. Shared!Peek(p)
      BY <1>3 DEF GetSource, Shared!Peek, Shared!Answer, AbstractAnswer,
           LazyIInv, LazyTypeOK
    <2>2. QED
      BY <2>1 DEF Shared!Next
  <1>4. CASE Reconfigure
    BY <1>4 DEF Reconfigure, Shared!vars
  <1>5. CASE UNCHANGED lazyVars
    BY <1>5 DEF lazyVars, Shared!vars
  <1>6. QED
    BY <1>1, <1>2, <1>3, <1>4, <1>5 DEF LazyNext

(* The double-checked Once behaves as a cell that is settled once: every   *)
(* step of every goroutine is a step of SharedHandle or invisible to it.   *)
THEOREM Refinement == LazySpec => SharedSpec
  BY InitRefines, NextRefines, LazyInvariance, PTL
     DEF LazySpec, SharedSpec, Shared!Spec

-----------------------------------------------------------------------------
(***************************************************************************)
(* CurlRequest for any callers, requests and times: types, and what a      *)
(* success means, how often a POST has its effect, and how long a call may *)
(* take.                                                                   *)
(***************************************************************************)
(* What is true of a call at each of its steps.                            *)
AtStep(k) ==
    /\ k.at \in Waiting => k.hops \in 1..MaxHops
    /\ k.at \in {"client", "do"} => k.runs = 0 /\ k.strays = 0 /\ k.age = 0
    /\ k.flying => k.at = "sent"
    /\ k.at = "sent" /\ ~k.flying => k.runs > 0
    /\ k.at = "reading" => k.runs > 0
    /\ k.result # "none" => k.at = "idle"

(* A success, as SuccessIsAnswered has it.                                 *)
Answers(k) == k.result = "ok" =>
                 /\ k.status = "ok" /\ k.left = 0
                 /\ k.runs > 0 /\ k.age <= k.limit /\ k.hops \in 1..MaxHops

(* A POST without a key that is about to be sent has left no copy behind.  *)
Once(k) == k.method = "POST" /\ ~k.raw.keyed =>
              /\ Copies(k) <= 1
              /\ k.at = "dial" \/ k.result = "dial" => Copies(k) = 0

(* The context was made with the seconds of the request, and ends in time. *)
Timed(k) ==
    /\ k.at # "idle" => k.limit = Duration(Seconds(k.raw))
    /\ k.at \in Waiting => k.age <= k.limit

(* As TimeKept has it.                                                     *)
KeptBy(k) == /\ k.raw.asks \in 1..(Overflow - 1) => Kept(k, k.raw.asks)
             /\ k.raw.asks = 0 /\ timeout \in 1..(Overflow - 1) => Kept(k, timeout)
             /\ k.raw.asks = 0 /\ timeout = 0 => Kept(k, DefaultTimeout)

Sound(k) == k \in Calls /\ AtStep(k) /\ Answers(k) /\ Once(k) /\ Timed(k) /\ KeptBy(k)

CurlIInv == CurlTypeOK /\ \A c \in Callers : Sound(call[c])

-----------------------------------------------------------------------------
(* Numbers of seconds that fit are kept as they are.                       *)
LEMMA DurationFits ==
    ASSUME NEW n \in 0..(Overflow - 1) PROVE Duration(n) = n
  BY TimesAssumption, SMTT(30) DEF Duration

(* Any number of seconds makes a duration.                                 *)
LEMMA DurationType ==
    ASSUME NEW n \in Nat PROVE Duration(n) \in Int
  BY TimesAssumption, SMTT(30) DEF Duration

(* A raw request asks for a number of seconds.                             *)
LEMMA SecondsType ==
    ASSUME CurlTypeOK, NEW raw \in Raws PROVE Seconds(raw) \in Nat
  BY RawsAssumption, TimesAssumption DEF CurlTypeOK, Seconds, RawRequests

(* A call that began is sound.                                             *)
LEMMA BegunSound ==
    ASSUME CurlTypeOK, NEW raw \in Raws
    PROVE  LET k == Begun(raw, Duration(Seconds(raw)))
           IN  Sound(k) /\ Sound(Over(k, "badRequest"))
  <1> DEFINE limit == Duration(Seconds(raw))
             k == Begun(raw, limit)
             o == Over(k, "badRequest")
  <1>1. limit \in Int /\ raw \in RawRequests
    BY DurationType, SecondsType, RawsAssumption
  <1>2. raw.method \in {"GET", "POST"} /\ raw.asks \in Nat
    BY <1>1 DEF RawRequests
  <1>3. timeout \in Nat /\ DefaultTimeout \in Nat
    BY TimesAssumption DEF CurlTypeOK
  <1> HIDE DEF limit
  <1>4. k \in Calls /\ o \in Calls
    BY <1>1, <1>2 DEF Begun, Over, Calls, Waiting, Results
  <1>5. AtStep(k) /\ AtStep(o) /\ Answers(k) /\ Answers(o) /\ Once(k) /\ Once(o)
    BY DEF Begun, Over, AtStep, Answers, Once, Copies, Waiting
  <1>6. Timed(k) /\ Timed(o)
    BY DEF Begun, Over, Timed, Waiting, limit
  <1>7. KeptBy(k) /\ KeptBy(o)
    BY <1>2, <1>3 DEF Begun, Over, KeptBy, Kept
  <1>8. QED
    BY <1>4, <1>5, <1>6, <1>7 DEF Sound, limit

(* A step that leaves one sound call where there was another.              *)
LEMMA BecomeSound ==
    ASSUME CurlIInv, NEW c \in Callers, NEW k, Sound(k), Become(c, k),
           UNCHANGED timeout, idle' \in 0..MaxIdle, (Client!TypeOK)'
    PROVE  CurlIInv'
  <1>1. call' = [call EXCEPT ![c] = k] /\ k \in Calls /\ call \in [Callers -> Calls]
    BY DEF Become, Sound, CurlIInv, CurlTypeOK
  <1>2. CurlTypeOK'
    BY <1>1 DEF CurlIInv, CurlTypeOK
  <1>3. ASSUME NEW d \in Callers PROVE Sound(call'[d])
    BY <1>1 DEF CurlIInv
  <1>4. ASSUME NEW d \in Callers PROVE Sound(call[d])'
    BY <1>3 DEF Sound, AtStep, Answers, Once, Timed, KeptBy, Kept, Seconds
  <1>5. QED
    BY <1>2, <1>4 DEF CurlIInv

(* Steps that do not touch the client.                                     *)
LEMMA SameClient == CurlIInv /\ UNCHANGED client => (Client!TypeOK)'
  BY DEF CurlIInv, CurlTypeOK, client, Client!TypeOK, Client!Answers

(* What is known of the call that an action is about.                      *)
LEMMA CallSound ==
    ASSUME CurlIInv, NEW c \in Callers
    PROVE  Sound(call[c]) /\ idle \in 0..MaxIdle /\ MaxIdle \in Nat /\ MaxHops \in Nat \ {0}
  BY BoundsAssumption DEF CurlIInv, CurlTypeOK

-----------------------------------------------------------------------------
(* The initial states satisfy the invariant.                               *)
LEMMA CurlInitInv == CurlInit => CurlIInv
  <1> SUFFICES ASSUME CurlInit PROVE CurlIInv
    OBVIOUS
  <1>1. PICK raw \in Raws : call = [c \in Callers |-> Over(Begun(raw, 0), "none")]
    BY DEF CurlInit
  <1> DEFINE k == Over(Begun(raw, 0), "none")
  <1>2. raw.method \in {"GET", "POST"} /\ raw.asks \in Nat
    BY <1>1, RawsAssumption DEF RawRequests
  <1>3. k \in Calls
    <2>1. Begun(raw, 0) \in Calls
      BY <1>1, <1>2 DEF Begun, Calls, Waiting, Results
    <2>2. QED
      BY <2>1 DEF Over, Calls, Results
  <1>4. AtStep(k) /\ Answers(k) /\ Once(k) /\ Timed(k)
    BY DEF Begun, Over, AtStep, Answers, Once, Copies, Timed, Waiting
  <1>5. KeptBy(k)
    <2>1. k.age = 0 /\ k.result = "none" /\ k.raw = raw
      BY DEF Begun, Over
    <2> HIDE DEF k
    <2>2. QED
      BY <1>2, <2>1, TimesAssumption DEF KeptBy, Kept, CurlInit
  <1>6. Sound(k)
    BY <1>3, <1>4, <1>5 DEF Sound
  <1> HIDE DEF k
  <1>7. CurlTypeOK
    BY <1>1, <1>3, BoundsAssumption
       DEF CurlInit, CurlTypeOK, Client!Init, Client!TypeOK, Client!Answers, k
  <1>8. QED
    BY <1>1, <1>6, <1>7 DEF CurlIInv, k

(* A call that begins, or whose raw request cannot be read.                *)
LEMMA StartStep == ASSUME CurlIInv, NEW c \in Callers, Start(c) PROVE CurlIInv'
  <1>1. PICK raw \in Raws :
           LET k == Begun(raw, Duration(Seconds(raw)))
           IN  Become(c, IF Readable(raw) THEN k ELSE Over(k, "badRequest"))
    BY DEF Start
  <1> DEFINE k == Begun(raw, Duration(Seconds(raw)))
  <1>2. Sound(k) /\ Sound(Over(k, "badRequest"))
    BY BegunSound DEF CurlIInv
  <1> HIDE DEF k
  <1>3. Sound(IF Readable(raw) THEN k ELSE Over(k, "badRequest"))
    BY <1>2
  <1>4. Become(c, IF Readable(raw) THEN k ELSE Over(k, "badRequest"))
    BY <1>1 DEF k
  <1>5. QED
    BY <1>3, <1>4, BecomeSound, SameClient, CallSound DEF Start

(* A call that ends without a success is sound.                            *)
LEMMA OverSound ==
    ASSUME NEW k \in Calls, KeptBy(k), ~k.flying,
           k.method = "POST" /\ ~k.raw.keyed => Copies(k) <= 1,
           NEW result \in Results \ {"ok", "deadline", "dial"}
    PROVE  Sound(Over(k, result))
  <1> DEFINE o == Over(k, result)
  <1>1. o \in Calls
    BY DEF Over, Calls
  <1>2. AtStep(o) /\ Answers(o) /\ Timed(o)
    BY DEF Over, AtStep, Answers, Timed, Calls, Waiting
  <1>3. Once(o)
    BY DEF Over, Once, Copies, Calls
  <1>4. KeptBy(o)
    BY DEF Over, KeptBy, Kept, Calls
  <1>5. QED
    BY <1>1, <1>2, <1>3, <1>4 DEF Sound

(* The same of a call of a caller.                                         *)
LEMMA FailedSound ==
    ASSUME CurlIInv, NEW c \in Callers, NEW result \in Results \ {"ok", "deadline", "dial"},
           ~call[c].flying
    PROVE  Sound(Over(call[c], result))
  BY CallSound, OverSound DEF Sound, Once

(* The client is handed out, or its making panicked.                       *)
LEMMA GetClientStep == ASSUME CurlIInv, NEW c \in Callers, GetClient(c) PROVE CurlIInv'
  <1>1. (Client!TypeOK)'
    BY DEF CurlIInv, CurlTypeOK, GetClient, Client!TypeOK, Client!Get, Client!Panic,
           Client!Answer, Client!Answers
  <1>2. idle' \in 0..MaxIdle /\ UNCHANGED timeout /\ ~call[c].flying
    BY CallSound DEF GetClient, Sound, AtStep
  <1>3. CASE Return(c, "panic")
    <2>1. Sound(Over(call[c], "panic"))
      BY <1>2, FailedSound DEF Results
    <2>2. QED
      BY <1>1, <1>2, <1>3, <2>1, BecomeSound DEF Return
  <1>4. CASE Become(c, [call[c] EXCEPT !.at = "do"])
    <2> DEFINE k == call[c]
               n == [k EXCEPT !.at = "do"]
    <2>1. Sound(k) /\ k.at = "client"
      BY CallSound DEF GetClient
    <2>2. n \in Calls
      BY <2>1 DEF Sound, Calls
    <2>3. AtStep(n) /\ Answers(n) /\ Timed(n)
      BY <2>1 DEF Sound, AtStep, Answers, Timed, Calls, Waiting
    <2>4. Once(n) /\ KeptBy(n)
      BY <2>1 DEF Sound, Once, Copies, KeptBy, Kept, Calls
    <2>5. Sound(n)
      BY <2>2, <2>3, <2>4 DEF Sound
    <2>6. QED
      BY <1>1, <1>2, <1>4, <2>5, BecomeSound
  <1>5. QED
    BY <1>3, <1>4 DEF GetClient

(* A request that goes out, as the first of its call, after a redirection, *)
(* or again: nothing of it is under way yet.                               *)
LEMMA SentSound ==
    ASSUME CurlIInv, NEW k \in Calls, Timed(k), KeptBy(k), k.result = "none",
           k.at # "idle", k.hops \in 1..MaxHops, k.age <= k.limit,
           ~k.flying, k.method = "POST" /\ ~k.raw.keyed => k.runs = 0 /\ k.strays = 0,
           NEW onIdle \in BOOLEAN
    PROVE  Sound(Sent(k, onIdle))
  <1> DEFINE n == Sent(k, onIdle)
  <1>1. n \in Calls
    BY DEF Sent, Calls, Waiting
  <1>2. /\ n.at = IF onIdle THEN "sent" ELSE "dial"
        /\ n.flying = onIdle /\ n.result = "none"
        /\ n.hops = k.hops /\ n.age = k.age /\ n.limit = k.limit /\ n.raw = k.raw
        /\ n.runs = k.runs /\ n.strays = k.strays /\ n.method = k.method
    BY DEF Sent, Calls
  <1> HIDE DEF n
  <1>3. AtStep(n) /\ Answers(n) /\ Timed(n)
    BY <1>2 DEF AtStep, Answers, Timed, Waiting
  <1>4. Once(n)
    BY <1>2 DEF Once, Copies
  <1>5. KeptBy(n)
    BY <1>2 DEF KeptBy, Kept
  <1>6. QED
    BY <1>1, <1>3, <1>4, <1>5 DEF Sound, n

(* The first request of a call.                                            *)
LEMMA DoStep == ASSUME CurlIInv, NEW c \in Callers, Do(c) PROVE CurlIInv'
  <1> DEFINE k == call[c]
  <1>1. Sound(k) /\ k.at = "do"
    BY CallSound DEF Do
  <1>2. ~k.flying /\ k.result = "none" /\ k.runs = 0 /\ k.strays = 0 /\ k.age = 0
    BY <1>1 DEF Sound, AtStep
  <1>3. (Client!TypeOK)' /\ UNCHANGED timeout
    BY SameClient DEF Do
  <1>4. CASE Return(c, "noScheme") /\ UNCHANGED idle
    <2>1. Sound(Over(k, "noScheme"))
      BY <1>2, FailedSound DEF Results
    <2>2. QED
      BY <1>3, <1>4, <2>1, BecomeSound, CallSound DEF Return
  <1>5. ASSUME ~Overdue(c), NEW onIdle \in BOOLEAN, onIdle => idle > 0,
               Become(c, Sent([call[c] EXCEPT !.hops = 1], onIdle)),
               idle' = IF onIdle THEN idle - 1 ELSE idle
        PROVE  CurlIInv'
    <2> DEFINE h == [k EXCEPT !.hops = 1]
    <2>1. h \in Calls
      BY <1>1 DEF Sound, Calls
    <2>2. Timed(h) /\ KeptBy(h)
      BY <1>1, <1>2 DEF Sound, AtStep, Answers, Timed, KeptBy, Kept, Calls, Waiting
    <2>3. /\ h.result = "none" /\ h.at # "idle" /\ h.hops \in 1..MaxHops
          /\ ~h.flying /\ h.runs = 0 /\ h.strays = 0
      BY <1>1, <1>2, CallSound DEF Sound, Calls
    <2>4. h.age <= h.limit
      BY <1>1, <1>2, <1>5 DEF Sound, Calls, Overdue
    <2> HIDE DEF h
    <2>5. Sound(Sent(h, onIdle))
      BY <2>1, <2>2, <2>3, <2>4, SentSound
    <2>6. idle' \in 0..MaxIdle
      BY <1>5, CallSound
    <2>7. QED
      BY <1>3, <1>5, <2>5, <2>6, BecomeSound DEF h
  <1>6. QED
    BY <1>4, <1>5 DEF Do

(* A step of call c that leaves client, connections and time alone.        *)
LEMMA CallStep ==
    ASSUME CurlIInv, NEW c \in Callers, NEW k, Sound(k), Become(c, k),
           UNCHANGED <<timeout, client, idle>>
    PROVE  CurlIInv'
  BY BecomeSound, SameClient, CallSound

(* A call with another value of one field is a call.                       *)
LEMMA Fields ==
    ASSUME NEW k \in Calls
    PROVE  /\ \A v \in Nat : [k EXCEPT !.runs = v] \in Calls
           /\ \A v \in Nat : [k EXCEPT !.strays = v] \in Calls
           /\ \A v \in Nat : [k EXCEPT !.left = v] \in Calls
           /\ \A v \in Nat : [k EXCEPT !.hops = v] \in Calls
           /\ \A v \in Nat : [k EXCEPT !.age = v] \in Calls
           /\ \A v \in Nat : [k EXCEPT !.dialled = v] \in Calls
           /\ \A v \in BOOLEAN : [k EXCEPT !.flying = v] \in Calls
           /\ \A v \in BOOLEAN : [k EXCEPT !.reused = v] \in Calls
           /\ \A v \in Waiting : [k EXCEPT !.at = v] \in Calls
           /\ \A v \in {"ok", "other"} : [k EXCEPT !.status = v] \in Calls
           /\ \A v \in {"GET", "POST"} : [k EXCEPT !.method = v] \in Calls
  BY DEF Calls

(* A connection is made, or not.                                           *)
LEMMA DialStep == ASSUME CurlIInv, NEW c \in Callers, Dialled(c) \/ DialFails(c) PROVE CurlIInv'
  <1> DEFINE k == call[c]
             n == [k EXCEPT !.at = "sent", !.flying = TRUE, !.dialled = 0]
             o == Over(k, "dial")
  <1>1. Sound(k) /\ k.at = "dial" /\ UNCHANGED <<timeout, client, idle>>
    BY CallSound DEF Dialled, DialFails
  <1>2. n \in Calls /\ o \in Calls
    BY <1>1 DEF Sound, Over, Calls, Waiting, Results
  <1>3. AtStep(n) /\ AtStep(o) /\ Answers(n) /\ Answers(o) /\ Timed(n) /\ Timed(o)
    BY <1>1 DEF Sound, Over, AtStep, Answers, Timed, Calls, Waiting
  <1>4. Once(n) /\ Once(o)
    BY <1>1 DEF Sound, Over, AtStep, Once, Copies, Calls
  <1>5. KeptBy(n) /\ KeptBy(o)
    BY <1>1 DEF Sound, Over, KeptBy, Kept, Calls
  <1>6. Sound(n) /\ Sound(o)
    BY <1>2, <1>3, <1>4, <1>5 DEF Sound
  <1>7. QED
    BY <1>1, <1>6, CallStep DEF Dialled, DialFails, Return

(* The server executes a request or a stray copy.                          *)
LEMMA ExecuteStep == ASSUME CurlIInv, NEW c \in Callers, Execute(c) PROVE CurlIInv'
  <1> DEFINE k == call[c]
             n == [k EXCEPT !.flying = FALSE, !.runs = @ + 1]
             s == [k EXCEPT !.strays = @ - 1, !.runs = @ + 1]
  <1>1. Sound(k) /\ UNCHANGED <<timeout, client, idle>>
    BY CallSound DEF Execute
  <1>2. k.runs \in Nat /\ k.strays \in Nat
    BY <1>1 DEF Sound, Calls
  <1>3. ASSUME k.flying PROVE Sound(n)
    <2>1. n \in Calls
      <3> DEFINE m == [k EXCEPT !.flying = FALSE]
      <3>1. m \in Calls /\ m.runs + 1 \in Nat
        <4>1. k \in Calls
          BY <1>1 DEF Sound
        <4>2. m \in Calls
          BY <4>1, Fields
        <4>3. QED
          BY <4>2 DEF Calls
      <3> HIDE DEF m
      <3>2. [m EXCEPT !.runs = m.runs + 1] \in Calls
        BY <3>1, Fields
      <3>3. QED
        BY <3>2 DEF m
    <2>2. AtStep(n) /\ Answers(n) /\ Timed(n)
      BY <1>1, <1>2, <1>3 DEF Sound, AtStep, Answers, Timed, Calls, Waiting
    <2>3. Once(n)
      BY <1>1, <1>2, <1>3 DEF Sound, Once, Copies, Calls
    <2>4. KeptBy(n)
      BY <1>1 DEF Sound, KeptBy, Kept, Calls
    <2>5. QED
      BY <2>1, <2>2, <2>3, <2>4 DEF Sound
  <1>4. ASSUME k.strays > 0 PROVE Sound(s)
    <2>1. s \in Calls
      <3> DEFINE m == [k EXCEPT !.strays = k.strays - 1]
      <3>1. m \in Calls /\ m.runs + 1 \in Nat
        <4>1. k \in Calls /\ k.strays - 1 \in Nat
          BY <1>1, <1>2, <1>4 DEF Sound
        <4>2. m \in Calls
          BY <4>1, Fields
        <4>3. QED
          BY <4>1, <4>2, <1>2 DEF Calls
      <3> HIDE DEF m
      <3>2. [m EXCEPT !.runs = m.runs + 1] \in Calls
        BY <3>1, Fields
      <3>3. QED
        BY <3>2 DEF m
    <2>2. AtStep(s) /\ Answers(s) /\ Timed(s)
      BY <1>1, <1>2, <1>4 DEF Sound, AtStep, Answers, Timed, Calls, Waiting
    <2>3. Once(s)
      BY <1>1, <1>2, <1>4 DEF Sound, Once, Copies, Calls
    <2>4. KeptBy(s)
      BY <1>1 DEF Sound, KeptBy, Kept, Calls
    <2>5. QED
      BY <2>1, <2>2, <2>3, <2>4 DEF Sound
  <1>5. QED
    BY <1>1, <1>3, <1>4, CallStep DEF Execute

(* The head of an answer.                                                  *)
LEMMA AnswerStep == ASSUME CurlIInv, NEW c \in Callers, Answer(c) PROVE CurlIInv'
  <1> DEFINE k == call[c]
  <1>1. Sound(k) /\ k.at = "sent" /\ ~k.flying /\ UNCHANGED <<timeout, client, idle>>
    BY CallSound DEF Answer, Answered
  <1>2. ASSUME NEW status \in {"ok", "other"}, NEW m \in 0..MaxChunks
        PROVE  Sound([k EXCEPT !.at = "reading", !.status = status, !.left = m, !.reused = FALSE])
    <2> m \in Nat
      BY BoundsAssumption
    <2> DEFINE n == [k EXCEPT !.at = "reading", !.status = status, !.left = m, !.reused = FALSE]
    <2>1. n \in Calls
      BY <1>1, m \in Nat, Fields DEF Sound, Waiting
    <2>2. AtStep(n) /\ Answers(n) /\ Timed(n)
      BY <1>1 DEF Sound, AtStep, Answers, Timed, Calls, Waiting
    <2>3. Once(n)
      BY <1>1 DEF Sound, Once, Copies, Calls
    <2>4. KeptBy(n)
      BY <1>1 DEF Sound, KeptBy, Kept, Calls
    <2>5. QED
      BY <2>1, <2>2, <2>3, <2>4 DEF Sound
  <1>3. QED
    BY <1>1, <1>2, CallStep DEF Answer

(* The next hop, or one too many.                                          *)
LEMMA RedirectStep == ASSUME CurlIInv, NEW c \in Callers, Redirect(c) PROVE CurlIInv'
  <1> DEFINE k == call[c]
  <1>1. Sound(k) /\ k.at = "sent" /\ ~k.flying /\ UNCHANGED <<timeout, client, idle>>
    BY CallSound DEF Redirect, Answered
  <1>2. CASE k.hops >= MaxHops
    <2>1. Sound(Over(k, "redirects"))
      BY <1>1, FailedSound DEF Results
    <2>2. QED
      BY <1>1, <1>2, <2>1, CallStep DEF Redirect, Return
  <1>3. CASE ~(k.hops >= MaxHops)
    <2> SUFFICES ASSUME NEW method \in {"GET", k.method}, NEW onIdle \in BOOLEAN
                 PROVE  Sound(Sent([k EXCEPT !.hops = @ + 1, !.method = method,
                                             !.runs = 0, !.strays = 0], onIdle))
      BY <1>1, <1>3, CallStep DEF Redirect
    <2> DEFINE h == [k EXCEPT !.hops = @ + 1, !.method = method, !.runs = 0, !.strays = 0]
    <2>1. h \in Calls
      <3>1. k \in Calls /\ k.hops + 1 \in Nat /\ method \in {"GET", "POST"}
        BY <1>1 DEF Sound, Calls
      <3>2. QED
        BY <3>1, Fields
    <2>2. k.hops \in 1..MaxHops /\ k.result = "none" /\ k.age <= k.limit
      BY <1>1 DEF Sound, AtStep, Timed, Waiting
    <2>3. /\ h.at = "sent" /\ h.result = "none" /\ h.hops = k.hops + 1 /\ ~h.flying
          /\ h.runs = 0 /\ h.strays = 0 /\ h.age = k.age /\ h.limit = k.limit /\ h.raw = k.raw
      BY <1>1, <2>2 DEF Sound, Calls
    <2> HIDE DEF h
    <2>4. h.hops \in 1..MaxHops /\ h.age <= h.limit
      BY <1>3, <2>2, <2>3, CallSound
    <2>5. Answers(h) /\ Timed(h)
      BY <1>1, <2>3 DEF Sound, Answers, Timed, Waiting
    <2>6. KeptBy(h)
      BY <1>1, <2>2, <2>3 DEF Sound, KeptBy, Kept
    <2>7. QED
      BY <2>1, <2>3, <2>4, <2>5, <2>6, SentSound DEF h
  <1>4. QED
    BY <1>2, <1>3

(* The connection breaks before the answer.                                *)
LEMMA BreakStep == ASSUME CurlIInv, NEW c \in Callers, Break(c) PROVE CurlIInv'
  <1> DEFINE k == call[c]
  <1>1. Sound(k) /\ k.at = "sent" /\ UNCHANGED <<timeout, client, idle>>
    BY CallSound DEF Break
  <1>2. PICK written \in BOOLEAN :
          /\ k.flying \/ written
          /\ LET lost == [k EXCEPT !.flying = FALSE,
                                   !.strays = IF k.flying /\ written THEN @ + 1 ELSE @]
             IN  IF k.reused /\ (Replayable(k) \/ ~written)
                 THEN Become(c, Sent(lost, FALSE))
                 ELSE Become(c, Over(lost, "broken"))
    BY DEF Break
  <1> DEFINE lost == [k EXCEPT !.flying = FALSE,
                               !.strays = IF k.flying /\ written THEN @ + 1 ELSE @]
  <1>3. /\ k.hops \in 1..MaxHops /\ k.result = "none" /\ k.age <= k.limit
        /\ k.runs \in Nat /\ k.strays \in Nat /\ k.flying \in BOOLEAN
    BY <1>1 DEF Sound, AtStep, Timed, Waiting, Calls
  <1>4. lost \in Calls
    <2> DEFINE m == [k EXCEPT !.flying = FALSE]
    <2>1. m \in Calls /\ m.strays = k.strays
      <3>1. k \in Calls
        BY <1>1 DEF Sound
      <3>2. m \in Calls
        BY <3>1, Fields
      <3>3. QED
        BY <3>1, <3>2 DEF Calls
    <2> HIDE DEF m
    <2>2. (IF k.flying /\ written THEN m.strays + 1 ELSE m.strays) \in Nat
      BY <1>3, <2>1
    <2>3. [m EXCEPT !.strays = IF k.flying /\ written THEN m.strays + 1 ELSE m.strays] \in Calls
      BY <2>1, <2>2, Fields
    <2>4. QED
      BY <2>3 DEF m
  <1>5. /\ lost.at = "sent" /\ lost.result = "none" /\ ~lost.flying
        /\ lost.hops = k.hops /\ lost.age = k.age /\ lost.limit = k.limit /\ lost.raw = k.raw
        /\ lost.runs = k.runs /\ lost.method = k.method
        /\ lost.strays = IF k.flying /\ written THEN k.strays + 1 ELSE k.strays
    <2>1. k \in Calls
      BY <1>1 DEF Sound
    <2>2. QED
      BY <1>1, <1>3, <2>1 DEF Calls
  <1> HIDE DEF lost
  <1>6. Timed(lost) /\ KeptBy(lost)
    BY <1>1, <1>3, <1>5 DEF Sound, Timed, KeptBy, Kept, Waiting
  <1>7. k.method = "POST" /\ ~k.raw.keyed => k.runs + k.strays + (IF k.flying THEN 1 ELSE 0) <= 1
    BY <1>1 DEF Sound, Once, Copies
  <1>8. ASSUME Replayable(k) \/ ~written PROVE Sound(Sent(lost, FALSE))
    <2>1. lost.method = "POST" /\ ~lost.raw.keyed => lost.runs = 0 /\ lost.strays = 0
      BY <1>2, <1>3, <1>5, <1>7, <1>8 DEF Replayable
    <2>2. QED
      BY <1>1, <1>3, <1>4, <1>5, <1>6, <2>1, SentSound
  <1>9. Sound(Over(lost, "broken"))
    <2>1. lost.method = "POST" /\ ~lost.raw.keyed => Copies(lost) <= 1
      BY <1>3, <1>5, <1>7 DEF Copies
    <2>2. QED
      BY <1>4, <1>5, <1>6, <2>1, OverSound DEF Results
  <1>10. QED
    BY <1>1, <1>2, <1>8, <1>9, CallStep DEF lost

(* A chunk of the body, or a connection that breaks before it.             *)
LEMMA ReadStep ==
    ASSUME CurlIInv, NEW c \in Callers, BreakReading(c) \/ ReadChunk(c) PROVE CurlIInv'
  <1> DEFINE k == call[c]
  <1>1. Sound(k) /\ k.at = "reading" /\ k.left > 0 /\ UNCHANGED <<timeout, client, idle>>
    BY CallSound DEF BreakReading, ReadChunk
  <1>2. CASE BreakReading(c)
    <2>1. Sound(Over(k, "broken"))
      BY <1>1, FailedSound DEF Sound, AtStep, Results
    <2>2. QED
      BY <1>1, <1>2, <2>1, CallStep DEF BreakReading, Return
  <1>3. CASE ReadChunk(c)
    <2> DEFINE n == [k EXCEPT !.left = k.left - 1]
    <2>1. n \in Calls
      <3>1. k \in Calls /\ k.left - 1 \in Nat
        BY <1>1 DEF Sound, Calls
      <3>2. QED
        BY <3>1, Fields
    <2>2. AtStep(n) /\ Answers(n) /\ Timed(n)
      BY <1>1 DEF Sound, AtStep, Answers, Timed, Calls, Waiting
    <2>3. Once(n) /\ KeptBy(n)
      BY <1>1 DEF Sound, Once, Copies, KeptBy, Kept, Calls
    <2>4. Sound(n)
      BY <2>1, <2>2, <2>3 DEF Sound
    <2>5. QED
      BY <1>1, <1>3, <2>4, CallStep DEF ReadChunk
  <1>4. QED
    BY <1>2, <1>3

(* The body is read.                                                       *)
LEMMA FinishStep == ASSUME CurlIInv, NEW c \in Callers, Finish(c) PROVE CurlIInv'
  <1> DEFINE k == call[c]
             o == Over(k, "ok")
  <1>1. /\ Sound(k) /\ k.at = "reading" /\ k.left = 0 /\ ~k.flying
        /\ UNCHANGED <<timeout, client>> /\ idle' \in 0..MaxIdle /\ (Client!TypeOK)'
    BY CallSound, SameClient DEF Finish, Sound, AtStep
  <1>2. Sound(Over(k, "status"))
    BY <1>1, FailedSound DEF Results
  <1>3. ASSUME k.status = "ok" PROVE Sound(o)
    <2>1. o \in Calls
      BY <1>1 DEF Sound, Over, Calls, Results
    <2>2. AtStep(o) /\ Answers(o) /\ Timed(o)
      BY <1>1, <1>3 DEF Sound, Over, AtStep, Answers, Timed, Calls, Waiting
    <2>3. Once(o) /\ KeptBy(o)
      BY <1>1 DEF Sound, Over, Once, Copies, KeptBy, Kept, Calls
    <2>4. QED
      BY <2>1, <2>2, <2>3 DEF Sound
  <1> HIDE DEF o
  <1>4. Sound(Over(k, IF k.status = "ok" THEN "ok" ELSE "status"))
    BY <1>2, <1>3 DEF o
  <1>5. QED
    BY <1>1, <1>4, BecomeSound DEF Finish, Return

(* The context ends.                                                       *)
LEMMA DeadlineStep == ASSUME CurlIInv, NEW c \in Callers, Deadline(c) PROVE CurlIInv'
  <1> DEFINE k == call[c]
             o == [Over(k, "deadline") EXCEPT
                     !.flying = FALSE, !.strays = IF k.flying THEN @ + 1 ELSE @]
  <1>1. /\ Sound(k) /\ k.at \in Waiting \cup {"do"} /\ k.age >= k.limit
        /\ Become(c, o) /\ UNCHANGED <<timeout, client, idle>>
    BY CallSound DEF Deadline, Overdue
  <1>2. o \in Calls
    <2> DEFINE m == [Over(k, "deadline") EXCEPT !.flying = FALSE]
    <2>1. Over(k, "deadline") \in Calls
      BY <1>1 DEF Sound, Over, Calls, Results
    <2>2. m \in Calls
      BY <2>1, Fields
    <2> HIDE DEF m
    <2>3. (IF k.flying THEN m.strays + 1 ELSE m.strays) \in Nat
      BY <2>2 DEF Calls
    <2>4. [m EXCEPT !.strays = IF k.flying THEN m.strays + 1 ELSE m.strays] \in Calls
      BY <2>2, <2>3, Fields
    <2>5. QED
      BY <2>4 DEF m
  <1>3. /\ o.at = "idle" /\ o.result = "deadline" /\ ~o.flying /\ o.age = k.age /\ o.raw = k.raw
        /\ o.runs = k.runs /\ o.method = k.method
        /\ o.strays = IF k.flying THEN k.strays + 1 ELSE k.strays
    BY <1>1 DEF Sound, Over, Calls
  <1> HIDE DEF o
  <1>4. AtStep(o) /\ Answers(o) /\ Timed(o)
    BY <1>3 DEF AtStep, Answers, Timed, Waiting
  <1>5. Once(o)
    <2>1. k.runs \in Nat /\ k.strays \in Nat /\ k.flying \in BOOLEAN
      BY <1>1 DEF Sound, Calls
    <2>2. QED
      BY <1>1, <1>3, <2>1 DEF Sound, Once, Copies
  <1>6. KeptBy(o)
    <2>1. k.limit = Duration(Seconds(k.raw)) /\ (k.age <= k.limit \/ k.age = 0)
      BY <1>1 DEF Sound, Timed, AtStep, Waiting
    <2>2. /\ timeout \in Nat /\ DefaultTimeout \in 1..(Overflow - 1)
          /\ k.raw.asks \in Nat /\ k.age \in Nat /\ Overflow \in Nat
      BY <1>1, TimesAssumption, RawsAssumption DEF CurlIInv, CurlTypeOK, Sound, Calls, RawRequests
    <2>3. ASSUME NEW n \in 1..(Overflow - 1), Seconds(k.raw) = n PROVE k.age = n
      <3>1. k.limit = n
        BY <2>1, <2>2, <2>3, DurationFits
      <3>2. QED
        BY <1>1, <2>1, <2>2, <2>3, <3>1
    <2>4. QED
      BY <1>3, <2>2, <2>3 DEF KeptBy, Kept, Seconds
  <1>7. Sound(o)
    BY <1>2, <1>4, <1>5, <1>6 DEF Sound
  <1>8. QED
    BY <1>1, <1>7, CallStep

(* A second passes for every call that is under way.                       *)
LEMMA TickStep == CurlIInv /\ Tick => CurlIInv'
  <1> SUFFICES ASSUME CurlIInv, Tick PROVE CurlIInv'
    OBVIOUS
  <1>1. UNCHANGED <<timeout, client, idle>> /\ (Client!TypeOK)'
    BY SameClient DEF Tick
  <1> DEFINE Later(k) == [k EXCEPT !.age = @ + 1, !.dialled = IF k.at = "dial" THEN @ + 1 ELSE @]
  <1>2. ASSUME NEW c \in Callers PROVE Sound(call'[c])
    <2> DEFINE k == call[c]
               n == Later(k)
    <2>1. Sound(k) /\ k \in Calls
      BY CallSound DEF Sound
    <2>2. call'[c] = IF k.at = "idle" THEN k ELSE n
      BY DEF Tick
    <2>3. ASSUME k.at # "idle" PROVE Sound(n)
      <3>1. k.at \in Waiting /\ k.age < k.limit
        <4>1. k.age \in Nat /\ k.limit \in Int
          BY <2>1 DEF Calls
        <4>2. k.at \in Waiting /\ ~Overdue(c)
          BY <2>3 DEF Tick
        <4>3. QED
          BY <4>1, <4>2 DEF Overdue
      <3>2. n \in Calls
        <4> DEFINE m == [k EXCEPT !.age = k.age + 1]
        <4>1. k.age + 1 \in Nat
          BY <2>1 DEF Calls
        <4>2. m \in Calls
          BY <2>1, <4>1, Fields
        <4> HIDE DEF m
        <4>3. (IF k.at = "dial" THEN m.dialled + 1 ELSE m.dialled) \in Nat
          BY <4>2 DEF Calls
        <4>4. [m EXCEPT !.dialled = IF k.at = "dial" THEN m.dialled + 1 ELSE m.dialled] \in Calls
          BY <4>2, <4>3, Fields
        <4>5. QED
          BY <4>4 DEF m
      <3>3. /\ n.age = k.age + 1 /\ n.at = k.at /\ n.limit = k.limit /\ n.raw = k.raw
            /\ n.hops = k.hops /\ n.flying = k.flying /\ n.runs = k.runs
            /\ n.strays = k.strays /\ n.method = k.method /\ n.result = k.result
        BY <2>1 DEF Calls
      <3> HIDE DEF n
      <3>4. k.age \in Nat /\ k.limit \in Int /\ k.result = "none"
        BY <2>1, <3>1 DEF Sound, AtStep, Calls, Waiting
      <3>5. AtStep(n) /\ Answers(n) /\ Timed(n)
        BY <2>1, <3>1, <3>3, <3>4 DEF Sound, AtStep, Answers, Timed, Waiting
      <3>6. Once(n)
        BY <2>1, <3>3 DEF Sound, Once, Copies
      <3>7. KeptBy(n)
        <4>1. /\ timeout \in Nat /\ DefaultTimeout \in 1..(Overflow - 1)
              /\ k.raw.asks \in Nat /\ Overflow \in Nat
          BY <2>1, TimesAssumption, RawsAssumption DEF CurlIInv, CurlTypeOK, Calls, RawRequests
        <4>2. ASSUME NEW s \in 1..(Overflow - 1), Seconds(k.raw) = s PROVE n.age <= s
          <5>1. k.limit = s
            BY <2>1, <2>3, <4>1, <4>2, DurationFits DEF Sound, Timed
          <5>2. QED
            BY <3>1, <3>3, <3>4, <5>1
        <4>3. QED
          BY <3>3, <3>4, <4>1, <4>2 DEF KeptBy, Kept, Seconds
      <3>8. QED
        BY <3>2, <3>5, <3>6, <3>7 DEF Sound
    <2> HIDE DEF n
    <2>4. QED
      BY <2>1, <2>2, <2>3
  <1>3. call' \in [Callers -> Calls]
    <2>1. call' = [c \in Callers |-> IF call[c].at = "idle" THEN call[c] ELSE Later(call[c])]
      BY DEF Tick
    <2> HIDE DEF Later
    <2>2. call' = [c \in Callers |-> call'[c]]
      BY <2>1
    <2>3. QED
      BY <1>2, <2>2 DEF Sound
  <1>4. ASSUME NEW c \in Callers PROVE Sound(call[c])'
    BY <1>1, <1>2 DEF Sound, AtStep, Answers, Once, Timed, KeptBy, Kept, Seconds
  <1>5. CurlTypeOK'
    BY <1>1, <1>3 DEF CurlIInv, CurlTypeOK
  <1>6. QED
    BY <1>4, <1>5 DEF CurlIInv

(* The client is built, or a connection that waits is closed.              *)
LEMMA QuietStep == CurlIInv /\ (BuildClient \/ CloseIdle \/ UNCHANGED curlVars) => CurlIInv'
  <1> SUFFICES ASSUME CurlIInv, BuildClient \/ CloseIdle \/ UNCHANGED curlVars PROVE CurlIInv'
    OBVIOUS
  <1>1. UNCHANGED <<timeout, call>>
    BY DEF BuildClient, CloseIdle, curlVars
  <1>2. (Client!TypeOK)'
    BY DEF CurlIInv, CurlTypeOK, BuildClient, CloseIdle, curlVars, client, Client!Settle, Client!TypeOK
  <1>3. idle' \in 0..MaxIdle
    BY BoundsAssumption DEF CurlIInv, CurlTypeOK, BuildClient, CloseIdle, curlVars
  <1>4. ASSUME NEW c \in Callers PROVE Sound(call[c])'
    BY <1>1 DEF CurlIInv, Sound, AtStep, Answers, Once, Timed, KeptBy, Kept, Seconds
  <1>5. QED
    BY <1>1, <1>2, <1>3, <1>4 DEF CurlIInv, CurlTypeOK

(* Every step keeps the invariant.                                         *)
LEMMA CurlNextInv == CurlIInv /\ [CurlNext]_curlVars => CurlIInv'
  <1> SUFFICES ASSUME CurlIInv, [CurlNext]_curlVars PROVE CurlIInv'
    OBVIOUS
  <1>1. ASSUME NEW c \in Callers, Run(c) PROVE CurlIInv'
    BY <1>1, GetClientStep, DoStep, DeadlineStep, DialStep DEF Run
  <1>2. ASSUME NEW c \in Callers, Network(c) PROVE CurlIInv'
    BY <1>2, DialStep, ExecuteStep, AnswerStep, RedirectStep, BreakStep, ReadStep, FinishStep
       DEF Network
  <1>3. QED
    BY <1>1, <1>2, StartStep, TickStep, QuietStep DEF CurlNext

(* The invariant holds of every state.                                     *)
THEOREM Correct == CurlSpec => []CurlIInv
  BY CurlInitInv, CurlNextInv, PTL DEF CurlSpec

(* Types: for any callers, requests and bounds.                            *)
THEOREM CurlTypes == CurlSpec => []CurlTypeOK
  <1>1. CurlIInv => CurlTypeOK
    BY DEF CurlIInv
  <1>2. QED
    BY <1>1, Correct, PTL

(* CURlProvider reports a success only for an answer that was given, with  *)
(* status 200, and read to its end in time, whatever connections do.       *)
THEOREM SuccessIsAnsweredHolds == CurlSpec => []SuccessIsAnswered
  <1>1. CurlIInv => SuccessIsAnswered
    BY DEF CurlIInv, Sound, Answers, SuccessIsAnswered
  <1>2. QED
    BY <1>1, Correct, PTL

(* A POST is executed once at most, for any number of connections,         *)
(* redirections and repetitions.                                           *)
THEOREM PostOnceHolds == CurlSpec => []PostOnce
  <1>1. CurlIInv => PostOnce
    BY DEF CurlIInv, Sound, Once, PostOnce
  <1>2. QED
    BY <1>1, Correct, PTL

(* A call keeps to the seconds it asks for, for any seconds that a         *)
(* time.Duration can hold.                                                 *)
THEOREM TimeKeptHolds == CurlSpec => []TimeKept
  <1>1. CurlIInv => TimeKept
    BY DEF CurlIInv, Sound, KeptBy, TimeKept
  <1>2. QED
    BY <1>1, Correct, PTL
=============================================================================
