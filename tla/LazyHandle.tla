----------------------------- MODULE LazyHandle -----------------------------
(***************************************************************************)
(* The lazily opened connection of a provider: DBExecProvider.GetDb with   *)
(* db and dbOnce, CURLExecProvider.GetClient with client and clinetOnce,   *)
(* and the two GetSource methods.  Procs are the goroutines that render    *)
(* templates concurrently and share one provider.  One action is one       *)
(* access to shared memory or one step of sync.Once.                       *)
(***************************************************************************)
EXTENDS Integers

CONSTANTS Procs,       \* goroutines that use the provider
          NoProc,      \* nobody holds the mutex of the sync.Once
          RequiresDSN  \* TRUE: GetDb, which checks the DSN; FALSE: GetClient

ASSUME NoProcAssumption == NoProc \notin Procs
ASSUME RequiresDSNAssumption == RequiresDSN \in BOOLEAN

VARIABLES config,      \* the DSN or the proxy URL of Config
          handle,      \* p.db or p.client; NoHandle is nil
          opens,       \* how many handles were ever opened
          onceDone,    \* the done flag of the sync.Once
          onceHolder,  \* who holds the mutex of the sync.Once
          pc,          \* where each goroutine is in the call
          answer       \* what its latest call came back with

lazyVars == <<config, handle, opens, onceDone, onceHolder, pc, answer>>

NoHandle == 0

(* "bad" is a DSN the driver rejects or a proxy URL that does not parse.   *)
Configs == IF RequiresDSN THEN {"empty", "bad", "good"} ELSE {"bad", "good"}

Steps == {"idle", "check", "fast", "lock", "recheck", "open", "assign",
          "done", "doneFailed", "unlock", "unlockFailed", "load"}

Replies == [how : {"none", "value", "refused", "panicked", "source"},
            handle : Nat]

Reply(how, h) == [how |-> how, handle |-> h]

LazyTypeOK == /\ config \in Configs
              /\ handle \in Nat
              /\ opens \in Nat
              /\ onceDone \in BOOLEAN
              /\ onceHolder \in Procs \cup {NoProc}
              /\ pc \in [Procs -> Steps]
              /\ answer \in [Procs -> Replies]

(* A provider as MakeExecProvider builds it: no handle, a fresh Once.      *)
LazyInit == /\ config \in Configs
            /\ handle = NoHandle
            /\ opens = 0
            /\ onceDone = FALSE
            /\ onceHolder = NoProc
            /\ pc = [p \in Procs |-> "idle"]
            /\ answer = [p \in Procs |-> Reply("none", NoHandle)]

-----------------------------------------------------------------------------
Goto(p, from, to) == pc[p] = from /\ pc' = [pc EXCEPT ![p] = to]

Give(p, reply) == answer' = [answer EXCEPT ![p] = reply]

once == <<onceDone, onceHolder>>

(* A goroutine calls GetDb or GetClient.                                   *)
Call(p) == /\ Goto(p, "idle", "check")
           /\ Give(p, Reply("none", NoHandle))
           /\ UNCHANGED <<config, handle, opens, once>>

(* Mutant: the handle is opened without the Once.                          *)
CheckHandleNoOnce(p) ==
    /\ \/ handle # NoHandle /\ Goto(p, "check", "load")
       \/ /\ handle = NoHandle
          /\ ~(RequiresDSN /\ config = "empty")
          /\ Goto(p, "check", "open")
    /\ UNCHANGED <<config, handle, opens, once, answer>>

(* Mutant: the test is for an initialisation that began.                   *)
CheckHandleBegun(p) ==
    /\ \/ opens > 0 /\ Goto(p, "check", "load")
       \/ /\ opens = 0
          /\ ~(RequiresDSN /\ config = "empty")
          /\ Goto(p, "check", "fast")
    /\ UNCHANGED <<config, handle, opens, once, answer>>

(* The unsynchronised test of the handle.                                  *)
CheckHandle(p) ==
    /\ \/ handle # NoHandle /\ Goto(p, "check", "load")
       \/ /\ handle = NoHandle
          /\ ~(RequiresDSN /\ config = "empty")
          /\ Goto(p, "check", "fast")
    /\ UNCHANGED <<config, handle, opens, once, answer>>

(* No handle and no DSN: GetDb panics before it reaches the Once.          *)
RefuseConfig(p) ==
    /\ handle = NoHandle
    /\ RequiresDSN /\ config = "empty"
    /\ Goto(p, "check", "idle")
    /\ Give(p, Reply("refused", NoHandle))
    /\ UNCHANGED <<config, handle, opens, once>>

(* Once.Do, fast path: an atomic load of done.                             *)
OnceFast(p) == /\ Goto(p, "fast", IF onceDone THEN "load" ELSE "lock")
               /\ UNCHANGED <<config, handle, opens, once, answer>>

(* Once.Do, slow path: take the mutex ...                                  *)
OnceLock(p) == /\ onceHolder = NoProc
               /\ Goto(p, "lock", "recheck")
               /\ onceHolder' = p
               /\ UNCHANGED <<config, handle, opens, onceDone, answer>>

(* ... and test done again under it.                                       *)
OnceRecheck(p) == /\ Goto(p, "recheck", IF onceDone THEN "unlock" ELSE "open")
                  /\ UNCHANGED <<config, handle, opens, once, answer>>

(* Mutant: the initialiser asks the provider for its handle.               *)
OpenReentrant(p) == /\ config = "good"
                    /\ Goto(p, "open", "lock")
                    /\ UNCHANGED <<config, handle, opens, once, answer>>

(* The initialiser: sql.Open or InitHTTPClient succeeds ...                *)
OpenHandle(p) == /\ config = "good"
                 /\ Goto(p, "open", "assign")
                 /\ opens' = opens + 1
                 /\ UNCHANGED <<config, handle, once, answer>>

(* ... and the closure stores the new handle in the provider, ...          *)
AssignHandle(p) == /\ Goto(p, "assign", "done")
                   /\ handle' = opens
                   /\ UNCHANGED <<config, opens, once, answer>>

(* ... or it panics, and only the deferred calls of Once.Do still run.     *)
OpenPanics(p) == /\ config # "good"
                 /\ Goto(p, "open", "doneFailed")
                 /\ UNCHANGED <<config, handle, opens, once, answer>>

(* defer o.done.Store(1): it runs on the panic path as well.               *)
OnceDone(p) == /\ \/ Goto(p, "done", "unlock")
                  \/ Goto(p, "doneFailed", "unlockFailed")
               /\ onceDone' = TRUE
               /\ UNCHANGED <<config, handle, opens, onceHolder, answer>>

(* defer o.m.Unlock()                                                      *)
OnceUnlock(p) == /\ Goto(p, "unlock", "load")
                 /\ onceHolder' = NoProc
                 /\ UNCHANGED <<config, handle, opens, onceDone, answer>>

(* The same on the panic path, where the panic then leaves GetDb.          *)
OnceUnlockPanicking(p) ==
    /\ Goto(p, "unlockFailed", "idle")
    /\ onceHolder' = NoProc
    /\ Give(p, Reply("panicked", NoHandle))
    /\ UNCHANGED <<config, handle, opens, onceDone>>

(* Mutant: nil is returned as if it were a kind of reply of its own.       *)
LoadNilKind(p) == /\ Goto(p, "load", "idle")
                  /\ Give(p, Reply(IF handle = NoHandle THEN "nil" ELSE "value", handle))
                  /\ UNCHANGED <<config, handle, opens, once>>

(* return p.db: a second, unsynchronised read of the handle.               *)
LoadHandle(p) == /\ Goto(p, "load", "idle")
                 /\ Give(p, Reply("value", handle))
                 /\ UNCHANGED <<config, handle, opens, once>>

(* GetSource returns the field as it is and never opens anything.          *)
GetSource(p) == /\ Goto(p, "idle", "idle")
                /\ Give(p, Reply("source", handle))
                /\ UNCHANGED <<config, handle, opens, once>>

(* Config is an exported field: its owner may repair it between calls.     *)
Reconfigure == /\ \A p \in Procs : pc[p] = "idle"
               /\ config' \in Configs
               /\ UNCHANGED <<handle, opens, once, pc, answer>>

Proceed(p) == \/ CheckHandle(p)  \/ RefuseConfig(p) \/ OnceFast(p)
              \/ OnceLock(p)     \/ OnceRecheck(p)  \/ OpenHandle(p)
              \/ AssignHandle(p) \/ OpenPanics(p)   \/ OnceDone(p)
              \/ OnceUnlock(p)   \/ OnceUnlockPanicking(p) \/ LoadHandle(p)

LazyNext == \/ \E p \in Procs : Call(p) \/ Proceed(p) \/ GetSource(p)
            \/ Reconfigure

LazySpec == LazyInit /\ [][LazyNext]_lazyVars

(* Every goroutine inside a call keeps running, as the Go scheduler does.  *)
LazyFairSpec == LazySpec /\ \A p \in Procs : WF_lazyVars(Proceed(p))

-----------------------------------------------------------------------------
(* One provider opens one handle, however many goroutines meet in the      *)
(* first GetDb or GetClient ("GetDb is a signal DB").                      *)
SingleOpen == opens <= 1

(* Callers agree: whoever was given a handle was given the provider's, and *)
(* nobody was given nil by a provider that has one, even by overtaking the *)
(* goroutine that is still inside Once.Do.                                 *)
CallersAgree ==
    \A p \in Procs : answer[p].how = "value" => answer[p].handle = handle

(* A failed initialisation is permanent: once a caller saw it panic, no    *)
(* step gives the provider a handle, not even after Config was repaired,   *)
(* because the Once counts a panicking initialiser as done.                *)
FailureIsPermanent ==
    [][(\E p \in Procs : answer[p].how = "panicked") => handle' = handle]_lazyVars

(* No call of GetDb or GetClient hangs, whoever panics inside the Once.    *)
GetsReturn == \A p \in Procs : pc[p] # "idle" ~> pc[p] = "idle"

(* The provider behaves as a cell that is settled once.                    *)
AbstractAnswer(a) ==
    CASE a.how = "value"  -> IF a.handle = NoHandle THEN "nil" ELSE "handle"
      [] a.how = "source" -> IF a.handle = NoHandle THEN "sourceNil"
                                                    ELSE "sourceHandle"
      [] OTHER            -> a.how

Shared == INSTANCE SharedHandle WITH
    cell   <- IF handle # NoHandle THEN "open"
              ELSE IF onceDone THEN "failed" ELSE "unset",
    answer <- [p \in Procs |-> AbstractAnswer(answer[p])]

SharedSpec == Shared!Spec
=============================================================================
