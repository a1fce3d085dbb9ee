----------------------------- MODULE CurlRequest -----------------------------
(***************************************************************************)
(* The CURL provider at work: CURlProvider reads a raw request, asks for   *)
(* the client, and waits for the answer under a deadline.  Callers are the *)
(* goroutines that render templates and share the provider.  Getting the   *)
(* client is SharedHandle, which LazyHandle implements.  What net/http,    *)
(* the network and the server do is modelled as the provider sees it:      *)
(* connections are kept for reuse, requests are redirected and repeated,   *)
(* answers come late, in part, or never.  Time passes in seconds.          *)
(***************************************************************************)
EXTENDS Integers

CONSTANTS Callers,        \* goroutines that execute CURL templates
          Raws,           \* raw requests that templates render
          Timeouts,       \* values of Config.Timeout to try
          DefaultTimeout, \* seconds for a call when nothing else is said: 30
          DialTimeout,    \* seconds for a connection to be made: 10
          Overflow,       \* seconds that no longer fit into a time.Duration
          MaxHops,        \* requests in a call with redirections: 10
          MaxIdle,        \* connections kept for reuse
          MaxChunks       \* bound: chunks in the body of an answer

NoLength == -1

(* A raw request: blank or not; with a URL or only a path after the        *)
(* method; a body; the Content-Length it declares; whether its header has  *)
(* an Idempotency-Key, or one with X-; and the seconds its x-http-timeout  *)
(* asks for, 0 where there is none or Atoi makes none of it.               *)
RawRequests == [blank : BOOLEAN, target : {"url", "path"}, method : {"GET", "POST"},
                body : Nat, declared : Nat \cup {NoLength}, keyed : BOOLEAN, asks : Nat]

ASSUME RawsAssumption == Raws \subseteq RawRequests
ASSUME TimesAssumption == /\ Timeouts \subseteq Nat
                          /\ {DefaultTimeout, DialTimeout, Overflow} \subseteq Nat \ {0}
                          /\ DefaultTimeout < Overflow
ASSUME BoundsAssumption == MaxHops \in Nat \ {0} /\ {MaxIdle, MaxChunks} \subseteq Nat

VARIABLES timeout, \* Config.Timeout
          cell,    \* the client: "unset", "open" or "failed"
          got,     \* what GetClient last gave each caller
          call,    \* the call each caller is in, or its latest
          idle     \* connections that wait for reuse

client == <<cell, got>>
curlVars   == <<timeout, client, call, idle>>

Client == INSTANCE SharedHandle WITH Procs <- Callers, answer <- got

Results == {"none", "ok", "badRequest", "panic", "noScheme", "dial", "deadline",
            "broken", "redirects", "status"}

Waiting == {"dial", "sent", "reading"}

(* at: the step of the call; limit: the time its context allows; age:      *)
(* seconds since the context was made, dialled: since it began to dial;    *)
(* reused: its connection is not a fresh one; method, hops: of the request *)
(* that a redirection led to; flying: the request has not come to the      *)
(* server yet; strays: copies of it that nobody waits for; runs: how often *)
(* the server executed it (history); status, left: the answer, and the     *)
(* chunks of its body to come.                                             *)
Calls == [at : {"idle", "client", "do"} \cup Waiting, raw : Raws,
          limit : Int, age : Nat, dialled : Nat, reused : BOOLEAN,
          method : {"GET", "POST"}, hops : Nat,
          flying : BOOLEAN, strays : Nat, runs : Nat,
          status : {"none", "ok", "other"}, left : Nat, result : Results]

CurlTypeOK == /\ Client!TypeOK
              /\ timeout \in Timeouts
              /\ call \in [Callers -> Calls]
              /\ idle \in 0..MaxIdle

Begun(raw, limit) ==
    [at |-> "client", raw |-> raw, limit |-> limit, age |-> 0, dialled |-> 0,
     reused |-> FALSE, method |-> raw.method, hops |-> 0, flying |-> FALSE,
     strays |-> 0, runs |-> 0, status |-> "none", left |-> 0, result |-> "none"]

(* A failed call drops the answer it may have had.                         *)
Over(k, result) == [k EXCEPT !.at = "idle", !.result = result, !.dialled = 0, !.reused = FALSE,
                             !.status = IF result = "ok" THEN @ ELSE "none",
                             !.left = IF result = "ok" THEN @ ELSE 0]

CurlInit == /\ Client!Init
            /\ timeout \in Timeouts
            /\ call \in {[c \in Callers |-> Over(Begun(raw, 0), "none")] : raw \in Raws}
            /\ idle = 0

-----------------------------------------------------------------------------
Become(c, k) == call' = [call EXCEPT ![c] = k]

(* CURlProvider returns, or the panic leaves it.                           *)
Return(c, result) == Become(c, Over(call[c], result))

(* Mutant: the configuration goes before the header.                       *)
SecondsConfigFirst(raw) == IF timeout > 0 THEN timeout
                           ELSE IF raw.asks > 0 THEN raw.asks ELSE DefaultTimeout

(* The header goes before the configuration.                               *)
Seconds(raw) == IF raw.asks > 0 THEN raw.asks
                ELSE IF timeout > 0 THEN timeout ELSE DefaultTimeout

(* time.Duration(seconds) * time.Second, an integer of 64 bits.            *)
Duration(seconds) == ((seconds + Overflow) % (2 * Overflow)) - Overflow

(* ReadRequest writes the length of the body into the header, where there  *)
(* may be no other one; without a body a declared one is waited for in     *)
(* vain.                                                                   *)
Readable(raw) == ~raw.blank /\ raw.declared \in {NoLength, raw.body}

(* ReadRequest, Request2RequestData, and the context.                      *)
Start(c) ==
    /\ call[c].at = "idle"
    /\ \E raw \in Raws :
          LET k == Begun(raw, Duration(Seconds(raw)))
          IN  Become(c, IF Readable(raw) THEN k ELSE Over(k, "badRequest"))
    /\ UNCHANGED <<timeout, client, idle>>

(* The first caller has the client built; a bad proxy URL makes it panic.  *)
BuildClient == /\ \E c \in Callers : call[c].at = "client"
               /\ Client!Settle
               /\ UNCHANGED <<timeout, call, idle>>

(* A client that could not be built is nil later on, and Do panics.        *)
GetClient(c) ==
    /\ call[c].at = "client"
    /\ \/ Client!Get(c) /\ (IF cell = "open" THEN Become(c, [call[c] EXCEPT !.at = "do"])
                                             ELSE Return(c, "panic"))
       \/ Client!Panic(c) /\ Return(c, "panic")
    /\ UNCHANGED <<timeout, idle>>

(* The next request of call k goes out on a connection that waits, or one  *)
(* is dialled.                                                             *)
Sent(k, onIdle) == [k EXCEPT !.at = IF onIdle THEN "sent" ELSE "dial", !.flying = onIdle,
                             !.reused = onIdle, !.dialled = 0]

Overdue(c) == call[c].age >= call[c].limit

(* client.Do: a request without a scheme goes nowhere, and the one that    *)
(* ReadRequest put together is in RequestURI, where nobody looks.          *)
Do(c) ==
    /\ call[c].at = "do"
    /\ UNCHANGED <<timeout, client>>
    /\ IF call[c].raw.target = "path"
       THEN Return(c, "noScheme") /\ UNCHANGED idle
       ELSE /\ ~Overdue(c)
            /\ \E onIdle \in BOOLEAN :
                  /\ onIdle => idle > 0
                  /\ Become(c, Sent([call[c] EXCEPT !.hops = 1], onIdle))
                  /\ idle' = IF onIdle THEN idle - 1 ELSE idle

Dialled(c) == /\ call[c].at = "dial"
              /\ Become(c, [call[c] EXCEPT !.at = "sent", !.flying = TRUE, !.dialled = 0])
              /\ UNCHANGED <<timeout, client, idle>>

(* The connection is refused, or not made in time.                         *)
DialFails(c) == /\ call[c].at = "dial"
                /\ Return(c, "dial")
                /\ UNCHANGED <<timeout, client, idle>>

(* The server executes the request, whether or not somebody still waits.   *)
Execute(c) ==
    /\ \/ /\ call[c].flying
          /\ Become(c, [call[c] EXCEPT !.flying = FALSE, !.runs = @ + 1])
       \/ /\ call[c].strays > 0
          /\ Become(c, [call[c] EXCEPT !.strays = @ - 1, !.runs = @ + 1])
    /\ UNCHANGED <<timeout, client, idle>>

Answered(c) == call[c].at = "sent" /\ ~call[c].flying

(* The head of an answer arrives, with the body to come; the request is    *)
(* not repeated any more.                                                  *)
Answer(c) ==
    /\ Answered(c)
    /\ \E status \in {"ok", "other"}, n \in 0..MaxChunks :
          Become(c, [call[c] EXCEPT !.at = "reading", !.status = status, !.left = n,
                                     !.reused = FALSE])
    /\ UNCHANGED <<timeout, client, idle>>

(* A redirection is followed: most make the request a GET, 307 and 308     *)
(* send it again as it was.  The connection may serve the next hop.        *)
Redirect(c) ==
    /\ Answered(c)
    /\ IF call[c].hops >= MaxHops
       THEN Return(c, "redirects")
       ELSE \E method \in {"GET", call[c].method}, onIdle \in BOOLEAN :
               /\ onIdle => MaxIdle > 0
               /\ Become(c, Sent([call[c] EXCEPT !.hops = @ + 1, !.method = method,
                                                 !.runs = 0, !.strays = 0], onIdle))
    /\ UNCHANGED <<timeout, client, idle>>

(* Mutant: a failed request is sent again, whatever it does.               *)
BreakRetrying(c) ==
    /\ call[c].at = "sent"
    /\ Become(c, [Sent(call[c], FALSE) EXCEPT !.strays = IF call[c].flying THEN @ + 1 ELSE @])
    /\ UNCHANGED <<timeout, client, idle>>

(* A request that net/http takes for one that may be executed twice: the   *)
(* header of the raw request is that of every hop.                         *)
Replayable(k) == k.method = "GET" \/ k.raw.keyed

(* The connection breaks before there is an answer.  On a reused one       *)
(* net/http repeats the request, if it is replayable or was never written; *)
(* the model lets it repeat it on a fresh one.                             *)
Break(c) ==
    LET k == call[c]
    IN  /\ k.at = "sent"
        /\ \E written \in BOOLEAN :
              /\ k.flying \/ written
              /\ LET lost == [k EXCEPT !.flying = FALSE,
                                       !.strays = IF k.flying /\ written THEN @ + 1 ELSE @]
                 IN  IF k.reused /\ (Replayable(k) \/ ~written)
                     THEN Become(c, Sent(lost, FALSE))
                     ELSE Become(c, Over(lost, "broken"))
        /\ UNCHANGED <<timeout, client, idle>>

(* Mutant: what was read before the connection broke is the body.          *)
BreakReadingIgnored(c) == /\ call[c].at = "reading" /\ call[c].left > 0
                          /\ Return(c, IF call[c].status = "ok" THEN "ok" ELSE "status")
                          /\ UNCHANGED <<timeout, client, idle>>

(* io.ReadAll fails.                                                       *)
BreakReading(c) == /\ call[c].at = "reading" /\ call[c].left > 0
                   /\ Return(c, "broken")
                   /\ UNCHANGED <<timeout, client, idle>>

ReadChunk(c) == /\ call[c].at = "reading" /\ call[c].left > 0
                /\ Become(c, [call[c] EXCEPT !.left = @ - 1])
                /\ UNCHANGED <<timeout, client, idle>>

(* Mutant: every connection is kept.                                       *)
FinishKeepsAll(c) == /\ call[c].at = "reading" /\ call[c].left = 0
                     /\ Return(c, IF call[c].status = "ok" THEN "ok" ELSE "status")
                     /\ idle' = idle + 1
                     /\ UNCHANGED <<timeout, client>>

(* The body is read: only a 200 is a success.  The connection is kept.     *)
Finish(c) == /\ call[c].at = "reading" /\ call[c].left = 0
             /\ Return(c, IF call[c].status = "ok" THEN "ok" ELSE "status")
             /\ idle' = IF idle < MaxIdle THEN idle + 1 ELSE idle
             /\ UNCHANGED <<timeout, client>>

(* Mutant: the deadline is for the head of the answer.                     *)
DeadlineOfHead(c) ==
    /\ call[c].at \in {"do", "dial", "sent"} /\ Overdue(c)
    /\ call[c].raw.target = "url"
    /\ Become(c, [Over(call[c], "deadline")
                     EXCEPT !.flying = FALSE, !.strays = IF call[c].flying THEN @ + 1 ELSE @])
    /\ UNCHANGED <<timeout, client, idle>>

(* The context ends, whatever the call waits for.  A request under way is  *)
(* not called back.                                                        *)
Deadline(c) ==
    /\ call[c].at \in Waiting \cup {"do"} /\ Overdue(c)
    /\ call[c].raw.target = "url"
    /\ Become(c, [Over(call[c], "deadline")
                     EXCEPT !.flying = FALSE, !.strays = IF call[c].flying THEN @ + 1 ELSE @])
    /\ UNCHANGED <<timeout, client, idle>>

DialOverdue(c) == call[c].at = "dial" /\ call[c].dialled >= DialTimeout

(* A second passes; timers that are due go off before.                     *)
Tick == /\ \A c \in Callers : call[c].at # "idle" => call[c].at \in Waiting
        /\ \E c \in Callers : call[c].at # "idle"
        /\ \A c \in Callers : call[c].at # "idle" => ~Overdue(c) /\ ~DialOverdue(c)
        /\ call' = [c \in Callers |->
                      IF call[c].at = "idle" THEN call[c]
                      ELSE [call[c] EXCEPT !.age = @ + 1,
                              !.dialled = IF call[c].at = "dial" THEN @ + 1 ELSE @]]
        /\ UNCHANGED <<timeout, client, idle>>

(* The server closes a connection that waits.                              *)
CloseIdle == idle > 0 /\ idle' = idle - 1 /\ UNCHANGED <<timeout, client, call>>

(* What the caller does without anybody's help.                            *)
Run(c) == GetClient(c) \/ Do(c) \/ Deadline(c) \/ (DialOverdue(c) /\ DialFails(c))

Network(c) == \/ Dialled(c) \/ DialFails(c) \/ Execute(c) \/ Answer(c) \/ Redirect(c)
              \/ Break(c) \/ BreakReading(c) \/ ReadChunk(c) \/ Finish(c)

CurlNext == \/ \E c \in Callers : Start(c) \/ Run(c) \/ Network(c)
            \/ BuildClient \/ Tick \/ CloseIdle

CurlSpec == CurlInit /\ [][CurlNext]_curlVars

(* Callers go on and time passes, however many short calls there are in    *)
(* between; the network and the server owe nothing.                        *)
CurlFairSpec == /\ CurlSpec
                /\ WF_curlVars(BuildClient) /\ SF_curlVars(Tick)
                /\ \A c \in Callers : WF_curlVars(Run(c))

-----------------------------------------------------------------------------
(* A template gets an answer only from a server that executed its request, *)
(* said 200, and had its whole body read before the deadline: no break of  *)
(* the connection, redirection or late answer is taken for one.            *)
SuccessIsAnswered ==
    \A c \in Callers : LET k == call[c] IN k.result = "ok" =>
        /\ k.status = "ok" /\ k.left = 0
        /\ k.runs > 0 /\ k.age <= k.limit /\ k.hops \in 1..MaxHops

(* The server a POST went to last executes it once at most, whatever       *)
(* breaks and whenever the copy under way arrives, and never if its        *)
(* connection was not made: only such a call may be made again.  With a    *)
(* key for the server to tell it again by, a POST is replayed like a GET.  *)
Copies(k) == k.runs + k.strays + IF k.flying THEN 1 ELSE 0
PostOnce ==
    \A c \in Callers : LET k == call[c] IN k.method = "POST" /\ ~k.raw.keyed =>
        /\ Copies(k) <= 1
        /\ k.result = "dial" => Copies(k) = 0

(* Redirections and repetitions have no time of their own: the whole call  *)
(* keeps to what its header asks for, else to the configuration, else to   *)
(* thirty seconds, and is not given up before.                             *)
Kept(k, n) == k.age <= n /\ (k.result = "deadline" => k.age = n)
TimeKept ==
    \A c \in Callers : LET k == call[c] IN
        /\ k.raw.asks \in 1..(Overflow - 1) => Kept(k, k.raw.asks)
        /\ k.raw.asks = 0 /\ timeout \in 1..(Overflow - 1) => Kept(k, timeout)
        /\ k.raw.asks = 0 /\ timeout = 0 => Kept(k, DefaultTimeout)

(* A call returns, though the network and the server may do nothing.       *)
CallsReturn == \A c \in Callers : call[c].at # "idle" ~> call[c].at = "idle"
=============================================================================
