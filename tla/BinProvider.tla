----------------------------- MODULE BinProvider -----------------------------
(***************************************************************************)
(* BinExecProvider.Exec: one call of binProvider, which runs a command as  *)
(* a subprocess.  Beside the calling goroutine there are the three         *)
(* goroutines that serve the pipes, the child, and possibly an heir: a     *)
(* background process the child left behind that holds its output pipes.   *)
(* Output is counted in chunks; a pipe holds at most PipeCap of them.      *)
(***************************************************************************)
EXTENDS Integers, Sequences, SequencesExt

CONSTANTS Words,      \* words of the rendered template
          MaxLines,   \* bound: lines of the rendered template
          MaxChunks,  \* bound: chunks one process writes to one stream
          PipeCap     \* capacity of an output pipe

ASSUME BoundsAssumption == MaxLines \in Nat /\ MaxChunks \in Nat
ASSUME PipeCapAssumption == PipeCap \in Nat \ {0}

VARIABLES input,   \* the rendered template: its lines, each a list of words
          step,    \* where binProvider is
          child,   \* "none", "running", "exited", or "reaped" by cmd.Wait
          plan,    \* what the started command does: see Plans
          todo,    \* chunks each process still has to write to each stream
          holders, \* processes that hold the write ends of the output pipes
          pipe,    \* chunks in each output pipe
          got,     \* chunks each reader has collected
          worker,  \* the three goroutines: "none", "running" or "done"
          fds,     \* pipe ends this process has open
          stdin,   \* the lines that were written to the child's stdin
          result   \* what the caller got

vars == <<input, step, child, plan, todo, holders, pipe, got, worker, fds,
          stdin, result>>

process == <<child, plan, todo, holders>>
service == <<pipe, got, worker, stdin>>

Streams   == {"stdout", "stderr"}
Processes == {"child", "heir"}
Workers   == Streams \cup {"stdin"}
Ends      == Workers \X {"ours", "theirs"}

(* What the command will do: the chunks it and its heir write, whether it  *)
(* reads its stdin to the end before it exits, and its exit status.        *)
Plans == [writes : [Processes -> [Streams -> 0..MaxChunks]],
          leavesHeir : BOOLEAN, readsStdin : BOOLEAN, exit : {0, 1}]

NoPlan == [writes |-> [p \in Processes |-> [s \in Streams |-> 0]],
           leavesHeir |-> FALSE, readsStdin |-> FALSE, exit |-> 0]

(* A line has at most one word: what separates two lines is what matters.  *)
Inputs == UNION {[1..n -> {<<>>} \cup {<<w>> : w \in Words}] : n \in 0..MaxLines}

Results == [how : {"none", "ok", "error", "panicked"}, out : Nat]

Steps == {"parse", "stdin", "stderr", "stdout", "start", "spawn", "join",
          "wait", "returned"}

TypeOK == /\ input \in Inputs
          /\ step \in Steps
          /\ child \in {"none", "running", "exited", "reaped"}
          /\ plan \in Plans
          /\ todo \in [Processes -> [Streams -> 0..MaxChunks]]
          /\ holders \subseteq Processes
          /\ pipe \in [Streams -> 0..PipeCap]
          /\ got \in [Streams -> Nat]
          /\ worker \in [Workers -> {"none", "running", "done"}]
          /\ fds \subseteq Ends
          /\ stdin \in Seq(Seq(Words))
          /\ result \in Results

Init == /\ input \in Inputs
        /\ step = "parse"
        /\ child = "none"
        /\ plan = NoPlan
        /\ todo = NoPlan.writes
        /\ holders = {}
        /\ pipe = [s \in Streams |-> 0]
        /\ got = [s \in Streams |-> 0]
        /\ worker = [w \in Workers |-> "none"]
        /\ fds = {}
        /\ stdin = <<>>
        /\ result = [how |-> "none", out |-> 0]

-----------------------------------------------------------------------------
(* StandardizeSpaces joins the fields of the text with single blanks.      *)
StandardizeSpaces(lines) == <<FlattenSeq(lines)>>

(* SplitN(input, EOF, 2): the first line is the command, the rest its      *)
(* body.  After StandardizeSpaces there is no EOF left to split at.        *)
Command(lines) == Head(StandardizeSpaces(lines))
Body(lines)    == Tail(StandardizeSpaces(lines))

Return(how, out) == /\ step' = "returned"
                    /\ result' = [how |-> how, out |-> out]

(* The deferred stdinPipe.Close().                                         *)
Deferred == fds \ {<<"stdin", "ours">>}

(* shellwords.Parse rejects the command (an open quote, say) ...           *)
ParseFails == /\ step = "parse"
              /\ Command(input) # <<>>
              /\ Return("error", 0)
              /\ UNCHANGED <<input, process, service, fds>>

(* ... or finds no word in it, and args[0] is out of range ...             *)
ParseEmpty == /\ step = "parse"
              /\ Command(input) = <<>>
              /\ Return("panicked", 0)
              /\ UNCHANGED <<input, process, service, fds>>

(* ... or yields the command line.                                         *)
Parse == /\ step = "parse"
         /\ Command(input) # <<>>
         /\ step' = "stdin"
         /\ UNCHANGED <<input, process, service, fds, result>>

NextStep == [stdin |-> "stderr", stderr |-> "stdout", stdout |-> "start"]

(* cmd.StdinPipe, StderrPipe, StdoutPipe, in this order.                   *)
OpenPipe == /\ step \in Workers
            /\ fds' = fds \cup {<<step, "ours">>, <<step, "theirs">>}
            /\ step' = NextStep[step]
            /\ UNCHANGED <<input, process, service, result>>

(* os.Pipe fails, for lack of descriptors.  For stdin binProvider builds   *)
(* an error and returns nil in its place; what was opened for the other    *)
(* streams stays open, except our end of stdin.                            *)
OpenPipeFails == /\ step \in Workers
                 /\ fds' = Deferred
                 /\ Return(IF step = "stdin" THEN "ok" ELSE "error", 0)
                 /\ UNCHANGED <<input, process, service>>

(* cmd.Start closes the child's ends in this process, and the command      *)
(* begins whatever it does ...                                             *)
Start == /\ step = "start"
         /\ plan' \in Plans
         /\ todo' = plan'.writes
         /\ holders' = {"child"} \cup (IF plan'.leavesHeir THEN {"heir"} ELSE {})
         /\ plan'.leavesHeir \/ plan'.writes["heir"] = NoPlan.writes["heir"]
         /\ child' = "running"
         /\ fds' = {e \in fds : e[2] = "ours"}
         /\ step' = "spawn"
         /\ UNCHANGED <<input, service, result>>

(* ... or it fails (no such executable) and closes every descriptor.       *)
StartFails == /\ step = "start"
              /\ fds' = {}
              /\ Return("error", 0)
              /\ UNCHANGED <<input, process, service>>

(* The three go statements.                                                *)
Spawn == /\ step = "spawn"
         /\ worker' = [w \in Workers |-> "running"]
         /\ step' = "join"
         /\ UNCHANGED <<input, process, pipe, got, stdin, fds, result>>

(* Mutant: the goroutine does not close stdin when it is done.             *)
CopyStdinNoClose == /\ worker["stdin"] = "running"
                    /\ stdin' = Body(input)
                    /\ worker' = [worker EXCEPT !["stdin"] = "done"]
                    /\ UNCHANGED <<input, step, process, pipe, got, fds, result>>

(* io.Copy(stdinPipe, body), the deferred stdinPipe.Close, wg.Done.        *)
CopyStdin == /\ worker["stdin"] = "running"
             /\ stdin' = Body(input)
             /\ fds' = fds \ {<<"stdin", "ours">>}
             /\ worker' = [worker EXCEPT !["stdin"] = "done"]
             /\ UNCHANGED <<input, step, process, pipe, got, result>>

(* Mutant: a chunk is taken from an empty pipe.                            *)
ReadBeyondEnd(s) == /\ worker[s] = "running"
                    /\ <<s, "ours">> \in fds
                    /\ pipe' = [pipe EXCEPT ![s] = @ - 1]
                    /\ got' = [got EXCEPT ![s] = @ + 1]
                    /\ UNCHANGED <<input, step, process, worker, stdin, fds, result>>

(* ioutil.ReadAll takes what the pipe holds ...                            *)
ReadChunk(s) == /\ worker[s] = "running"
                /\ <<s, "ours">> \in fds
                /\ pipe[s] > 0
                /\ pipe' = [pipe EXCEPT ![s] = @ - 1]
                /\ got' = [got EXCEPT ![s] = @ + 1]
                /\ UNCHANGED <<input, step, process, worker, stdin, fds, result>>

(* ... until it is empty and its last writer is gone, or the read end was  *)
(* closed under it.  What stderr said goes into a shadowed variable.       *)
EndOfFile(s) == /\ worker[s] = "running"
                /\ \/ pipe[s] = 0 /\ holders = {}
                   \/ <<s, "ours">> \notin fds
                /\ worker' = [worker EXCEPT ![s] = "done"]
                /\ UNCHANGED <<input, step, process, pipe, got, stdin, fds, result>>

(* Mutant: cmd.Wait is called before the goroutines are joined.            *)
JoinNothing == /\ step = "join"
               /\ step' = "wait"
               /\ UNCHANGED <<input, process, service, fds, result>>

(* Mutant: wg.Add(1) is forgotten for every goroutine but the stdout one.  *)
JoinStdoutOnly == /\ step = "join"
                  /\ worker["stdout"] = "done"
                  /\ step' = "wait"
                  /\ UNCHANGED <<input, process, service, fds, result>>

(* wg.Wait()                                                               *)
Join == /\ step = "join"
        /\ \A w \in Workers : worker[w] = "done"
        /\ step' = "wait"
        /\ UNCHANGED <<input, process, service, fds, result>>

(* cmd.Wait reaps the child and closes our ends.  Its error is wrapped     *)
(* with errors.WithMessagef around the outer err, which is nil by then, so *)
(* what the caller gets never says that the command failed.                *)
Wait == /\ step = "wait"
        /\ child = "exited"
        /\ child' = "reaped"
        /\ fds' = {}
        /\ Return("ok", got["stdout"])
        /\ UNCHANGED <<input, plan, todo, holders, service>>

-----------------------------------------------------------------------------
(* The child or its heir writes; a full pipe blocks it.                    *)
Write(p, s) == /\ p \in holders
               /\ todo[p][s] > 0
               /\ pipe[s] < PipeCap
               /\ todo' = [todo EXCEPT ![p][s] = @ - 1]
               /\ pipe' = [pipe EXCEPT ![s] = @ + 1]
               /\ UNCHANGED <<input, step, child, plan, holders, got, worker,
                              stdin, fds, result>>

Finished(p) == p \in holders /\ \A s \in Streams : todo[p][s] = 0

(* The child exits when its work is done; if it reads its stdin to the     *)
(* end, not before this process has closed its end of it.                  *)
ChildExits == /\ Finished("child")
              /\ plan.readsStdin => <<"stdin", "ours">> \notin fds
              /\ child' = "exited"
              /\ holders' = holders \ {"child"}
              /\ UNCHANGED <<input, step, plan, todo, service, fds, result>>

HeirExits == /\ Finished("heir")
             /\ holders' = holders \ {"heir"}
             /\ UNCHANGED <<input, step, child, plan, todo, service, fds, result>>

-----------------------------------------------------------------------------
Prepare == Parse \/ ParseFails \/ ParseEmpty \/ OpenPipe \/ OpenPipeFails
             \/ Start \/ StartFails \/ Spawn

Caller == Prepare \/ Join \/ Wait

Serve(w) == IF w = "stdin" THEN CopyStdin ELSE ReadChunk(w) \/ EndOfFile(w)

Run(p) == \/ \E s \in Streams : Write(p, s)
          \/ p = "child" /\ ChildExits
          \/ p = "heir" /\ HeirExits

Terminated == step = "returned" /\ UNCHANGED vars

Next == \/ Caller
        \/ \E w \in Workers : Serve(w)
        \/ \E p \in Processes : Run(p)
        \/ Terminated

Spec == Init /\ [][Next]_vars

(* The goroutines run, and the command and its heir come to their end as   *)
(* soon as their pipes let them.                                           *)
FairSpec == /\ Spec
            /\ WF_vars(Caller)
            /\ \A w \in Workers : WF_vars(Serve(w))
            /\ \A p \in Processes : WF_vars(Run(p))

-----------------------------------------------------------------------------
Ran == step = "returned" /\ child # "none"

Sum(s) == plan.writes["child"][s] + plan.writes["heir"][s]

(* The output is complete: binProvider returns every chunk the command and *)
(* whatever it left behind wrote to stdout, because it waits for both      *)
(* readers before cmd.Wait closes their pipes.                             *)
OutputComplete == Ran => result.how = "ok" /\ result.out = Sum("stdout")

(* Nothing is left over: when a call that started its command returns, the *)
(* child is reaped, no goroutine is running and no pipe end is open.       *)
NothingLeft == Ran => /\ child = "reaped"
                      /\ \A w \in Workers : worker[w] = "done"
                      /\ fds = {}

(* The pipes never deadlock: a call returns even if the command fills one  *)
(* output pipe while the other is being read, or waits for the end of its  *)
(* input.                                                                  *)
CallReturns == <>(step = "returned")

(* "we need the exit status of the subcommand to know our HTTP response    *)
(* code": a command that fails is not reported as a success.               *)
ExitStatusReported == Ran /\ plan.exit # 0 => result.how = "error"
=============================================================================
