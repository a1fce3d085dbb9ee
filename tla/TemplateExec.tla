----------------------------- MODULE TemplateExec -----------------------------
(***************************************************************************)
(* Rendering a template: repository.ExecuteTemplate and the functions a    *)
(* template calls while it is rendered.  Templates call templates          *)
(* (executeTemplate), run them as statements (execSQLTpl) or as requests   *)
(* and commands (execCURLTpl, execBinTpl), and share one volume.  One      *)
(* goroutine renders; the caller keeps the volume for its next rendering.  *)
(*                                                                         *)
(* A template is a list of operations.  A frame is one activation of       *)
(* text/template: it collects tokens, words and named placeholders.        *)
(***************************************************************************)
EXTENDS Integers, Sequences, FiniteSets, SequencesExt

CONSTANTS Templates,   \* template names, defined or not
          Names,       \* volume keys that templates set and refer to
          Values,      \* values bound to them
          Null,        \* a key bound to nil
          Unset,       \* no such key in the volume
          NoName,      \* the name of a token that is not a named placeholder
          Programs,    \* sets of parsed templates to try
          Metas,       \* registrations to try: what GetProvider finds
          MaxRequests  \* bound: calls of ExecuteTemplate with one volume

Bindings == Values \cup {Null}

Vias == {"top", "run", "sql", "ext"}

(* What a template does, in order: SetValue, GetSetValue, ZeroTime and its *)
(* kin, In, plain text, a placeholder, a call, and Panic or any function   *)
(* that returns an error.                                                  *)
Ops == [op : {"set"}, name : Names, val : Values]
       \cup [op : {"copy"}, name : Names, from : Names]
       \cup [op : {"time", "ref"}, name : Names]
       \cup [op : {"in"}, vals : Seq(Values)]
       \cup [op : {"run", "sql", "ext"}, tpl : Templates]
       \cup [op : {"word", "panic"}]

ASSUME ProgramsAssumption ==
    \A prog \in Programs : /\ DOMAIN prog \subseteq Templates
                           /\ \A t \in DOMAIN prog : prog[t] \in Seq(Ops)
ASSUME MetasAssumption ==
    Metas \subseteq [Templates -> {"noMeta", "noProvider", "provider"}]
ASSUME MaxRequestsAssumption == MaxRequests \in Nat
(* The templates that a template of p calls.                               *)
Calls(p, t) == {o.tpl : o \in {x \in ToSet(p[t]) : x.op \in {"run", "sql", "ext"}}}

(* No template calls itself, directly or through others: without control   *)
(* flow in the text it would do so for ever.                               *)
ASSUME TemplatesAssumption == IsFiniteSet(Templates)
ASSUME AcyclicAssumption ==
    \A p \in Programs : \E rank \in [Templates -> 0..(Cardinality(Templates) - 1)] :
        \A t \in DOMAIN p : \A c \in Calls(p, t) : rank[c] < rank[t]
ASSUME NoNameAssumption == NoName \notin Names \cup Templates
ASSUME UnsetAssumption == Unset \notin Bindings

VARIABLES prog,     \* the parsed templates of the repository
          meta,     \* what is registered for each template
          hasRepo,  \* the volume came from NewVolume and holds the repository
          mode,     \* "idle", "run", "exec" (in a provider) or "failing"
          frames,   \* activations, innermost last
          stmt,     \* what the innermost activation hands to a provider
          names,    \* volume: the named values
          inIndex,  \* volume: __inIndex
          ins,      \* volume: in_1, in_2, ...
          sqls,     \* volume: <template>SQL
          outs,     \* volume: <template>Out, as a position of log; 0 if unset
          result,   \* what the latest call of ExecuteTemplate returned
          issued,   \* history: the value each in_ placeholder was issued for
          log,      \* history: everything handed to a provider
          root,     \* history: the template the request is for, or NoName
          since,    \* history: length of log when the request began
          requests  \* history: number of requests

volume   == <<names, inIndex, ins, sqls, outs>>
registry == <<prog, meta, hasRepo>>
request  == <<root, since, requests>>
history  == <<issued, log, request>>
vars == <<registry, mode, frames, stmt, volume, result, history>>

Tokens == [in : Nat, name : Names \cup {NoName}]
Word   == [in |-> 0, name |-> NoName]

(* A statement as it is handed to the provider: its tokens and, for SQL,   *)
(* the value that took the place of each.                                  *)
Statements == Seq([token : Tokens, val : Bindings \cup {Unset}])

Frames == [tpl : Templates, ip : Nat \ {0}, via : Vias, out : Seq(Tokens)]

Entries == [tpl : Templates, via : Vias, stmt : Statements, ok : BOOLEAN]

TypeOK == /\ prog \in Programs
          /\ meta \in Metas
          /\ hasRepo \in BOOLEAN
          /\ mode \in {"idle", "run", "exec", "failing"}
          /\ frames \in Seq(Frames)
          /\ stmt \in Statements
          /\ names \in [Names -> Bindings \cup {Unset}]
          /\ inIndex \in Nat
          /\ DOMAIN ins \subseteq Nat /\ \A k \in DOMAIN ins : ins[k] \in Bindings
          /\ sqls \in [Templates -> Statements]
          /\ outs \in [Templates -> Nat]
          /\ result \in {"none", "ok", "error"}
          /\ issued \in Seq(Values)
          /\ log \in Seq(Entries)
          /\ root \in Templates \cup {NoName}
          /\ since \in Nat
          /\ requests \in 0..MaxRequests

Init == /\ prog \in Programs
        /\ meta \in Metas
        /\ hasRepo \in BOOLEAN
        /\ mode = "idle"
        /\ frames = <<>>
        /\ stmt = <<>>
        /\ names = [n \in Names |-> Unset]
        /\ inIndex = 0
        /\ ins = <<>>
        /\ sqls = [t \in Templates |-> <<>>]
        /\ outs = [t \in Templates |-> 0]
        /\ result = "none"
        /\ issued = <<>>
        /\ log = <<>>
        /\ root = NoName
        /\ since = 0
        /\ requests = 0

-----------------------------------------------------------------------------
Depth == Len(frames)
Top   == frames[Depth]
Op    == prog[Top.tpl][Top.ip]

At(ops) == /\ mode = "run"
           /\ Top.ip <= Len(prog[Top.tpl])
           /\ Op.op \in ops

AtEnd(via) == /\ mode = "run"
              /\ Top.ip > Len(prog[Top.tpl])
              /\ Top.via = via

Frame(t, via) == [tpl |-> t, ip |-> 1, via |-> via, out |-> <<>>]

(* The next operation of frame f, whose output grew by some tokens.        *)
Advanced(f, tokens) == [f EXCEPT !.ip = @ + 1, !.out = @ \o tokens]

Advance(tokens) == frames' = [frames EXCEPT ![Depth] = Advanced(@, tokens)]

(* The innermost activation ends and its caller goes on.                   *)
Return(tokens) ==
    frames' = [i \in 1..(Depth - 1) |->
                 IF i = Depth - 1 THEN Advanced(frames[i], tokens) ELSE frames[i]]

(* A panic, or an error that a function returns: text/template recovers    *)
(* the one and stops at the other.                                         *)
Fail == mode' = "failing"

-----------------------------------------------------------------------------
(* The caller renders template t with its volume.                          *)
Request(t) ==
    /\ mode = "idle"
    /\ requests < MaxRequests
    /\ requests' = requests + 1
    /\ root' = t
    /\ since' = Len(log)
    /\ IF t \in DOMAIN prog
       THEN /\ mode' = "run"
            /\ frames' = <<Frame(t, "top")>>
            /\ result' = "none"
       ELSE /\ result' = "error"
            /\ UNCHANGED <<mode, frames>>
    /\ UNCHANGED <<registry, stmt, volume, issued, log>>

(* SetValue returns the empty string.                                      *)
Set == /\ At({"set"})
       /\ names' = [names EXCEPT ![Op.name] = Op.val]
       /\ Advance(<<>>)
       /\ UNCHANGED <<registry, mode, stmt, inIndex, ins, sqls, outs, result, history>>

(* Mutant: the text of an error is stored in place of the value.           *)
GetSetMissing ==
    /\ At({"copy"})
    /\ names' = [names EXCEPT ![Op.name] = "not found"]
    /\ Advance(<<>>)
    /\ UNCHANGED <<registry, mode, stmt, inIndex, ins, sqls, outs, result, history>>

(* GetSetValue: a key that is not there is read as nil, and nil is stored. *)
GetSetValue ==
    /\ At({"copy"})
    /\ names' = [names EXCEPT ![Op.name] = IF names[Op.from] = Unset
                                           THEN Null ELSE names[Op.from]]
    /\ Advance(<<>>)
    /\ UNCHANGED <<registry, mode, stmt, inIndex, ins, sqls, outs, result, history>>

Named(n) == [in |-> 0, name |-> n]
Numbered(k) == [in |-> k, name |-> NoName]

(* ZeroTime, CurrentTime and PermanentTime set a value and return its      *)
(* placeholder.  The clock may have moved since the previous call.         *)
Time == /\ At({"time"})
        /\ \E v \in Values : names' = [names EXCEPT ![Op.name] = v]
        /\ Advance(<<Named(Op.name)>>)
        /\ UNCHANGED <<registry, mode, stmt, inIndex, ins, sqls, outs, result, history>>

(* Text of the template: plain words, and placeholders written as such.    *)
Text == /\ At({"word", "ref"})
        /\ Advance(IF Op.op = "ref" THEN <<Named(Op.name)>> ELSE <<Word>>)
        /\ UNCHANGED <<registry, mode, stmt, volume, result, history>>

(* Mutant: the index is not written back to the volume.                    *)
InIndexLost == LET n == Len(Op.vals)
                   new == (inIndex + 1)..(inIndex + n)
               IN  /\ At({"in"})
                   /\ ins' = [k \in DOMAIN ins \cup new |->
                                IF k \in new THEN Op.vals[k - inIndex] ELSE ins[k]]
                   /\ issued' = issued \o Op.vals
                   /\ Advance([i \in 1..n |-> Numbered(inIndex + i)])
                   /\ UNCHANGED <<registry, mode, stmt, names, inIndex, sqls, outs,
                                  result, log, request>>

(* In numbers its values on from __inIndex, sets in_<k> for each, writes   *)
(* the index back, and returns the placeholders.                           *)
In == LET n == Len(Op.vals)
          new == (inIndex + 1)..(inIndex + n)
      IN  /\ At({"in"})
          /\ ins' = [k \in DOMAIN ins \cup new |->
                       IF k \in new THEN Op.vals[k - inIndex] ELSE ins[k]]
          /\ inIndex' = inIndex + n
          /\ issued' = issued \o Op.vals
          /\ Advance([i \in 1..n |-> Numbered(inIndex + i)])
          /\ UNCHANGED <<registry, mode, stmt, names, sqls, outs, result, log,
                         request>>

(* Panic, and In of what is neither a list nor a string.                   *)
Panic == /\ At({"panic"})
         /\ Fail
         /\ UNCHANGED <<registry, frames, stmt, volume, result, history>>

(* ExecuteTemplate, the function: render another template with the same    *)
(* volume.  It needs the repository in the volume, and the template in it. *)
Call == /\ At({"run", "sql", "ext"})
        /\ IF hasRepo /\ Op.tpl \in DOMAIN prog
           THEN /\ frames' = Append(frames, Frame(Op.tpl, Op.op))
                /\ UNCHANGED mode
           ELSE Fail /\ UNCHANGED frames
        /\ UNCHANGED <<registry, stmt, volume, result, history>>

(* The rendering the caller asked for is done.                             *)
Finish == /\ AtEnd("top")
          /\ mode' = "idle"
          /\ result' = "ok"
          /\ frames' = <<>>
          /\ UNCHANGED <<registry, stmt, volume, history>>

(* The text of a called template becomes text of its caller.               *)
ReturnText == /\ AtEnd("run")
              /\ Return(Top.out)
              /\ UNCHANGED <<registry, mode, stmt, volume, result, history>>

-----------------------------------------------------------------------------
(* ToSQL: the volume's value for a placeholder, if it has one.             *)
Binding(token) ==
    IF token.in > 0
    THEN IF token.in \in DOMAIN ins THEN ins[token.in] ELSE Unset
    ELSE IF token.name = NoName THEN Unset ELSE names[token.name]

Missing(token) == token # Word /\ Binding(token) = Unset

Bound(tokens) == [i \in 1..Len(tokens) |->
                    [token |-> tokens[i], val |-> Binding(tokens[i])]]

Raw(tokens) == [i \in 1..Len(tokens) |-> [token |-> tokens[i], val |-> Unset]]

(* GetProvider panics for want of a registration or of its provider.       *)
EnterProvider == mode' = IF meta[Top.tpl] = "provider" THEN "exec" ELSE "failing"

(* Mutant: a statement that cannot be bound is skipped.                    *)
SkipSQL == /\ AtEnd("sql")
           /\ \/ Top.out = <<>>
              \/ \E i \in 1..Len(Top.out) : Missing(Top.out[i])
           /\ Return(<<>>)
           /\ UNCHANGED <<registry, mode, stmt, volume, result, history>>

(* ExecSQLTpl with the rendered text in hand: an empty text panics, and so *)
(* does a placeholder without a value ...                                  *)
RejectSQL == /\ AtEnd("sql")
             /\ \/ Top.out = <<>>
                \/ \E i \in 1..Len(Top.out) : Missing(Top.out[i])
             /\ Fail
             /\ UNCHANGED <<registry, frames, stmt, volume, result, history>>

(* Mutant: the named SQL goes into the volume, not the bound one.          *)
SubmitSQLUnbound == /\ AtEnd("sql")
                    /\ Top.out # <<>>
                    /\ \A i \in 1..Len(Top.out) : ~Missing(Top.out[i])
                    /\ stmt' = Bound(Top.out)
                    /\ sqls' = [sqls EXCEPT ![Top.tpl] = Raw(Top.out)]
                    /\ EnterProvider
                    /\ UNCHANGED <<registry, frames, names, inIndex, ins, outs,
                                   result, history>>

(* ... otherwise the statement goes into the volume, before the provider   *)
(* is looked up.                                                           *)
SubmitSQL == /\ AtEnd("sql")
             /\ Top.out # <<>>
             /\ \A i \in 1..Len(Top.out) : ~Missing(Top.out[i])
             /\ stmt' = Bound(Top.out)
             /\ sqls' = [sqls EXCEPT ![Top.tpl] = Bound(Top.out)]
             /\ EnterProvider
             /\ UNCHANGED <<registry, frames, names, inIndex, ins, outs, result,
                            history>>

(* ExecCURLTpl and ExecBinTpl hand over the text as it is.                 *)
SubmitText == /\ AtEnd("ext")
              /\ stmt' = Raw(Top.out)
              /\ EnterProvider
              /\ UNCHANGED <<registry, frames, volume, result, history>>

Submitted(ok) ==
    Append(log, [tpl |-> Top.tpl, via |-> Top.via, stmt |-> stmt, ok |-> ok])

(* The provider answers, and the answer goes into the volume.  ExecSQLTpl  *)
(* adds nothing to the text; the others return a nil error, which          *)
(* text/template prints.                                                   *)
ProviderAnswers ==
    /\ mode = "exec"
    /\ log' = Submitted(TRUE)
    /\ outs' = [outs EXCEPT ![Top.tpl] = Len(log) + 1]
    /\ mode' = "run"
    /\ Return(IF Top.via = "sql" THEN <<>> ELSE <<Word>>)
    /\ UNCHANGED <<registry, stmt, names, inIndex, ins, sqls, result, issued,
                   request>>

(* Mutant: Out is set before the error is looked at.                       *)
ProviderFailsStoring ==
    /\ mode = "exec"
    /\ log' = Submitted(FALSE)
    /\ outs' = [outs EXCEPT ![Top.tpl] = Len(log) + 1]
    /\ Fail
    /\ UNCHANGED <<registry, frames, stmt, names, inIndex, ins, sqls, result,
                   issued, request>>

(* The provider returns an error or panics; what it was given may have     *)
(* taken effect all the same.                                              *)
ProviderFails ==
    /\ mode = "exec"
    /\ log' = Submitted(FALSE)
    /\ Fail
    /\ UNCHANGED <<registry, frames, stmt, volume, result, issued, request>>

(* The error leaves the innermost activation.  ExecuteTemplate, the        *)
(* function, panics with it in the activation around; at the top it is     *)
(* returned to the caller, and the rendered text is dropped.               *)
Unwind == /\ mode = "failing"
          /\ frames' = SubSeq(frames, 1, Depth - 1)
          /\ IF Depth = 1
             THEN mode' = "idle" /\ result' = "error"
             ELSE UNCHANGED <<mode, result>>
          /\ UNCHANGED <<registry, stmt, volume, history>>

-----------------------------------------------------------------------------
Render == Set \/ GetSetValue \/ Time \/ Text \/ In \/ Panic \/ Call \/ Finish
          \/ ReturnText \/ RejectSQL \/ SubmitSQL \/ SubmitText \/ Unwind

Provider == ProviderAnswers \/ ProviderFails

Terminated == mode = "idle" /\ requests = MaxRequests /\ UNCHANGED vars

Next == (\E t \in Templates : Request(t)) \/ Render \/ Provider \/ Terminated

Spec == Init /\ [][Next]_vars

-----------------------------------------------------------------------------
(* Every in_ placeholder in an executed statement carries the value it was *)
(* issued for, however deep the calls between In and ToSQL and whatever    *)
(* they number themselves.                                                 *)
InValuesKept ==
    \A e \in 1..Len(log) : log[e].via = "sql" =>
        \A i \in 1..Len(log[e].stmt) :
            LET a == log[e].stmt[i]
            IN  a.token.in > 0 => a.token.in <= Len(issued)
                                  /\ a.val = issued[a.token.in]

(* <template>Out is the answer to the latest successful statement of that  *)
(* template, and 0 (not set) only if there is none.                        *)
OutIsLatest ==
    \A t \in Templates :
        /\ outs[t] <= Len(log)
        /\ outs[t] > 0 => log[outs[t]].tpl = t /\ log[outs[t]].ok
        /\ \A e \in (outs[t] + 1)..Len(log) : ~(log[e].tpl = t /\ log[e].ok)

(* When a request succeeded, <template>SQL and <template>Out of a template *)
(* it ran belong together: the one is the answer to the other.             *)
OutAnswersSQL ==
    mode = "idle" /\ result = "ok" =>
        \A t \in Templates :
            outs[t] > since /\ log[outs[t]].via = "sql" =>
                log[outs[t]].stmt = sqls[t]

(* No statement follows a failed one within a request: the failure leaves  *)
(* every level of nested templates and is never taken for a value.         *)
FailureStops ==
    \A e \in (since + 1)..Len(log) :
        ~log[e].ok => e = Len(log) /\ (mode = "failing" \/ result = "error")

(* What a template has executed, statements, requests and commands.        *)
Effects == [tpl : Templates, via : {"sql", "ext"}]

(* The effects of an operation, given those of the templates it may call.  *)
EffectsOf(op, below) ==
    CASE op.op = "run" -> below[op.tpl]
      [] op.op \in {"sql", "ext"} ->
             below[op.tpl] \o <<[tpl |-> op.tpl, via |-> op.op]>>
      [] OTHER -> <<>>

(* The effects of the first i operations of a list, for every i.           *)
ScriptOf(ops, below) ==
    LET effects[i \in 0..Len(ops)] ==
            IF i = 0 THEN <<>> ELSE effects[i - 1] \o EffectsOf(ops[i], below)
    IN  effects

(* The effects of each template of p, its callees' in place: what its text *)
(* says is to be executed, to a nesting depth of n.                        *)
PlansOf(p) ==
    LET plan[n \in 0..Cardinality(Templates)] ==
            [t \in Templates |->
                IF n = 0 \/ t \notin DOMAIN p THEN <<>>
                ELSE ScriptOf(p[t], plan[n - 1])[Len(p[t])]]
    IN  plan

Plan == PlansOf(prog)[Cardinality(Templates)]

(* A request executes the script its templates spell out: in order, each   *)
(* effect once, nothing left out before a success and nothing after a      *)
(* failure.                                                                *)
ScriptPlan == IF root \in DOMAIN prog THEN Plan[root] ELSE <<>>

ScriptDone == [i \in 1..(Len(log) - since) |->
                 [tpl |-> log[since + i].tpl, via |-> log[since + i].via]]

ScriptStatus == CASE mode \in {"run", "exec"} -> "running"
                  [] mode = "failing" -> "failed"
                  [] mode = "idle" /\ result = "none" -> "idle"
                  [] mode = "idle" /\ result = "ok" -> "ok"
                  [] OTHER -> "failed"

Straight == INSTANCE Script WITH
    plan <- ScriptPlan, done <- ScriptDone, status <- ScriptStatus

ScriptSpec == Straight!Spec
=============================================================================
