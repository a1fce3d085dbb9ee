-------------------------- MODULE TemplateExecProofs --------------------------
(***************************************************************************)
(* TemplateExec for any templates, values and nesting: types, and the      *)
(* properties of what is executed and of what the volume says about it.    *)
(***************************************************************************)
EXTENDS TemplateExec, SequenceTheorems, FiniteSetTheorems, WellFoundedInduction,
        TLAPS

(* Activations exist exactly while a request is being served; only the     *)
(* outermost was asked for by the caller, and each renders a template that *)
(* is there.                                                               *)
FrameInv == /\ mode = "idle" <=> Depth = 0
            /\ \A i \in 1..Depth : /\ frames[i].tpl \in DOMAIN prog
                                   /\ frames[i].via = "top" <=> i = 1
            /\ mode = "exec" => Top.via \in {"sql", "ext"}

(* The volume holds in_1, ..., in_<__inIndex>, each with its issued value. *)
InInv == /\ inIndex = Len(issued)
         /\ DOMAIN ins = 1..inIndex
         /\ \A k \in 1..inIndex : ins[k] = issued[k]

(* The in_ placeholders of statement s carry the values of the list iss.   *)
Faithful(s, iss) == \A i \in 1..Len(s) :
                       s[i].token.in > 0 => /\ s[i].token.in <= Len(iss)
                                            /\ s[i].val = iss[s[i].token.in]

(* What is about to be executed is bound and is in the volume.             *)
StmtInv == mode = "exec" /\ Top.via = "sql" =>
              Faithful(stmt, issued) /\ stmt = sqls[Top.tpl]

LogInv == \A e \in 1..Len(log) :
             log[e].via = "sql" => Faithful(log[e].stmt, issued)

Failed == mode = "failing" \/ (mode = "idle" /\ result # "ok")

(* Out and SQL of a template agree, unless its next statement is with the  *)
(* provider at this moment or the request has failed.                      *)
PairInv ==
    ~Failed => \A t \in Templates :
        outs[t] > since /\ log[outs[t]].via = "sql" =>
            \/ log[outs[t]].stmt = sqls[t]
            \/ mode = "exec" /\ Top.via = "sql" /\ Top.tpl = t

(* As long as a request goes on, everything it executed succeeded.         *)
FailInv == /\ since <= Len(log)
           /\ mode \in {"run", "exec"} =>
                 \A e \in (since + 1)..Len(log) : log[e].ok
           /\ FailureStops

IInv == /\ TypeOK /\ FrameInv /\ InInv /\ StmtInv /\ LogInv
        /\ OutIsLatest /\ PairInv /\ FailInv

-----------------------------------------------------------------------------
(* The innermost activation, and the operation it is at.                   *)
LEMMA TopFacts ==
  ASSUME TypeOK, FrameInv, mode # "idle"
  PROVE  /\ Depth \in Nat \ {0}
         /\ Top \in Frames
         /\ Top.tpl \in DOMAIN prog
         /\ Top.tpl \in Templates
         /\ prog[Top.tpl] \in Seq(Ops)
  <1>1. Depth \in Nat \ {0}
    BY DEF TypeOK, FrameInv, Depth
  <1>2. Top \in Frames
    BY <1>1 DEF TypeOK, Depth, Top
  <1>3. Top.tpl \in DOMAIN prog
    BY <1>1 DEF FrameInv, Depth, Top
  <1>4. Top.tpl \in Templates /\ prog[Top.tpl] \in Seq(Ops)
    BY <1>2, <1>3, ProgramsAssumption DEF TypeOK, Frames
  <1>5. QED
    BY <1>1, <1>2, <1>3, <1>4

LEMMA OpFacts ==
  ASSUME TypeOK, FrameInv, NEW ops, At(ops)
  PROVE  Op \in Ops /\ Op.op \in ops
  <1>1. Top \in Frames /\ prog[Top.tpl] \in Seq(Ops)
    BY TopFacts DEF At
  <1>2. Top.ip \in 1..Len(prog[Top.tpl])
    BY <1>1 DEF At, Frames
  <1>3. QED
    BY <1>1, <1>2 DEF At, Op

(* The operands of each kind of operation.                                 *)
LEMMA Operands ==
  ASSUME NEW o \in Ops
  PROVE  /\ o.op = "set"  => o.name \in Names /\ o.val \in Values
         /\ o.op = "copy" => o.name \in Names /\ o.from \in Names
         /\ o.op \in {"time", "ref"} => o.name \in Names
         /\ o.op = "in" => o.vals \in Seq(Values)
         /\ o.op \in {"run", "sql", "ext"} => o.tpl \in Templates
  BY DEF Ops

LEMMA AdvancedFrame ==
  ASSUME NEW f \in Frames, NEW tokens \in Seq(Tokens)
  PROVE  /\ Advanced(f, tokens) \in Frames
         /\ Advanced(f, tokens).tpl = f.tpl
         /\ Advanced(f, tokens).via = f.via
  <1> DEFINE out == f.out \o tokens
  <1>1. out \in Seq(Tokens)
    BY ConcatProperties DEF Frames
  <1>2. Advanced(f, tokens) = [f EXCEPT !.ip = @ + 1, !.out = out]
    BY DEF Advanced
  <1> HIDE DEF out
  <1>3. /\ f.tpl \in Templates /\ f.ip + 1 \in Nat \ {0} /\ f.via \in Vias
        /\ f = [tpl |-> f.tpl, ip |-> f.ip, via |-> f.via, out |-> f.out]
    BY DEF Frames
  <1>4. Advanced(f, tokens) =
           [tpl |-> f.tpl, ip |-> f.ip + 1, via |-> f.via, out |-> out]
    BY <1>2, <1>3
  <1>5. QED
    BY <1>1, <1>3, <1>4 DEF Frames

(* Going on after an operation changes neither who is active nor why.      *)
LEMMA AdvanceFrames ==
  ASSUME TypeOK, FrameInv, mode = "run", NEW tokens \in Seq(Tokens),
         Advance(tokens)
  PROVE  /\ frames' \in Seq(Frames)
         /\ Len(frames') = Len(frames)
         /\ \A i \in 1..Len(frames) : /\ frames'[i].tpl = frames[i].tpl
                                      /\ frames'[i].via = frames[i].via
  <1> DEFINE f == Advanced(Top, tokens)
  <1>1. Depth \in 1..Len(frames) /\ Top \in Frames
    BY TopFacts DEF Depth, TypeOK
  <1>3. /\ f \in Frames
        /\ f.tpl = Top.tpl
        /\ f.via = Top.via
    BY <1>1, AdvancedFrame
  <1>4. frames' = [frames EXCEPT ![Depth] = f]
    BY DEF Advance, Top
  <1>5. frames \in Seq(Frames)
    BY DEF TypeOK
  <1> HIDE DEF f
  <1>6. QED
    BY <1>1, <1>3, <1>4, <1>5, ExceptSeq DEF Top

(* Going on in the caller drops the innermost activation.                  *)
LEMMA ReturnFrames ==
  ASSUME TypeOK, FrameInv, mode # "idle", Top.via # "top",
         NEW tokens \in Seq(Tokens), Return(tokens)
  PROVE  /\ frames' \in Seq(Frames)
         /\ Len(frames') = Len(frames) - 1
         /\ Len(frames) \in Nat \ {0, 1}
         /\ \A i \in 1..(Len(frames) - 1) :
               /\ frames'[i].tpl = frames[i].tpl
               /\ frames'[i].via = frames[i].via
  <1> DEFINE d == Len(frames) - 1
             f == Advanced(frames[d], tokens)
  <1>1. Len(frames) \in Nat \ {0} /\ frames \in Seq(Frames)
    BY TopFacts DEF Depth, TypeOK
  <1>2. Len(frames) # 1
    BY <1>1 DEF FrameInv, Depth, Top
  <1>3. d \in Nat \ {0}
    BY <1>1, <1>2
  <1>4. \A i \in 1..d : frames[i] \in Frames
    BY <1>1, <1>3
  <1>5. frames[d] \in Frames
    <2> HIDE DEF d
    <2>1. d \in 1..d
      BY <1>3
    <2>2. QED
      BY <2>1, <1>4
  <1>6. f \in Frames /\ f.tpl = frames[d].tpl /\ f.via = frames[d].via
    BY <1>5, AdvancedFrame
  <1>7. frames' = [i \in 1..d |-> IF i = d THEN f ELSE frames[i]]
    BY DEF Return, Depth
  <1> HIDE DEF f, d
  <1>8. frames' \in [1..d -> Frames]
    BY <1>4, <1>6, <1>7
  <1>9. frames' \in Seq(Frames) /\ Len(frames') = d
    BY <1>3, <1>8
  <1>10. QED
    BY <1>1, <1>2, <1>6, <1>7, <1>9 DEF d

-----------------------------------------------------------------------------
LEMMA InitInv == Init => IInv
  <1> SUFFICES ASSUME Init PROVE IInv
    OBVIOUS
  <1> USE DEF Init
  <1>1. TypeOK
    BY MaxRequestsAssumption DEF TypeOK, Statements
  <1>2. FrameInv /\ InInv /\ StmtInv
    BY DEF FrameInv, InInv, StmtInv, Depth
  <1>3. LogInv /\ OutIsLatest /\ PairInv /\ FailInv
    BY DEF LogInv, OutIsLatest, PairInv, Failed, FailInv, FailureStops
  <1>4. QED
    BY <1>1, <1>2, <1>3 DEF IInv

-----------------------------------------------------------------------------
(* What each operation adds to the text is a list of tokens.               *)
LEMMA TokenLists ==
  /\ Word \in Tokens
  /\ <<>> \in Seq(Tokens) /\ <<Word>> \in Seq(Tokens)
  /\ \A n \in Names : <<Named(n)>> \in Seq(Tokens)
  /\ \A k, n \in Nat : [i \in 1..n |-> Numbered(k + i)] \in Seq(Tokens)
  <1>1. Word \in Tokens /\ \A n \in Names : Named(n) \in Tokens
    BY DEF Word, Named, Tokens
  <1>2. \A k \in Nat : Numbered(k) \in Tokens
    BY DEF Numbered, Tokens
  <1>3. ASSUME NEW k \in Nat, NEW n \in Nat
        PROVE  [i \in 1..n |-> Numbered(k + i)] \in Seq(Tokens)
    <2>1. \A i \in 1..n : Numbered(k + i) \in Tokens
      BY <1>2
    <2>2. [i \in 1..n |-> Numbered(k + i)] \in [1..n -> Tokens]
      BY <2>1
    <2>3. QED
      BY <2>2
  <1>4. QED
    BY <1>1, <1>3

(* The actions that go on to the next operation of the same activation.    *)
Goes == Set \/ GetSetValue \/ Time \/ Text \/ In

LEMMA GoesFrames ==
  ASSUME TypeOK, FrameInv, Goes
  PROVE  /\ frames' \in Seq(Frames)
         /\ Len(frames') = Len(frames)
         /\ \A i \in 1..Len(frames) : /\ frames'[i].tpl = frames[i].tpl
                                      /\ frames'[i].via = frames[i].via
  <1>1. ASSUME NEW ops, At(ops), ops \subseteq {"set", "copy", "time", "word", "ref", "in"}
        PROVE  mode = "run" /\ Op \in Ops /\ Op.op \in ops
    BY <1>1, OpFacts DEF At
  <1>2. PICK tokens \in Seq(Tokens) : mode = "run" /\ Advance(tokens)
    <2>1. CASE Set \/ GetSetValue
      BY <2>1, TokenLists DEF Set, GetSetValue, At
    <2>2. CASE Time
      <3>1. Op.name \in Names /\ mode = "run"
        BY <2>2, OpFacts, Operands DEF Time, At
      <3>2. QED
        BY <2>2, <3>1, TokenLists DEF Time
    <2>3. CASE Text
      <3>1. (Op.op = "ref" => Op.name \in Names) /\ mode = "run"
        BY <2>3, OpFacts, Operands DEF Text, At
      <3>2. QED
        BY <2>3, <3>1, TokenLists DEF Text
    <2>4. CASE In
      <3>1. Op.vals \in Seq(Values) /\ mode = "run"
        BY <2>4, OpFacts, Operands DEF In, At
      <3>2. Len(Op.vals) \in Nat /\ inIndex \in Nat
        BY <3>1 DEF TypeOK
      <3>3. QED
        BY <2>4, <3>1, <3>2, TokenLists DEF In
    <2>5. QED
      BY <2>1, <2>2, <2>3, <2>4 DEF Goes
  <1>3. QED
    BY <1>2, AdvanceFrames

(* A statement is a list of tokens with their values.                      *)
LEMMA BoundType ==
  ASSUME TypeOK, InInv, NEW tokens \in Seq(Tokens)
  PROVE  Bound(tokens) \in Statements /\ Raw(tokens) \in Statements
  <1> DEFINE Arg == [token : Tokens, val : Bindings \cup {Unset}]
  <1>1. \A k \in Tokens : k.in \in Nat /\ k.name \in Names \cup {NoName}
    BY DEF Tokens
  <1>2. \A k \in Tokens : Binding(k) \in Bindings \cup {Unset}
    BY <1>1 DEF Binding, TypeOK
  <1>3. Len(tokens) \in Nat /\ \A i \in 1..Len(tokens) : tokens[i] \in Tokens
    OBVIOUS
  <1>4. Bound(tokens) \in [1..Len(tokens) -> Arg]
    BY <1>2, <1>3 DEF Bound
  <1>5. Raw(tokens) \in [1..Len(tokens) -> Arg]
    BY <1>3 DEF Raw
  <1> HIDE DEF Arg
  <1>6. Bound(tokens) \in Seq(Arg) /\ Raw(tokens) \in Seq(Arg)
    BY <1>3, <1>4, <1>5
  <1>7. QED
    BY <1>6 DEF Statements, Arg

(* Every variable of the volume keeps its type.                            *)
LEMMA VolumeTypeStep ==
  ASSUME TypeOK, FrameInv, InInv, Next
  PROVE  /\ names' \in [Names -> Bindings \cup {Unset}]
         /\ inIndex' \in Nat
         /\ DOMAIN ins' \subseteq Nat /\ \A k \in DOMAIN ins' : ins'[k] \in Bindings
         /\ sqls' \in [Templates -> Statements]
         /\ outs' \in [Templates -> Nat]
         /\ issued' \in Seq(Values)
  <1>1. CASE Set
    <2>1. Op.name \in Names /\ Op.val \in Bindings
      BY <1>1, OpFacts, Operands DEF Set, Bindings
    <2>2. QED
      BY <1>1, <2>1 DEF Set, history, TypeOK
  <1>2. CASE GetSetValue
    <2>1. Op.name \in Names /\ Op.from \in Names
      BY <1>2, OpFacts, Operands DEF GetSetValue
    <2>2. QED
      BY <1>2, <2>1 DEF GetSetValue, history, Bindings, TypeOK
  <1>3. CASE Time
    BY <1>3 DEF Time, history, Bindings, TypeOK
  <1>4. CASE In
    <2>1. Op.vals \in Seq(Values)
      BY <1>4, OpFacts, Operands DEF In
    <2>2. issued' \in Seq(Values)
      BY <1>4, <2>1, ConcatProperties DEF In, TypeOK
    <2>3. inIndex' \in Nat
      BY <1>4, <2>1 DEF In, TypeOK
    <2>4. /\ DOMAIN ins' \subseteq Nat
          /\ \A k \in DOMAIN ins' : ins'[k] \in Bindings
      BY <1>4, <2>1 DEF In, Bindings, TypeOK
    <2>5. QED
      BY <1>4, <2>2, <2>3, <2>4 DEF In, TypeOK
  <1>5. CASE SubmitSQL
    <2>1. Top.tpl \in Templates /\ Bound(Top.out) \in Statements
      BY <1>5, TopFacts, BoundType DEF SubmitSQL, AtEnd, Frames
    <2>2. QED
      BY <1>5, <2>1 DEF SubmitSQL, history, TypeOK
  <1>6. CASE ProviderAnswers
    <2>1. Len(log) + 1 \in Nat
      BY DEF TypeOK
    <2>2. QED
      BY <1>6, <2>1 DEF ProviderAnswers, TypeOK
  <1>7. CASE UNCHANGED <<volume, issued>>
    BY <1>7 DEF volume, TypeOK
  <1>8. QED
    BY <1>1, <1>2, <1>3, <1>4, <1>5, <1>6, <1>7
       DEF Next, Request, Render, Provider, Terminated, Text, Panic, Call,
           Finish, ReturnText, RejectSQL, SubmitText, Unwind, ProviderFails,
           vars, history

-----------------------------------------------------------------------------
(* Entering a template pushes an activation, failing drops one.            *)
LEMMA PushFrames ==
  ASSUME TypeOK, FrameInv, Call, mode' = "run"
  PROVE  /\ frames' \in Seq(Frames)
         /\ Len(frames') = Len(frames) + 1
         /\ \A i \in 1..Len(frames) : frames'[i] = frames[i]
         /\ frames'[Len(frames) + 1].tpl \in DOMAIN prog
         /\ frames'[Len(frames) + 1].via # "top"
  <1> DEFINE f == Frame(Op.tpl, Op.op)
  <1>1. Op \in Ops /\ Op.op \in {"run", "sql", "ext"} /\ Op.tpl \in Templates
    BY OpFacts, Operands DEF Call
  <1>2. f \in Frames /\ f.via # "top" /\ f.tpl = Op.tpl
    BY <1>1 DEF Frame, Frames, Vias
  <1>3. frames' = Append(frames, f) /\ Op.tpl \in DOMAIN prog
    BY DEF Call, At, Fail
  <1>4. frames \in Seq(Frames)
    BY DEF TypeOK
  <1> HIDE DEF f
  <1>5. QED
    BY <1>2, <1>3, <1>4

LEMMA PopFrames ==
  ASSUME TypeOK, FrameInv, Unwind
  PROVE  /\ Len(frames) \in Nat \ {0}
         /\ frames' \in Seq(Frames)
         /\ Len(frames') = Len(frames) - 1
         /\ \A i \in 1..(Len(frames) - 1) : frames'[i] = frames[i]
  <1>1. Len(frames) \in Nat \ {0} /\ frames \in Seq(Frames)
    BY TopFacts DEF Unwind, TypeOK, Depth
  <1>2. \A i \in 1..(Len(frames) - 1) : frames[i] \in Frames
    BY <1>1
  <1>3. frames' = SubSeq(frames, 1, Len(frames) - 1)
    BY DEF Unwind, Depth
  <1> DEFINE d == Len(frames) - 1
  <1>4. d \in Nat /\ 1 \in Int /\ d \in Int
    BY <1>1
  <1>5. \A i \in 1..d : frames[i] \in Frames
    BY <1>2
  <1>6. frames' = SubSeq(frames, 1, d)
    BY <1>3
  <1> HIDE DEF d
  <1>7. /\ SubSeq(frames, 1, d) \in Seq(Frames)
        /\ Len(SubSeq(frames, 1, d)) = IF 1 <= d THEN d - 1 + 1 ELSE 0
        /\ \A i \in 1..(d - 1 + 1) : SubSeq(frames, 1, d)[i] = frames[1 + i - 1]
    BY <1>4, <1>5, SubSeqProperties
  <1>8. /\ frames' \in Seq(Frames)
        /\ Len(frames') = d
        /\ \A i \in 1..d : frames'[i] = frames[i]
    BY <1>4, <1>6, <1>7
  <1>9. QED
    BY <1>1, <1>8 DEF d

(* The text of an activation, or nothing, goes to its caller.              *)
LEMMA PopReturn ==
  ASSUME TypeOK, FrameInv, ReturnText \/ ProviderAnswers
  PROVE  /\ frames' \in Seq(Frames)
         /\ Len(frames') = Len(frames) - 1
         /\ Len(frames) \in Nat \ {0, 1}
         /\ \A i \in 1..(Len(frames) - 1) :
               /\ frames'[i].tpl = frames[i].tpl
               /\ frames'[i].via = frames[i].via
  <1>1. mode # "idle" /\ Top.via # "top"
    BY DEF ReturnText, AtEnd, ProviderAnswers, FrameInv
  <1>2. Top.out \in Seq(Tokens)
    BY <1>1, TopFacts DEF Frames
  <1>3. PICK tokens \in Seq(Tokens) : Return(tokens)
    BY <1>2, TokenLists DEF ReturnText, ProviderAnswers
  <1>4. QED
    BY <1>1, <1>3, ReturnFrames

(* Activations keep their types and their order.                           *)
LEMMA FramesStep ==
  ASSUME TypeOK, FrameInv, Next
  PROVE  frames' \in Seq(Frames) /\ FrameInv'
  <1>1. frames \in Seq(Frames)
    BY DEF TypeOK
  <1>2. CASE Goes
    <2>1. UNCHANGED <<mode, prog>> /\ mode = "run"
      BY <1>2 DEF Goes, Set, GetSetValue, Time, Text, In, registry, At
    <2>2. QED
      BY <1>2, <2>1, GoesFrames DEF FrameInv, Depth, Top
  <1>3. CASE Call /\ mode' = "run"
    <2>1. UNCHANGED prog /\ mode = "run"
      BY <1>3 DEF Call, registry, At
    <2>2. QED
      BY <1>1, <1>3, <2>1, PushFrames DEF FrameInv, Depth
  <1>4. CASE Unwind
    <2>1. UNCHANGED prog /\ (mode' = "idle" <=> Len(frames) = 1) /\ mode' # "exec"
      BY <1>4 DEF Unwind, registry, Depth
    <2>2. /\ Len(frames) \in Nat \ {0}
          /\ frames' \in Seq(Frames)
          /\ Len(frames') = Len(frames) - 1
          /\ \A i \in 1..(Len(frames) - 1) : frames'[i] = frames[i]
      BY <1>4, PopFrames
    <2>3. \A i \in 1..Len(frames') : /\ frames'[i].tpl \in DOMAIN prog'
                                     /\ frames'[i].via = "top" <=> i = 1
      BY <2>1, <2>2 DEF FrameInv, Depth
    <2>4. QED
      BY <2>1, <2>2, <2>3 DEF FrameInv, Depth
  <1>5. CASE ReturnText \/ ProviderAnswers
    <2>1. UNCHANGED prog /\ mode' = "run" /\ mode # "idle"
      BY <1>5 DEF ReturnText, ProviderAnswers, registry, AtEnd
    <2>2. /\ frames' \in Seq(Frames)
          /\ Len(frames') = Len(frames) - 1
          /\ Len(frames) \in Nat \ {0, 1}
          /\ \A i \in 1..(Len(frames) - 1) : /\ frames'[i].tpl = frames[i].tpl
                                            /\ frames'[i].via = frames[i].via
      BY <1>5, PopReturn
    <2>3. \A i \in 1..Len(frames') : /\ frames'[i].tpl \in DOMAIN prog'
                                     /\ frames'[i].via = "top" <=> i = 1
      BY <2>1, <2>2 DEF FrameInv, Depth
    <2>4. QED
      BY <2>1, <2>2, <2>3 DEF FrameInv, Depth
  <1>6. ASSUME NEW t \in Templates, Request(t) PROVE frames' \in Seq(Frames) /\ FrameInv'
    <2>1. CASE t \in DOMAIN prog
      <3>1. Frame(t, "top") \in Frames
        BY DEF Frame, Frames, Vias
      <3>2. /\ frames' = <<Frame(t, "top")>> /\ mode' = "run"
            /\ UNCHANGED prog
        BY <1>6, <2>1 DEF Request, registry
      <3>3. Frame(t, "top").tpl = t /\ Frame(t, "top").via = "top"
        BY DEF Frame
      <3>4. QED
        BY <2>1, <3>1, <3>2, <3>3 DEF FrameInv, Depth
    <2>2. CASE t \notin DOMAIN prog
      BY <1>1, <1>6, <2>2 DEF Request, registry, FrameInv, Depth, Top
    <2>3. QED
      BY <2>1, <2>2
  <1>7. CASE Finish
    BY <1>7 DEF Finish, FrameInv, Depth
  <1>8. CASE SubmitSQL \/ SubmitText
    BY <1>1, <1>8 DEF SubmitSQL, SubmitText, EnterProvider, AtEnd, FrameInv,
       Depth, Top, registry
  <1>9. CASE Panic \/ RejectSQL \/ ProviderFails \/ (Call /\ mode' # "run")
    <2>1. /\ mode' = "failing" /\ mode # "idle"
          /\ UNCHANGED <<frames, prog>>
      BY <1>9 DEF Panic, RejectSQL, ProviderFails, Call, Fail, At, AtEnd,
         registry
    <2>2. QED
      BY <1>1, <2>1 DEF FrameInv, Depth
  <1>10. CASE Terminated
    BY <1>1, <1>10 DEF Terminated, vars, FrameInv, Depth, Top, registry
  <1>11. QED
    BY <1>2, <1>3, <1>4, <1>5, <1>6, <1>7, <1>8, <1>9, <1>10
       DEF Next, Render, Provider, Goes

(* What was handed to a provider is recorded as it was.                    *)
LEMMA LogStep ==
  ASSUME TypeOK, FrameInv, NEW ok \in BOOLEAN, mode = "exec",
         log' = Submitted(ok)
  PROVE  /\ log' \in Seq(Entries)
         /\ Len(log') = Len(log) + 1
         /\ \A e \in 1..Len(log) : log'[e] = log[e]
         /\ log'[Len(log) + 1] = [tpl |-> Top.tpl, via |-> Top.via,
                                  stmt |-> stmt, ok |-> ok]
  <1> DEFINE new == [tpl |-> Top.tpl, via |-> Top.via, stmt |-> stmt, ok |-> ok]
  <1>1. new \in Entries
    BY TopFacts DEF Entries, Frames, TypeOK
  <1>2. log \in Seq(Entries) /\ log' = Append(log, new)
    BY DEF TypeOK, Submitted
  <1> HIDE DEF new
  <1>3. QED
    BY <1>1, <1>2 DEF new

(* Types are preserved by every step.                                      *)
LEMMA TypeStep ==
  ASSUME TypeOK, FrameInv, InInv, Next
  PROVE  TypeOK'
  <1>1. prog' \in Programs /\ meta' \in Metas /\ hasRepo' \in BOOLEAN
    BY DEF TypeOK, Next, Render, Provider, Terminated, Request, Set,
       GetSetValue, Time, Text, In, Panic, Call, Finish, ReturnText, RejectSQL,
       SubmitSQL, SubmitText, Unwind, ProviderAnswers, ProviderFails, registry,
       vars
  <1>2. /\ mode' \in {"idle", "run", "exec", "failing"}
        /\ result' \in {"none", "ok", "error"}
    BY DEF TypeOK, Next, Render, Provider, Terminated, Request, Set,
       GetSetValue, Time, Text, In, Panic, Call, Finish, ReturnText, RejectSQL,
       SubmitSQL, SubmitText, Unwind, ProviderAnswers, ProviderFails, Fail,
       EnterProvider, vars
  <1>3. stmt' \in Statements
    <2>1. CASE SubmitSQL \/ SubmitText
      <3>1. Top.out \in Seq(Tokens)
        BY <2>1, TopFacts DEF SubmitSQL, SubmitText, AtEnd, Frames
      <3>2. QED
        BY <2>1, <3>1, BoundType DEF SubmitSQL, SubmitText
    <2>2. CASE UNCHANGED stmt
      BY <2>2 DEF TypeOK
    <2>3. QED
      BY <2>1, <2>2
         DEF Next, Render, Provider, Terminated, Request, Set, GetSetValue,
             Time, Text, In, Panic, Call, Finish, ReturnText, RejectSQL, Unwind,
             ProviderAnswers, ProviderFails, vars
  <1>4. log' \in Seq(Entries)
    <2>1. CASE Provider
      BY <2>1, LogStep DEF Provider, ProviderAnswers, ProviderFails
    <2>2. CASE UNCHANGED log
      BY <2>2 DEF TypeOK
    <2>3. QED
      BY <2>1, <2>2
         DEF Next, Render, Terminated, Request, Set, GetSetValue, Time, Text,
             In, Panic, Call, Finish, ReturnText, RejectSQL, SubmitSQL,
             SubmitText, Unwind, vars, history
  <1>5. /\ root' \in Templates \cup {NoName}
        /\ since' \in Nat
        /\ requests' \in 0..MaxRequests
    <2>1. ASSUME NEW t \in Templates, Request(t)
          PROVE  /\ root' \in Templates \cup {NoName}
                 /\ since' \in Nat
                 /\ requests' \in 0..MaxRequests
      BY <2>1, MaxRequestsAssumption DEF Request, TypeOK
    <2>2. CASE UNCHANGED request
      BY <2>2 DEF TypeOK, request
    <2>3. QED
      BY <2>1, <2>2
         DEF Next, Render, Provider, Terminated, Set, GetSetValue, Time, Text,
             In, Panic, Call, Finish, ReturnText, RejectSQL, SubmitSQL,
             SubmitText, Unwind, ProviderAnswers, ProviderFails, vars, history
  <1>6. QED
    BY <1>1, <1>2, <1>3, <1>4, <1>5, FramesStep, VolumeTypeStep DEF TypeOK

-----------------------------------------------------------------------------
(* All actions but the one or two an invariant depends on.                 *)
LEMMA Unchanging ==
  ASSUME Next
  PROVE  /\ In \/ UNCHANGED <<inIndex, ins, issued>>
         /\ Provider \/ UNCHANGED <<log, outs>>
         /\ SubmitSQL \/ UNCHANGED sqls
         /\ (\E t \in Templates : Request(t)) \/ UNCHANGED since
         /\ mode' = "exec" => SubmitSQL \/ SubmitText \/ UNCHANGED vars
         /\ mode' = "run" => \/ mode = "run"
                             \/ ProviderAnswers
                             \/ \E t \in Templates : Request(t)
  <1>1. In \/ UNCHANGED <<inIndex, ins, issued>>
    BY DEF Next, Render, Provider, Terminated, Request, Set, GetSetValue, Time,
       Text, Panic, Call, Finish, ReturnText, RejectSQL, SubmitSQL, SubmitText,
       Unwind, ProviderAnswers, ProviderFails, vars, volume, history
  <1>2. Provider \/ UNCHANGED <<log, outs>>
    BY DEF Next, Render, Provider, Terminated, Request, Set, GetSetValue, Time,
       Text, In, Panic, Call, Finish, ReturnText, RejectSQL, SubmitSQL,
       SubmitText, Unwind, vars, volume, history
  <1>3. SubmitSQL \/ UNCHANGED sqls
    BY DEF Next, Render, Provider, Terminated, Request, Set, GetSetValue, Time,
       Text, In, Panic, Call, Finish, ReturnText, RejectSQL, SubmitText, Unwind,
       ProviderAnswers, ProviderFails, vars, volume
  <1>4. (\E t \in Templates : Request(t)) \/ UNCHANGED since
    BY DEF Next, Render, Provider, Terminated, Set, GetSetValue, Time, Text, In,
       Panic, Call, Finish, ReturnText, RejectSQL, SubmitSQL, SubmitText, Unwind,
       ProviderAnswers, ProviderFails, vars, history, request
  <1>5. mode' = "exec" => SubmitSQL \/ SubmitText \/ UNCHANGED vars
    BY DEF Next, Render, Provider, Terminated, Request, Set, GetSetValue, Time,
       Text, In, Panic, Call, Finish, ReturnText, RejectSQL, Unwind,
       ProviderAnswers, ProviderFails, Fail, At, AtEnd
  <1>6. mode' = "run" => \/ mode = "run"
                         \/ ProviderAnswers
                         \/ \E t \in Templates : Request(t)
    BY DEF Next, Render, Provider, Terminated, Set, GetSetValue, Time, Text, In,
       Panic, Call, Finish, ReturnText, RejectSQL, SubmitSQL, SubmitText, Unwind,
       ProviderFails, Fail, EnterProvider, At, AtEnd, vars
  <1>7. QED
    BY <1>1, <1>2, <1>3, <1>4, <1>5, <1>6

(* In binds new names only.                                                *)
LEMMA InStep ==
  ASSUME TypeOK, FrameInv, InInv, Next
  PROVE  /\ InInv'
         /\ Len(issued) <= Len(issued')
         /\ \A k \in 1..Len(issued) : issued'[k] = issued[k]
  <1>1. CASE In
    <2> DEFINE vs == Op.vals
    <2>0. Op.vals \in Seq(Values)
      BY <1>1, OpFacts, Operands DEF In
    <2>1. vs \in Seq(Values) /\ issued \in Seq(Values) /\ inIndex \in Nat
      BY <2>0 DEF TypeOK
    <2>2. /\ Len(issued \o vs) = Len(issued) + Len(vs)
          /\ \A k \in 1..(Len(issued) + Len(vs)) :
                (issued \o vs)[k] = IF k <= Len(issued) THEN issued[k]
                                    ELSE vs[k - Len(issued)]
      BY <2>1, ConcatProperties
    <2>3. /\ issued' = issued \o vs
          /\ inIndex' = inIndex + Len(vs)
          /\ ins' = [k \in DOMAIN ins \cup (inIndex + 1)..(inIndex + Len(vs)) |->
                        IF k \in (inIndex + 1)..(inIndex + Len(vs))
                        THEN vs[k - inIndex] ELSE ins[k]]
      BY <1>1 DEF In
    <2> HIDE DEF vs
    <2>4. Len(vs) \in Nat /\ Len(issued) \in Nat
      BY <2>1
    <2>5. DOMAIN ins' = 1..inIndex'
      BY <2>1, <2>3, <2>4 DEF InInv
    <2>6. inIndex' = Len(issued')
      BY <2>2, <2>3 DEF InInv
    <2>7. \A k \in 1..inIndex' : ins'[k] = issued'[k]
      BY <2>1, <2>2, <2>3, <2>4, <2>5 DEF InInv
    <2>8. QED
      BY <2>2, <2>3, <2>4, <2>5, <2>6, <2>7 DEF InInv
  <1>2. CASE UNCHANGED <<inIndex, ins, issued>>
    <2>1. Len(issued) \in Nat
      BY DEF TypeOK
    <2>2. QED
      BY <1>2, <2>1 DEF InInv
  <1>3. QED
    BY <1>1, <1>2, Unchanging

(* A faithful statement stays faithful when more is issued.                *)
LEMMA FaithfulKept ==
  ASSUME TypeOK, FrameInv, InInv, Next, NEW s \in Statements,
         Faithful(s, issued)
  PROVE  Faithful(s, issued')
  <1>1. /\ Len(issued) <= Len(issued')
        /\ \A k \in 1..Len(issued) : issued'[k] = issued[k]
    BY InStep
  <1>2. issued \in Seq(Values) /\ issued' \in Seq(Values)
    BY VolumeTypeStep DEF TypeOK
  <1>3. Len(issued) \in Nat /\ Len(issued') \in Nat
    BY <1>2
  <1>4. ASSUME NEW i \in 1..Len(s), s[i].token.in > 0
        PROVE  s[i].token.in <= Len(issued') /\ s[i].val = issued'[s[i].token.in]
    <2>1. s[i] \in [token : Tokens, val : Bindings \cup {Unset}]
      BY <1>4, ElementOfSeq DEF Statements
    <2>2. s[i].token.in \in Nat
      BY <2>1 DEF Tokens
    <2>3. s[i].token.in <= Len(issued) /\ s[i].val = issued[s[i].token.in]
      BY <1>4 DEF Faithful
    <2>4. QED
      BY <1>1, <1>3, <1>4, <2>2, <2>3
  <1>5. QED
    BY <1>4 DEF Faithful

(* ToSQL binds faithfully.                                                 *)
LEMMA BoundFaithful ==
  ASSUME TypeOK, InInv, NEW tokens \in Seq(Tokens),
         \A i \in 1..Len(tokens) : ~Missing(tokens[i])
  PROVE  Faithful(Bound(tokens), issued)
  <1>1. Len(tokens) \in Nat /\ \A i \in 1..Len(tokens) : tokens[i] \in Tokens
    OBVIOUS
  <1>2. /\ Len(Bound(tokens)) = Len(tokens)
        /\ \A i \in 1..Len(tokens) :
              Bound(tokens)[i] = [token |-> tokens[i], val |-> Binding(tokens[i])]
    BY <1>1 DEF Bound
  <1>3. ASSUME NEW i \in 1..Len(tokens), tokens[i].in > 0
        PROVE  /\ tokens[i].in <= Len(issued)
               /\ Binding(tokens[i]) = issued[tokens[i].in]
    <2>1. tokens[i] # Word
      BY <1>3 DEF Word
    <2>2. Binding(tokens[i]) # Unset
      BY <2>1 DEF Missing
    <2>3. tokens[i].in \in DOMAIN ins
      BY <1>3, <2>2 DEF Binding
    <2>4. Binding(tokens[i]) = ins[tokens[i].in]
      BY <1>3, <2>3 DEF Binding
    <2>5. inIndex \in Nat
      BY DEF TypeOK
    <2>6. tokens[i].in \in 1..Len(issued)
      BY <2>3, <2>5 DEF InInv
    <2>7. QED
      BY <2>4, <2>6 DEF InInv
  <1>4. \A i \in 1..Len(tokens) : /\ Bound(tokens)[i].token = tokens[i]
                                 /\ Bound(tokens)[i].val = Binding(tokens[i])
    <2>1. ASSUME NEW i \in 1..Len(tokens), NEW b,
                 b = [token |-> tokens[i], val |-> Binding(tokens[i])]
          PROVE  b.token = tokens[i] /\ b.val = Binding(tokens[i])
      BY <2>1, Zenon
    <2>2. QED
      BY <1>2, <2>1, Zenon
  <1>5. ASSUME NEW i \in 1..Len(Bound(tokens)), Bound(tokens)[i].token.in > 0
        PROVE  /\ Bound(tokens)[i].token.in <= Len(issued)
               /\ Bound(tokens)[i].val = issued[Bound(tokens)[i].token.in]
    <2>1. i \in 1..Len(tokens)
      BY <1>2
    <2>2. /\ Bound(tokens)[i].token = tokens[i]
          /\ Bound(tokens)[i].val = Binding(tokens[i])
      BY <1>4, <2>1
    <2>3. tokens[i].in > 0
      BY <1>5, <2>2
    <2>4. QED
      BY <1>3, <2>1, <2>2, <2>3
  <1>6. QED
    BY <1>5 DEF Faithful

LEMMA StmtStep ==
  ASSUME TypeOK, FrameInv, InInv, StmtInv, Next
  PROVE  StmtInv'
  <1>1. CASE SubmitSQL
    <2>1. Top.out \in Seq(Tokens) /\ Top.tpl \in Templates
      BY <1>1, TopFacts DEF SubmitSQL, AtEnd, Frames
    <2>2. Faithful(Bound(Top.out), issued)
      BY <1>1, <2>1, BoundFaithful DEF SubmitSQL
    <2>3. /\ stmt' = Bound(Top.out)
          /\ UNCHANGED <<frames, issued>>
          /\ sqls' = [sqls EXCEPT ![Top.tpl] = Bound(Top.out)]
      BY <1>1 DEF SubmitSQL, history
    <2>4. Top' = Top
      BY <2>3 DEF Top, Depth
    <2>5. sqls'[Top.tpl] = Bound(Top.out)
      BY <2>1, <2>3 DEF TypeOK
    <2>6. Faithful(stmt', issued')
      BY <2>2, <2>3
    <2>7. stmt' = sqls'[Top'.tpl]
      BY <2>3, <2>4, <2>5
    <2>8. QED
      BY <2>6, <2>7 DEF StmtInv
  <1>2. CASE SubmitText
    <2>1. Top.via = "ext" /\ Top' = Top
      BY <1>2 DEF SubmitText, AtEnd, Top, Depth
    <2>2. QED
      BY <2>1 DEF StmtInv
  <1>3. CASE UNCHANGED vars
    BY <1>3 DEF vars, volume, history, StmtInv, Top, Depth
  <1>4. CASE mode' # "exec"
    BY <1>4 DEF StmtInv
  <1>5. QED
    BY <1>1, <1>2, <1>3, <1>4, Unchanging

(* The log after a step: as it was, or one entry longer.                   *)
LEMMA LogCases ==
  ASSUME TypeOK, FrameInv, Next
  PROVE  /\ log \in Seq(Entries) /\ Len(log) \in Nat
         /\ \/ UNCHANGED <<log, outs>>
            \/ /\ mode = "exec"
               /\ Len(log') = Len(log) + 1
               /\ \A e \in 1..Len(log) : log'[e] = log[e]
               /\ \/ /\ ProviderAnswers
                     /\ log'[Len(log) + 1] =
                          [tpl |-> Top.tpl, via |-> Top.via, stmt |-> stmt,
                           ok |-> TRUE]
                  \/ /\ ProviderFails
                     /\ log'[Len(log) + 1] =
                          [tpl |-> Top.tpl, via |-> Top.via, stmt |-> stmt,
                           ok |-> FALSE]
  <1>1. log \in Seq(Entries) /\ Len(log) \in Nat
    BY DEF TypeOK
  <1>2. ProviderAnswers => mode = "exec" /\ log' = Submitted(TRUE)
    BY DEF ProviderAnswers
  <1>3. ProviderFails => mode = "exec" /\ log' = Submitted(FALSE)
    BY DEF ProviderFails
  <1>4. CASE ProviderAnswers
    BY <1>1, <1>2, <1>4, LogStep
  <1>5. CASE ProviderFails
    BY <1>1, <1>3, <1>5, LogStep
  <1>6. QED
    BY <1>1, <1>4, <1>5, Unchanging DEF Provider

LEMMA LogInvStep ==
  ASSUME TypeOK, FrameInv, InInv, StmtInv, LogInv, Next
  PROVE  LogInv'
  <1>0. \A e \in 1..Len(log) : log[e] \in Entries
    BY ElementOfSeq DEF TypeOK
  <1>1. \A e \in 1..Len(log) : log[e].stmt \in Statements
    BY <1>0 DEF Entries
  <1>2. \A s \in Statements : Faithful(s, issued) => Faithful(s, issued')
    BY FaithfulKept
  <1>3. ASSUME NEW e \in 1..Len(log'), log'[e].via = "sql"
        PROVE  Faithful(log'[e].stmt, issued')
    <2>1. CASE e \in 1..Len(log) /\ log'[e] = log[e]
      BY <1>1, <1>2, <1>3, <2>1 DEF LogInv
    <2>2. CASE /\ mode = "exec"
               /\ log'[e].via = Top.via
               /\ log'[e].stmt = stmt
      <3>1. stmt \in Statements
        BY DEF TypeOK
      <3>2. Faithful(stmt, issued)
        BY <1>3, <2>2 DEF StmtInv
      <3>3. QED
        BY <1>2, <2>2, <3>1, <3>2
    <2>3. QED
      BY <1>3, <2>1, <2>2, LogCases
  <1>4. QED
    BY <1>3 DEF LogInv
-----------------------------------------------------------------------------
LEMMA OutStep ==
  ASSUME TypeOK, FrameInv, OutIsLatest, Next
  PROVE  OutIsLatest'
  <1>1. Len(log) \in Nat /\ outs \in [Templates -> Nat]
    BY DEF TypeOK
  <1>2. CASE UNCHANGED <<log, outs>>
    BY <1>2 DEF OutIsLatest
  <1>3. ASSUME mode = "exec",
               Len(log') = Len(log) + 1,
               \A e \in 1..Len(log) : log'[e] = log[e],
               log'[Len(log) + 1].tpl = Top.tpl,
               \/ /\ log'[Len(log) + 1].ok
                  /\ outs' = [outs EXCEPT ![Top.tpl] = Len(log) + 1]
               \/ ~log'[Len(log) + 1].ok /\ UNCHANGED outs,
               NEW t \in Templates
        PROVE  /\ outs'[t] <= Len(log')
               /\ outs'[t] > 0 => log'[outs'[t]].tpl = t /\ log'[outs'[t]].ok
               /\ \A e \in (outs'[t] + 1)..Len(log') :
                     ~(log'[e].tpl = t /\ log'[e].ok)
    <2>0. Top.tpl \in Templates
      BY <1>3, TopFacts
    <2>1. CASE outs'[t] = Len(log) + 1 /\ t = Top.tpl /\ log'[Len(log) + 1].ok
      BY <1>1, <1>3, <2>1
    <2>2. CASE outs'[t] = outs[t] /\ ~(log'[Len(log) + 1].tpl = t /\ log'[Len(log) + 1].ok)
      <3>1. outs[t] \in Nat /\ outs[t] <= Len(log)
        BY <1>1 DEF OutIsLatest
      <3>2. outs[t] > 0 => log[outs[t]].tpl = t /\ log[outs[t]].ok
        BY DEF OutIsLatest
      <3>3. \A e \in (outs[t] + 1)..Len(log) : ~(log[e].tpl = t /\ log[e].ok)
        BY DEF OutIsLatest
      <3>4. outs[t] > 0 => log'[outs[t]] = log[outs[t]]
        BY <1>1, <1>3, <3>1
      <3>5. \A e \in (outs[t] + 1)..(Len(log) + 1) :
               \/ e \in (outs[t] + 1)..Len(log) /\ log'[e] = log[e]
               \/ e = Len(log) + 1
        BY <1>1, <1>3, <3>1
      <3>6. outs'[t] <= Len(log')
        BY <1>1, <1>3, <2>2, <3>1
      <3>7. outs'[t] > 0 => log'[outs'[t]].tpl = t /\ log'[outs'[t]].ok
        BY <2>2, <3>2, <3>4
      <3>8. ASSUME NEW e \in (outs'[t] + 1)..Len(log')
            PROVE  ~(log'[e].tpl = t /\ log'[e].ok)
        <4>1. e \in (outs[t] + 1)..(Len(log) + 1)
          BY <1>3, <2>2
        <4>2. CASE e \in (outs[t] + 1)..Len(log) /\ log'[e] = log[e]
          BY <3>3, <4>2, Zenon
        <4>3. CASE e = Len(log) + 1
          BY <2>2, <4>3, Zenon
        <4>4. QED
          BY <3>5, <4>1, <4>2, <4>3, Zenon
      <3>9. QED
        BY <3>6, <3>7, <3>8
    <2>3. QED
      BY <1>1, <1>3, <2>0, <2>1, <2>2
  <1>4. ProviderAnswers => outs' = [outs EXCEPT ![Top.tpl] = Len(log) + 1]
    BY DEF ProviderAnswers
  <1>5. ProviderFails => UNCHANGED outs
    BY DEF ProviderFails, volume
  <1>6. QED
    BY <1>2, <1>3, <1>4, <1>5, LogCases DEF OutIsLatest

(* What a step may do to Out and SQL while no statement is with a          *)
(* provider.                                                               *)
LEMMA PairCases ==
  ASSUME Next
  PROVE  \/ \E t \in Templates : Request(t)
         \/ SubmitSQL
         \/ ProviderAnswers
         \/ Failed'
         \/ /\ UNCHANGED <<log, outs, sqls, since>>
            /\ mode # "exec" \/ UNCHANGED vars
            /\ Failed => Failed'
  BY DEF Next, Render, Provider, Terminated, Set, GetSetValue, Time, Text, In,
     Panic, Call, Finish, ReturnText, RejectSQL, SubmitText, Unwind,
     ProviderFails, Fail, At, AtEnd, Failed, vars, volume, history, request

LEMMA PairStep ==
  ASSUME TypeOK, FrameInv, StmtInv, OutIsLatest, PairInv, FailInv, Next
  PROVE  PairInv'
  <1>0. /\ since \in Nat /\ Len(log) \in Nat
        /\ outs \in [Templates -> Nat] /\ sqls \in [Templates -> Statements]
    BY DEF TypeOK
  <1>1. ASSUME NEW r \in Templates, Request(r) PROVE PairInv'
    <2>1. /\ Failed' \/ since' = Len(log)
          /\ UNCHANGED outs
      BY <1>1 DEF Request, Failed, volume
    <2>2. \A t \in Templates : outs[t] \in Nat /\ outs[t] <= Len(log)
      BY <1>0 DEF OutIsLatest
    <2>3. QED
      BY <1>0, <2>1, <2>2 DEF PairInv
  <1>2. CASE SubmitSQL
    <2>1. /\ mode = "run" /\ Top.via = "sql" /\ Top' = Top
          /\ mode' \in {"exec", "failing"}
          /\ sqls' = [sqls EXCEPT ![Top.tpl] = Bound(Top.out)]
          /\ UNCHANGED <<log, outs, since>>
      BY <1>2 DEF SubmitSQL, AtEnd, EnterProvider, Top, Depth, history, request
    <2>2. CASE mode' = "failing"
      BY <2>2 DEF PairInv, Failed
    <2>3. CASE mode' = "exec"
      <3>1. ASSUME NEW t \in Templates, outs[t] > since, log[outs[t]].via = "sql",
                   t # Top.tpl
            PROVE  log[outs[t]].stmt = sqls'[t]
        BY <1>0, <2>1, <3>1 DEF PairInv, Failed
      <3>2. QED
        BY <2>1, <2>3, <3>1 DEF PairInv
    <2>4. QED
      BY <2>1, <2>2, <2>3
  <1>3. CASE ProviderAnswers
    <2>1. /\ mode = "exec" /\ mode' = "run"
          /\ outs' = [outs EXCEPT ![Top.tpl] = Len(log) + 1]
          /\ UNCHANGED <<sqls, since>>
      BY <1>3 DEF ProviderAnswers, request
    <2>2. /\ \A e \in 1..Len(log) : log'[e] = log[e]
          /\ log'[Len(log) + 1].via = Top.via
          /\ log'[Len(log) + 1].stmt = stmt
      <3>1. log' = Submitted(TRUE)
        BY <1>3 DEF ProviderAnswers
      <3>2. /\ \A e \in 1..Len(log) : log'[e] = log[e]
            /\ log'[Len(log) + 1] = [tpl |-> Top.tpl, via |-> Top.via,
                                     stmt |-> stmt, ok |-> TRUE]
        BY <2>1, <3>1, LogStep
      <3>3. QED
        BY <3>2
    <2>3. ASSUME NEW t \in Templates, outs'[t] > since', log'[outs'[t]].via = "sql"
          PROVE  log'[outs'[t]].stmt = sqls'[t]
      <3>1. CASE t = Top.tpl
        <4>1. outs'[t] = Len(log) + 1
          BY <1>0, <2>1, <3>1
        <4>2. QED
          BY <2>1, <2>2, <2>3, <3>1, <4>1 DEF StmtInv
      <3>2. CASE t # Top.tpl
        <4>1. outs'[t] = outs[t] /\ outs[t] > since
          BY <1>0, <2>1, <2>3, <3>2
        <4>2. outs[t] \in 1..Len(log)
          BY <1>0, <4>1 DEF OutIsLatest
        <4>3. log[outs[t]].via = "sql"
          BY <2>2, <2>3, <4>1, <4>2
        <4>4. log[outs[t]].stmt = sqls[t]
          BY <2>1, <3>2, <4>1, <4>3 DEF PairInv, Failed
        <4>5. QED
          BY <2>1, <2>2, <4>1, <4>2, <4>4
      <3>3. QED
        BY <3>1, <3>2
    <2>4. QED
      BY <2>3 DEF PairInv
  <1>4. CASE Failed'
    BY <1>4 DEF PairInv
  <1>5. CASE UNCHANGED vars
    BY <1>5 DEF PairInv, Failed, vars, volume, history, request, Top, Depth
  <1>6. CASE /\ UNCHANGED <<log, outs, sqls, since>>
             /\ mode # "exec"
             /\ Failed => Failed'
    BY <1>6 DEF PairInv
  <1>7. QED
    BY <1>1, <1>2, <1>3, <1>4, <1>5, <1>6, PairCases

-----------------------------------------------------------------------------
(* How a request goes on or comes to its end, by the phase it is in.       *)
LEMMA FailCases ==
  ASSUME Next
  PROVE  \/ \E t \in Templates : Request(t)
         \/ ProviderAnswers
         \/ ProviderFails
         \/ UNCHANGED vars
         \/ mode = "run" /\ UNCHANGED <<log, since>>
         \/ /\ mode = "failing" /\ UNCHANGED <<log, since>>
            /\ mode' = "failing" \/ (mode' = "idle" /\ result' = "error")
  BY DEF Next, Render, Provider, Terminated, Set, GetSetValue, Time, Text, In,
     Panic, Call, Finish, ReturnText, RejectSQL, SubmitSQL, SubmitText, Unwind,
     Fail, At, AtEnd, history, request

LEMMA FailStep ==
  ASSUME TypeOK, FrameInv, FailInv, Next
  PROVE  FailInv'
  <1>0. since \in Nat /\ Len(log) \in Nat /\ since <= Len(log)
    BY DEF TypeOK, FailInv
  <1>1. ASSUME NEW t \in Templates, Request(t) PROVE FailInv'
    <2>1. since' = Len(log) /\ UNCHANGED log
      BY <1>1 DEF Request
    <2>2. QED
      BY <1>0, <2>1 DEF FailInv, FailureStops
  <1>2. ASSUME ProviderAnswers \/ ProviderFails PROVE FailInv'
    <2>1. mode = "exec" /\ UNCHANGED since
      BY <1>2 DEF ProviderAnswers, ProviderFails, request
    <2>2. /\ Len(log') = Len(log) + 1
          /\ \A e \in 1..Len(log) : log'[e] = log[e]
          /\ log'[Len(log) + 1].ok \/ mode' = "failing"
      <3>1. CASE ProviderAnswers
        <4>1. log' = Submitted(TRUE)
          BY <3>1 DEF ProviderAnswers
        <4>2. /\ Len(log') = Len(log) + 1
              /\ \A e \in 1..Len(log) : log'[e] = log[e]
              /\ log'[Len(log) + 1] = [tpl |-> Top.tpl, via |-> Top.via,
                                       stmt |-> stmt, ok |-> TRUE]
          BY <2>1, <4>1, LogStep
        <4>3. log'[Len(log) + 1].ok = TRUE
          BY <4>2
        <4>4. QED
          BY <4>2, <4>3, Zenon
      <3>2. CASE ProviderFails
        <4>1. log' = Submitted(FALSE) /\ mode' = "failing"
          BY <3>2 DEF ProviderFails, Fail
        <4>2. /\ Len(log') = Len(log) + 1
              /\ \A e \in 1..Len(log) : log'[e] = log[e]
              /\ log'[Len(log) + 1] = [tpl |-> Top.tpl, via |-> Top.via,
                                       stmt |-> stmt, ok |-> FALSE]
          BY <2>1, <4>1, LogStep
        <4>3. QED
          BY <4>1, <4>2
      <3>3. QED
        BY <1>2, <3>1, <3>2
    <2>3. \A e \in (since + 1)..Len(log) : log'[e].ok
      BY <1>0, <2>1, <2>2 DEF FailInv
    <2>4. \A e \in (since' + 1)..Len(log') :
             log'[e].ok \/ (e = Len(log') /\ mode' = "failing")
      BY <1>0, <2>1, <2>2, <2>3
    <2>5. since' <= Len(log')
      BY <1>0, <2>1, <2>2
    <2>6. mode' \in {"run", "exec"} =>
             \A e \in (since' + 1)..Len(log') : log'[e].ok
      BY <2>4
    <2>7. FailureStops'
      BY <2>4 DEF FailureStops
    <2>8. QED
      BY <2>5, <2>6, <2>7 DEF FailInv
  <1>3. CASE UNCHANGED vars
    BY <1>3 DEF vars, history, request, FailInv, FailureStops
  <1>4. CASE mode = "run" /\ UNCHANGED <<log, since>>
    BY <1>4 DEF FailInv, FailureStops
  <1>5. CASE /\ mode = "failing" /\ UNCHANGED <<log, since>>
             /\ mode' = "failing" \/ (mode' = "idle" /\ result' = "error")
    BY <1>5 DEF FailInv, FailureStops
  <1>6. QED
    BY <1>1, <1>2, <1>3, <1>4, <1>5, FailCases

LEMMA NextInv == IInv /\ [Next]_vars => IInv'
  <1> SUFFICES ASSUME IInv, [Next]_vars PROVE IInv'
    OBVIOUS
  <1>1. CASE Next
    <2> USE <1>1
    <2>1. TypeOK'
      BY TypeStep DEF IInv
    <2>2. FrameInv'
      BY FramesStep DEF IInv
    <2>3. InInv'
      BY InStep DEF IInv
    <2>4. StmtInv' /\ LogInv'
      BY StmtStep, LogInvStep DEF IInv
    <2>5. OutIsLatest'
      BY OutStep DEF IInv
    <2>6. PairInv' /\ FailInv'
      BY PairStep, FailStep DEF IInv
    <2>7. QED
      BY <2>1, <2>2, <2>3, <2>4, <2>5, <2>6 DEF IInv
  <1>2. CASE UNCHANGED vars
    BY <1>2 DEF IInv, TypeOK, FrameInv, InInv, StmtInv, LogInv, OutIsLatest,
       PairInv, FailInv, FailureStops, Failed, Top, Depth, vars, registry,
       volume, history, request
  <1>3. QED
    BY <1>1, <1>2

-----------------------------------------------------------------------------
(* The inductive invariant holds throughout.                               *)
THEOREM Invariance == Spec => []IInv
  <1>1. QED
    BY InitInv, NextInv, PTL DEF Spec

(* The variables keep their types whatever the templates call.             *)
THEOREM TypeCorrect == Spec => []TypeOK
  <1>1. IInv => TypeOK
    BY DEF IInv
  <1>2. QED
    BY Invariance, <1>1, PTL

(* Executed in_ placeholders carry the values In issued them for.          *)
THEOREM InValuesKeptHolds == Spec => []InValuesKept
  <1>1. IInv => InValuesKept
    BY DEF IInv, LogInv, Faithful, InValuesKept
  <1>2. QED
    BY Invariance, <1>1, PTL

(* <template>Out is always the latest successful answer.                   *)
THEOREM OutIsLatestHolds == Spec => []OutIsLatest
  <1>1. IInv => OutIsLatest
    BY DEF IInv
  <1>2. QED
    BY Invariance, <1>1, PTL

(* After a successful request <template>SQL and <template>Out of what it   *)
(* ran belong together.                                                    *)
THEOREM OutAnswersSQLHolds == Spec => []OutAnswersSQL
  <1>1. IInv => OutAnswersSQL
    BY DEF IInv, PairInv, Failed, OutAnswersSQL
  <1>2. QED
    BY Invariance, <1>1, PTL

(* Nothing is executed after a failure, at any depth of calls.             *)
THEOREM FailureStopsHolds == Spec => []FailureStops
  <1>1. IInv => FailureStops
    BY DEF IInv, FailInv
  <1>2. QED
    BY Invariance, <1>1, PTL

-----------------------------------------------------------------------------
(* Induction over the natural numbers, for a set in place of a predicate.  *)
LEMMA SetInduction ==
  ASSUME NEW S \in SUBSET Nat, 0 \in S, \A n \in S : n + 1 \in S
  PROVE  S = Nat
  <1> DEFINE T == Nat \ S
             R == OpToRel(<, Nat)
  <1>1. SUFFICES ASSUME T # {} PROVE FALSE
    OBVIOUS
  <1>2. IsWellFoundedOn(R, Nat)
    BY NatLessThanWellFounded
  <1>3. PICK x \in T : \A y \in T : ~ (<<y, x>> \in R)
    BY <1>1, <1>2, WFMin
  <1>4. \A y \in Nat : y < x => <<y, x>> \in R
    BY DEF OpToRel
  <1>5. x - 1 \in Nat /\ x - 1 < x
    OBVIOUS
  <1>6. x - 1 \in S
    BY <1>3, <1>4, <1>5
  <1>7. QED
    BY <1>6

(* The recursion of ScriptOf has a solution, and that is what it is.       *)
LEMMA ScriptUnfolds ==
  ASSUME NEW ops, NEW below, Len(ops) \in Nat
  PROVE  ScriptOf(ops, below) =
            [i \in 0..Len(ops) |->
               IF i = 0 THEN <<>>
               ELSE ScriptOf(ops, below)[i - 1] \o EffectsOf(ops[i], below)]
  <1> DEFINE N == Len(ops)
             E(i) == EffectsOf(ops[i], below)
             Solves(f, m) == f = [i \in 0..m |-> IF i = 0 THEN <<>> ELSE f[i - 1] \o E(i)]
             S == {m \in Nat : \E f : Solves(f, m)}
  <1> HIDE DEF E
  <1>1. 0 \in S
    <2>1. Solves([i \in 0..0 |-> <<>>], 0)
      OBVIOUS
    <2>2. QED
      BY <2>1
  <1>2. ASSUME NEW m \in S PROVE m + 1 \in S
    <2>1. PICK f : Solves(f, m)
      OBVIOUS
    <2> DEFINE g == [i \in 0..(m + 1) |-> IF i = m + 1 THEN f[m] \o E(m + 1) ELSE f[i]]
    <2>2. Solves(g, m + 1)
      <3>1. \A i \in 0..m : g[i] = f[i] /\ i # m + 1
        OBVIOUS
      <3>2. \A i \in 0..m : f[i] = IF i = 0 THEN <<>> ELSE f[i - 1] \o E(i)
        BY <2>1
      <3>3. \A i \in 0..(m + 1) : g[i] = IF i = 0 THEN <<>> ELSE g[i - 1] \o E(i)
        <4>1. m \in 0..m /\ (m + 1) - 1 = m /\ m + 1 # 0 /\ m + 1 \in 0..(m + 1)
          OBVIOUS
        <4>2. g[m + 1] = f[m] \o E(m + 1) /\ g[m] = f[m]
          BY <3>1, <4>1
        <4>3. \A i \in 0..m : g[i] = IF i = 0 THEN <<>> ELSE g[i - 1] \o E(i)
          BY <3>1, <3>2
        <4>4. \A i \in 0..(m + 1) : i \in 0..m \/ i = m + 1
          OBVIOUS
        <4>5. QED
          BY <4>1, <4>2, <4>3, <4>4, Zenon
      <3>4. g = [i \in 0..(m + 1) |-> g[i]]
        OBVIOUS
      <3> HIDE DEF g
      <3>5. QED
        BY <3>3, <3>4
    <2> HIDE DEF g, Solves
    <2>3. QED
      BY <2>2
  <1>3. N \in S
    BY <1>1, <1>2, SetInduction
  <1>4. \E f : Solves(f, N)
    BY <1>3
  <1>5. ScriptOf(ops, below) = CHOOSE f : Solves(f, N)
    BY DEF ScriptOf, E
  <1>6. Solves(ScriptOf(ops, below), N)
    BY <1>4, <1>5
  <1>7. QED
    BY <1>6 DEF E

-----------------------------------------------------------------------------
LEMMA EffectsType ==
  ASSUME NEW op \in Ops, NEW below \in [Templates -> Seq(Effects)]
  PROVE  EffectsOf(op, below) \in Seq(Effects)
  <1>1. CASE op.op = "run"
    <2>1. op.tpl \in Templates
      BY <1>1 DEF Ops
    <2>2. QED
      BY <1>1, <2>1 DEF EffectsOf
  <1>2. CASE op.op \in {"sql", "ext"}
    <2>1. op.tpl \in Templates
      BY <1>2 DEF Ops
    <2>2. <<[tpl |-> op.tpl, via |-> op.op]>> \in Seq(Effects)
      BY <1>2, <2>1 DEF Effects
    <2>3. below[op.tpl] \in Seq(Effects)
      BY <2>1
    <2>4. EffectsOf(op, below) = below[op.tpl] \o <<[tpl |-> op.tpl, via |-> op.op]>>
      BY <1>2 DEF EffectsOf
    <2>5. QED
      BY <2>2, <2>3, <2>4, ConcatProperties
  <1>3. CASE op.op \notin {"run", "sql", "ext"}
    BY <1>3 DEF EffectsOf
  <1>4. QED
    BY <1>1, <1>2, <1>3

(* The script of a list of operations grows by the effects of each.        *)
LEMMA ScriptGrows ==
  ASSUME NEW ops \in Seq(Ops), NEW below \in [Templates -> Seq(Effects)]
  PROVE  LET s == ScriptOf(ops, below)
         IN  /\ s[0] = <<>>
             /\ \A i \in 1..Len(ops) : s[i] = s[i - 1] \o EffectsOf(ops[i], below)
             /\ \A i \in 0..Len(ops) : s[i] \in Seq(Effects)
  <1> DEFINE s == ScriptOf(ops, below)
  <1>1. Len(ops) \in Nat
    OBVIOUS
  <1>2. s = [i \in 0..Len(ops) |->
               IF i = 0 THEN <<>> ELSE s[i - 1] \o EffectsOf(ops[i], below)]
    BY <1>1, ScriptUnfolds
  <1> HIDE DEF s
  <1>3. s[0] = <<>> /\ \A i \in 1..Len(ops) : s[i] = s[i - 1] \o EffectsOf(ops[i], below)
    <2>1. 0 \in 0..Len(ops) /\ \A i \in 1..Len(ops) : i \in 0..Len(ops) /\ i # 0
      BY <1>1
    <2>2. QED
      BY <1>2, <2>1
  <1> DEFINE S == {i \in Nat : i <= Len(ops) => s[i] \in Seq(Effects)}
  <1>4. S \in SUBSET Nat
    OBVIOUS
  <1>5. <<>> \in Seq(Effects)
    OBVIOUS
  <1>6. 0 \in S
    BY <1>3, <1>5
  <1>7. ASSUME NEW i \in S PROVE i + 1 \in S
    <2>1. SUFFICES ASSUME i + 1 <= Len(ops) PROVE s[i + 1] \in Seq(Effects)
      OBVIOUS
    <2>2. i + 1 \in 1..Len(ops) /\ (i + 1) - 1 = i /\ s[i] \in Seq(Effects)
      BY <1>1, <2>1
    <2>3. ops[i + 1] \in Ops
      BY <2>2
    <2>4. s[i + 1] = s[i] \o EffectsOf(ops[i + 1], below)
      BY <1>3, <2>2
    <2>5. QED
      BY <2>2, <2>3, <2>4, EffectsType, ConcatProperties
  <1> HIDE DEF S
  <1>8. S = Nat
    BY <1>4, <1>6, <1>7, SetInduction
  <1>9. \A i \in 0..Len(ops) : s[i] \in Seq(Effects)
    BY <1>1, <1>8 DEF S
  <1>10. QED
    BY <1>3, <1>9 DEF s

(* What a part of the list yields is where the whole begins.               *)
LEMMA ScriptPrefix ==
  ASSUME NEW ops \in Seq(Ops), NEW below \in [Templates -> Seq(Effects)],
         NEW i \in 0..Len(ops)
  PROVE  LET s == ScriptOf(ops, below)
             all == s[Len(ops)]
         IN  /\ Len(s[i]) <= Len(all)
             /\ \A k \in 1..Len(s[i]) : all[k] = s[i][k]
  <1> DEFINE s == ScriptOf(ops, below)
             Extends(j) == /\ Len(s[i]) <= Len(s[j])
                           /\ \A k \in 1..Len(s[i]) : s[j][k] = s[i][k]
             S == {n \in Nat : i + n <= Len(ops) => Extends(i + n)}
  <1>1. Len(ops) \in Nat
    OBVIOUS
  <1>2. /\ \A j \in 1..Len(ops) : s[j] = s[j - 1] \o EffectsOf(ops[j], below)
        /\ \A j \in 0..Len(ops) : s[j] \in Seq(Effects)
    BY ScriptGrows, Zenon
  <1> HIDE DEF s
  <1>3. /\ Len(ops) \in Nat
        /\ \A j \in 1..Len(ops) : s[j] = s[j - 1] \o EffectsOf(ops[j], below)
        /\ \A j \in 0..Len(ops) : s[j] \in Seq(Effects)
    BY <1>1, <1>2, Zenon
  <1>4. S \in SUBSET Nat
    OBVIOUS
  <1>5. 0 \in S
    <2>1. i \in Nat /\ i + 0 = i /\ s[i] \in Seq(Effects)
      BY <1>3
    <2>2. Extends(i)
      BY <2>1
    <2>3. QED
      BY <2>1, <2>2
  <1>6. ASSUME NEW n \in S PROVE n + 1 \in S
    <2>1. SUFFICES ASSUME i + (n + 1) <= Len(ops) PROVE Extends(i + (n + 1))
      OBVIOUS
    <2> DEFINE j == i + n
               e == EffectsOf(ops[j + 1], below)
    <2>2. /\ j \in 0..Len(ops) /\ j + 1 \in 1..Len(ops) /\ (j + 1) - 1 = j
          /\ i + (n + 1) = j + 1
      BY <1>3, <2>1
    <2>3. Extends(j)
      BY <2>2
    <2>4. s[j] \in Seq(Effects) /\ e \in Seq(Effects) /\ s[j + 1] = s[j] \o e
      <3>1. ops[j + 1] \in Ops
        BY <2>2
      <3>2. QED
        BY <1>3, <2>2, <3>1, EffectsType
    <2>5. s[i] \in Seq(Effects)
      BY <1>3
    <2> HIDE DEF e, j
    <2>6. /\ Len(s[j + 1]) = Len(s[j]) + Len(e)
          /\ \A k \in 1..Len(s[j]) + Len(e) :
                s[j + 1][k] = IF k <= Len(s[j]) THEN s[j][k] ELSE e[k - Len(s[j])]
      BY <2>4, ConcatProperties
    <2>7. Len(s[i]) \in Nat /\ Len(s[j]) \in Nat /\ Len(e) \in Nat
      BY <2>4, <2>5
    <2>8. Extends(j + 1)
      BY <2>3, <2>6, <2>7
    <2>9. QED
      BY <2>2, <2>8
  <1> HIDE DEF S
  <1>7. S = Nat
    BY <1>4, <1>5, <1>6, SetInduction
  <1>8. /\ Len(ops) - i \in Nat /\ i + (Len(ops) - i) <= Len(ops)
        /\ i + (Len(ops) - i) = Len(ops)
    BY <1>3
  <1>9. Extends(i + (Len(ops) - i))
    BY <1>7, <1>8 DEF S
  <1>10. Extends(Len(ops))
    BY <1>8, <1>9
  <1>11. QED
    BY <1>10 DEF s

-----------------------------------------------------------------------------
Nesting == Cardinality(Templates)

(* The plans of nesting depth n, from those of depth n - 1.                *)
PlansAbove(p, below) ==
    [t \in Templates |-> IF t \notin DOMAIN p THEN <<>>
                         ELSE ScriptOf(p[t], below)[Len(p[t])]]

LEMMA NestingType == Nesting \in Nat
  BY TemplatesAssumption, FS_CardinalityType DEF Nesting

(* The recursion of PlansOf has a solution, and that is what it is.        *)
LEMMA PlansUnfold ==
  ASSUME NEW p
  PROVE  /\ PlansOf(p)[0] = [t \in Templates |-> <<>>]
         /\ \A n \in 1..Nesting : PlansOf(p)[n] = PlansAbove(p, PlansOf(p)[n - 1])
  <1> DEFINE Next1(n, below) == [t \in Templates |->
                 IF n = 0 \/ t \notin DOMAIN p THEN <<>>
                 ELSE ScriptOf(p[t], below)[Len(p[t])]]
             Solves(f, m) == f = [n \in 0..m |-> Next1(n, f[n - 1])]
             S == {m \in Nat : \E f : Solves(f, m)}
  <1>1. PlansOf(p) = CHOOSE f : Solves(f, Nesting)
    BY DEF PlansOf, Nesting
  <1>2. \A below, other : Next1(0, below) = Next1(0, other)
    OBVIOUS
  <1>3. \A n \in 1..Nesting : \A below : Next1(n, below) = PlansAbove(p, below)
    BY DEF PlansAbove
  <1>4. \A below : Next1(0, below) = [t \in Templates |-> <<>>]
    OBVIOUS
  <1> HIDE DEF Next1
  <1>5. 0 \in S
    <2> DEFINE g == [n \in 0..0 |-> Next1(0, 0)]
    <2>1. \A n \in 0..0 : Next1(0, 0) = Next1(n, g[n - 1])
      BY <1>2
    <2>2. Solves(g, 0)
      BY <2>1
    <2> HIDE DEF g, Solves
    <2>3. QED
      BY <2>2
  <1>6. ASSUME NEW m \in S PROVE m + 1 \in S
    <2>1. PICK f : Solves(f, m)
      OBVIOUS
    <2>2. m \in Nat
      OBVIOUS
    <2> DEFINE g == [n \in 0..(m + 1) |-> IF n = m + 1 THEN Next1(m + 1, f[m]) ELSE f[n]]
    <2>3. \A n \in 0..m : g[n] = f[n] /\ n \in 0..(m + 1)
      BY <2>2
    <2>4. m \in 0..m /\ (m + 1) - 1 = m /\ m + 1 \in 0..(m + 1)
      BY <2>2
    <2>5. g[m + 1] = Next1(m + 1, g[m])
      BY <2>3, <2>4
    <2>6. \A n \in 0..m : g[n] = Next1(n, g[n - 1])
      <3>1. \A n \in 0..m : f[n] = Next1(n, f[n - 1])
        BY <2>1
      <3>2. \A n \in 0..m : n = 0 \/ n - 1 \in 0..m
        BY <2>2
      <3> HIDE DEF g, Solves, S
      <3>3. QED
        BY <1>2, <2>3, <3>1, <3>2
    <2>7. \A n \in 0..(m + 1) : n \in 0..m \/ n = m + 1
      BY <2>2
    <2>8. \A n \in 0..(m + 1) : g[n] = Next1(n, g[n - 1])
      BY <2>4, <2>5, <2>6, <2>7, Zenon
    <2>9. g = [n \in 0..(m + 1) |-> g[n]]
      OBVIOUS
    <2> HIDE DEF g
    <2>10. Solves(g, m + 1)
      BY <2>8, <2>9
    <2> HIDE DEF Solves
    <2>11. QED
      BY <2>2, <2>10
  <1>7. Nesting \in S
    BY <1>5, <1>6, NestingType, SetInduction
  <1>8. Solves(PlansOf(p), Nesting)
    BY <1>1, <1>7
  <1>9. \A n \in 0..Nesting : PlansOf(p)[n] = Next1(n, PlansOf(p)[n - 1])
    BY <1>8
  <1>10. 0 \in 0..Nesting /\ \A n \in 1..Nesting : n \in 0..Nesting
    BY NestingType
  <1>11. QED
    BY <1>4, <1>3, <1>9, <1>10

LEMMA PlansType ==
  ASSUME NEW p \in Programs
  PROVE  \A n \in 0..Nesting : PlansOf(p)[n] \in [Templates -> Seq(Effects)]
  <1> DEFINE S == {n \in Nat : n <= Nesting =>
                      PlansOf(p)[n] \in [Templates -> Seq(Effects)]}
  <1>1. S \in SUBSET Nat
    OBVIOUS
  <1>2. 0 \in S
    <2>1. <<>> \in Seq(Effects)
      OBVIOUS
    <2>2. QED
      BY <2>1, PlansUnfold
  <1>3. ASSUME NEW n \in S PROVE n + 1 \in S
    <2>1. SUFFICES ASSUME n + 1 <= Nesting
                   PROVE  PlansOf(p)[n + 1] \in [Templates -> Seq(Effects)]
      OBVIOUS
    <2> DEFINE below == PlansOf(p)[n]
    <2>2. n + 1 \in 1..Nesting /\ (n + 1) - 1 = n /\ below \in [Templates -> Seq(Effects)]
      BY <2>1, NestingType
    <2>3. PlansOf(p)[n + 1] = PlansAbove(p, below)
      BY <2>2, PlansUnfold
    <2> HIDE DEF below
    <2>4. ASSUME NEW t \in Templates, t \in DOMAIN p
          PROVE  ScriptOf(p[t], below)[Len(p[t])] \in Seq(Effects)
      <3>1. p[t] \in Seq(Ops)
        BY <2>4, ProgramsAssumption
      <3>2. Len(p[t]) \in 0..Len(p[t])
        BY <3>1
      <3>3. QED
        BY <2>2, <3>1, <3>2, ScriptGrows
    <2>5. <<>> \in Seq(Effects)
      OBVIOUS
    <2>6. QED
      BY <2>3, <2>4, <2>5 DEF PlansAbove
  <1> HIDE DEF S
  <1>4. S = Nat
    BY <1>1, <1>2, <1>3, SetInduction
  <1>5. QED
    BY <1>4, NestingType DEF S

(* A script depends on the plans of the templates it calls only.           *)
LEMMA SameScript ==
  ASSUME NEW ops \in Seq(Ops), NEW below, NEW other,
         \A i \in 1..Len(ops) : ops[i].op \in {"run", "sql", "ext"} =>
             below[ops[i].tpl] = other[ops[i].tpl]
  PROVE  \A i \in 0..Len(ops) : ScriptOf(ops, below)[i] = ScriptOf(ops, other)[i]
  <1> DEFINE s == ScriptOf(ops, below)
             r == ScriptOf(ops, other)
             S == {i \in Nat : i <= Len(ops) => s[i] = r[i]}
  <1>1. Len(ops) \in Nat
    OBVIOUS
  <1>2. /\ s = [i \in 0..Len(ops) |->
                  IF i = 0 THEN <<>> ELSE s[i - 1] \o EffectsOf(ops[i], below)]
        /\ r = [i \in 0..Len(ops) |->
                  IF i = 0 THEN <<>> ELSE r[i - 1] \o EffectsOf(ops[i], other)]
    BY <1>1, ScriptUnfolds
  <1> HIDE DEF s, r
  <1>3. S \in SUBSET Nat
    OBVIOUS
  <1>4. /\ s[0] = <<>> /\ r[0] = <<>>
        /\ \A i \in 1..Len(ops) : s[i] = s[i - 1] \o EffectsOf(ops[i], below)
        /\ \A i \in 1..Len(ops) : r[i] = r[i - 1] \o EffectsOf(ops[i], other)
    <2>1. 0 \in 0..Len(ops) /\ \A i \in 1..Len(ops) : i \in 0..Len(ops) /\ i # 0
      BY <1>1
    <2>2. s[0] = <<>> /\ r[0] = <<>>
      BY <1>2, <2>1
    <2>3. \A i \in 1..Len(ops) : s[i] = s[i - 1] \o EffectsOf(ops[i], below)
      BY <1>2, <2>1
    <2>4. \A i \in 1..Len(ops) : r[i] = r[i - 1] \o EffectsOf(ops[i], other)
      BY <1>2, <2>1
    <2>5. QED
      BY <2>2, <2>3, <2>4
  <1>5. 0 \in S
    BY <1>4
  <1>6. ASSUME NEW i \in S PROVE i + 1 \in S
    <2>1. SUFFICES ASSUME i + 1 <= Len(ops) PROVE s[i + 1] = r[i + 1]
      OBVIOUS
    <2>2. i + 1 \in 1..Len(ops) /\ i + 1 \in 0..Len(ops) /\ (i + 1) - 1 = i /\ s[i] = r[i]
      BY <1>1, <2>1
    <2>3. EffectsOf(ops[i + 1], below) = EffectsOf(ops[i + 1], other)
      <3>1. ops[i + 1].op \in {"run", "sql", "ext"} =>
               below[ops[i + 1].tpl] = other[ops[i + 1].tpl]
        BY <2>2
      <3> DEFINE o == ops[i + 1]
      <3> HIDE DEF o
      <3>2. o.op \in {"run", "sql", "ext"} => below[o.tpl] = other[o.tpl]
        BY <3>1 DEF o
      <3>3. EffectsOf(o, below) = EffectsOf(o, other)
        BY <3>2 DEF EffectsOf
      <3>4. QED
        BY <3>3 DEF o
    <2>4. /\ s[i + 1] = s[i] \o EffectsOf(ops[i + 1], below)
          /\ r[i + 1] = r[i] \o EffectsOf(ops[i + 1], other)
      BY <1>4, <2>2
    <2>5. QED
      BY <2>2, <2>3, <2>4
  <1> HIDE DEF S
  <1>7. S = Nat
    BY <1>3, <1>5, <1>6, SetInduction
  <1>8. QED
    BY <1>1, <1>7 DEF S, s, r

(* Every operation of a template that calls one calls one of its Calls.    *)
LEMMA CallsOf ==
  ASSUME NEW p \in Programs, NEW t \in DOMAIN p, NEW i \in 1..Len(p[t]),
         p[t][i].op \in {"run", "sql", "ext"}
  PROVE  p[t][i].tpl \in Calls(p, t) /\ p[t][i].tpl \in Templates
  <1>1. p[t] \in Seq(Ops)
    BY ProgramsAssumption
  <1>2. p[t][i] \in Ops /\ i \in DOMAIN p[t]
    BY <1>1
  <1>3. p[t][i] \in ToSet(p[t])
    BY <1>2 DEF ToSet
  <1>4. QED
    BY <1>2, <1>3 DEF Calls, Ops

(* Beyond the rank of a template its plan is the same at every depth.      *)
LEMMA PlansSettle ==
  ASSUME NEW p \in Programs, NEW rank \in [Templates -> Nat],
         \A t \in DOMAIN p : \A c \in Calls(p, t) : rank[c] < rank[t]
  PROVE  \A n \in Nat : n < Nesting =>
            \A t \in Templates : rank[t] < n => PlansOf(p)[n][t] = PlansOf(p)[n + 1][t]
  <1> DEFINE Settled(n) == \A t \in Templates : rank[t] < n =>
                              PlansOf(p)[n][t] = PlansOf(p)[n + 1][t]
             S == {n \in Nat : n < Nesting => Settled(n)}
  <1>1. S \in SUBSET Nat
    OBVIOUS
  <1>2. 0 \in S
    OBVIOUS
  <1>3. ASSUME NEW n \in S PROVE n + 1 \in S
    <2>1. SUFFICES ASSUME n + 1 < Nesting, NEW t \in Templates, rank[t] < n + 1
                   PROVE  PlansOf(p)[n + 1][t] = PlansOf(p)[(n + 1) + 1][t]
      OBVIOUS
    <2> DEFINE below == PlansOf(p)[n]
               other == PlansOf(p)[n + 1]
    <2>2. /\ n + 1 \in 1..Nesting /\ (n + 1) + 1 \in 1..Nesting
          /\ (n + 1) - 1 = n /\ ((n + 1) + 1) - 1 = n + 1
          /\ n < Nesting /\ Settled(n)
      BY <2>1, NestingType
    <2>3. /\ PlansOf(p)[n + 1] = PlansAbove(p, below)
          /\ PlansOf(p)[(n + 1) + 1] = PlansAbove(p, other)
      BY <2>2, PlansUnfold
    <2>4. ASSUME t \in DOMAIN p
          PROVE  ScriptOf(p[t], below)[Len(p[t])] = ScriptOf(p[t], other)[Len(p[t])]
      <3>1. p[t] \in Seq(Ops) /\ Len(p[t]) \in 0..Len(p[t])
        BY <2>4, ProgramsAssumption
      <3>2. ASSUME NEW i \in 1..Len(p[t]), p[t][i].op \in {"run", "sql", "ext"}
            PROVE  below[p[t][i].tpl] = other[p[t][i].tpl]
        <4>1. p[t][i].tpl \in Templates /\ rank[p[t][i].tpl] < rank[t]
          BY <2>4, <3>2, CallsOf
        <4>2. rank[p[t][i].tpl] < n
          BY <2>1, <4>1
        <4>3. QED
          BY <2>2, <4>1, <4>2
      <3> HIDE DEF below, other
      <3>3. QED
        BY <3>1, <3>2, SameScript
    <2>5. QED
      BY <2>3, <2>4 DEF PlansAbove
  <1> HIDE DEF S
  <1>4. S = Nat
    BY <1>1, <1>2, <1>3, SetInduction
  <1>5. QED
    BY <1>4 DEF S

(* The plan of a template is the script of its text, with the plans of     *)
(* what it calls in place.                                                 *)
LEMMA PlanIsScript ==
  ASSUME NEW p \in Programs, NEW t \in DOMAIN p
  PROVE  LET plan == PlansOf(p)[Nesting]
         IN  /\ plan \in [Templates -> Seq(Effects)]
             /\ plan[t] = ScriptOf(p[t], plan)[Len(p[t])]
  <1> DEFINE plan == PlansOf(p)[Nesting]
             below == PlansOf(p)[Nesting - 1]
  <1>1. t \in Templates /\ p[t] \in Seq(Ops)
    BY ProgramsAssumption
  <1>2. PICK rank \in [Templates -> 0..(Nesting - 1)] :
           \A s \in DOMAIN p : \A c \in Calls(p, s) : rank[c] < rank[s]
    BY AcyclicAssumption DEF Nesting
  <1>3. Nesting \in 1..Nesting /\ Nesting - 1 \in Nat /\ Nesting \in Nat
    <2>1. rank[t] \in 0..(Nesting - 1)
      BY <1>1, <1>2
    <2>2. QED
      BY <2>1, NestingType
  <1>4. plan \in [Templates -> Seq(Effects)] /\ plan = PlansAbove(p, below)
    BY <1>3, PlansType, PlansUnfold
  <1>5. ASSUME NEW c \in Templates, rank[c] < rank[t]
        PROVE  below[c] = plan[c]
    <2>1. rank \in [Templates -> Nat]
      BY <1>2
    <2>2. rank[c] < Nesting - 1 /\ Nesting - 1 < Nesting /\ (Nesting - 1) + 1 = Nesting
      BY <1>1, <1>2, <1>3, <1>5
    <2>3. QED
      BY <1>2, <1>3, <2>1, <2>2, PlansSettle
  <1> HIDE DEF plan, below
  <1>6. \A i \in 1..Len(p[t]) : p[t][i].op \in {"run", "sql", "ext"} =>
           below[p[t][i].tpl] = plan[p[t][i].tpl]
    BY <1>1, <1>2, <1>5, CallsOf
  <1>7. Len(p[t]) \in 0..Len(p[t])
    BY <1>1
  <1>8. ScriptOf(p[t], below)[Len(p[t])] = ScriptOf(p[t], plan)[Len(p[t])]
    BY <1>1, <1>6, <1>7, SameScript
  <1>9. plan[t] = ScriptOf(p[t], plan)[Len(p[t])]
    BY <1>1, <1>4, <1>8 DEF PlansAbove
  <1>10. QED
    BY <1>4, <1>9 DEF plan

-----------------------------------------------------------------------------
(* What an activation has executed before its next operation.              *)
Before(f) == ScriptOf(prog[f.tpl], Plan)[f.ip - 1]

(* The plan of the request holds s after its first pos effects.            *)
Holds(pos, s) == /\ pos + Len(s) <= Len(ScriptPlan)
                 /\ \A k \in 1..Len(s) : ScriptPlan[pos + k] = s[k]

(* Every activation is at the call that led to the next one.               *)
ChainInv ==
    \A i \in 1..Depth :
       /\ i = 1 => frames[i].tpl = root
       /\ frames[i].ip <= Len(prog[frames[i].tpl]) + 1
       /\ i < Depth =>
             /\ frames[i].ip <= Len(prog[frames[i].tpl])
             /\ prog[frames[i].tpl][frames[i].ip].op = frames[i + 1].via
             /\ prog[frames[i].tpl][frames[i].ip].tpl = frames[i + 1].tpl
       /\ i = Depth /\ mode = "exec" => frames[i].ip = Len(prog[frames[i].tpl]) + 1

(* Each activation has its place in the plan of the request, behind what   *)
(* those around it executed before; and the innermost is where the history *)
(* ends.                                                                   *)
Placed(at) ==
    /\ at[1] = 0
    /\ \A i \in 1..(Depth - 1) : at[i + 1] = at[i] + Len(Before(frames[i]))
    /\ \A i \in 1..Depth : Holds(at[i], Plan[frames[i].tpl])
    /\ Len(log) - since = at[Depth] + Len(Before(frames[Depth]))

PlaceInv ==
    mode \in {"run", "exec"} => \E at \in [1..Depth -> 0..Len(ScriptPlan)] : Placed(at)

(* What was executed is the beginning of the plan.                         *)
DoneInv ==
    mode \in {"run", "exec"} =>
        /\ Len(log) - since <= Len(ScriptPlan)
        /\ \A k \in 1..(Len(log) - since) :
              [tpl |-> log[since + k].tpl, via |-> log[since + k].via] = ScriptPlan[k]

-----------------------------------------------------------------------------
(* The plan of a request does not change while it is served.               *)
LEMMA PlanKept ==
  ASSUME UNCHANGED prog
  PROVE  /\ Plan' = Plan
         /\ UNCHANGED root => ScriptPlan' = ScriptPlan
         /\ \A f : Before(f)' = Before(f)
  BY DEF Plan, ScriptPlan, Before

LEMMA PlanType ==
  ASSUME TypeOK
  PROVE  /\ DOMAIN prog \subseteq Templates
         /\ DOMAIN prog # {} => Plan \in [Templates -> Seq(Effects)]
         /\ ScriptPlan \in Seq(Effects)
  <1>1. prog \in Programs
    BY DEF TypeOK
  <1>2. DOMAIN prog \subseteq Templates
    BY <1>1, ProgramsAssumption
  <1>3. ASSUME NEW t \in DOMAIN prog PROVE Plan \in [Templates -> Seq(Effects)]
    BY <1>1, PlanIsScript DEF Plan, Nesting
  <1>4. ScriptPlan \in Seq(Effects)
    BY <1>2, <1>3 DEF ScriptPlan
  <1>5. QED
    BY <1>2, <1>3, <1>4

(* What a template that is there has executed after its first n operations *)
(* is where its plan begins, and each operation adds its own effects.      *)
LEMMA PlanParts ==
  ASSUME TypeOK, NEW t \in DOMAIN prog
  PROVE  LET s == ScriptOf(prog[t], Plan)
         IN  /\ prog[t] \in Seq(Ops) /\ Len(prog[t]) \in Nat
             /\ Plan \in [Templates -> Seq(Effects)]
             /\ Plan[t] \in Seq(Effects) /\ Len(Plan[t]) \in Nat
             /\ s[0] = <<>> /\ Len(s[0]) = 0
             /\ s[Len(prog[t])] = Plan[t]
             /\ \A n \in 0..Len(prog[t]) :
                   /\ s[n] \in Seq(Effects) /\ Len(s[n]) \in Nat
                   /\ Len(s[n]) <= Len(Plan[t])
                   /\ \A k \in 1..Len(s[n]) : Plan[t][k] = s[n][k]
             /\ \A n \in 1..Len(prog[t]) :
                   /\ s[n] = s[n - 1] \o EffectsOf(prog[t][n], Plan)
                   /\ EffectsOf(prog[t][n], Plan) \in Seq(Effects)
  <1> DEFINE s == ScriptOf(prog[t], Plan)
  <1>1. prog \in Programs /\ prog[t] \in Seq(Ops) /\ t \in Templates
    BY ProgramsAssumption DEF TypeOK
  <1>2. Plan \in [Templates -> Seq(Effects)] /\ Plan[t] = s[Len(prog[t])]
    BY <1>1, PlanIsScript DEF Plan, Nesting
  <1>3. Len(prog[t]) \in Nat /\ \A n \in 1..Len(prog[t]) : prog[t][n] \in Ops
    BY <1>1
  <1>4. /\ s[0] = <<>>
        /\ \A n \in 1..Len(prog[t]) : s[n] = s[n - 1] \o EffectsOf(prog[t][n], Plan)
        /\ \A n \in 0..Len(prog[t]) : s[n] \in Seq(Effects)
    BY <1>1, <1>2, ScriptGrows, Zenon
  <1>5. ASSUME NEW n \in 0..Len(prog[t])
        PROVE  /\ Len(s[n]) <= Len(s[Len(prog[t])])
               /\ \A k \in 1..Len(s[n]) : s[Len(prog[t])][k] = s[n][k]
    BY <1>1, <1>2, ScriptPrefix, Zenon
  <1>6. \A n \in 1..Len(prog[t]) : EffectsOf(prog[t][n], Plan) \in Seq(Effects)
    BY <1>2, <1>3, EffectsType
  <1> HIDE DEF s
  <1>7. \A n \in 0..Len(prog[t]) : Len(s[n]) \in Nat
    BY <1>4
  <1>8. Plan[t] \in Seq(Effects)
    BY <1>1, <1>2
  <1>9. Len(Plan[t]) \in Nat /\ Len(s[0]) = 0
    BY <1>4, <1>8
  <1>10. \A n \in 0..Len(prog[t]) :
            /\ s[n] \in Seq(Effects) /\ Len(s[n]) \in Nat
            /\ Len(s[n]) <= Len(Plan[t])
            /\ \A k \in 1..Len(s[n]) : Plan[t][k] = s[n][k]
    BY <1>2, <1>4, <1>5, <1>7
  <1>11. QED
    BY <1>1, <1>2, <1>3, <1>4, <1>6, <1>8, <1>9, <1>10 DEF s

-----------------------------------------------------------------------------
(* The operation that is done is behind the innermost activation.          *)
LEMMA GoesSteps ==
  ASSUME TypeOK, FrameInv, Goes
  PROVE  /\ Len(frames') = Len(frames) /\ Len(frames) \in Nat \ {0}
         /\ \A i \in 1..Len(frames) : i # Len(frames) => frames'[i] = frames[i]
         /\ frames'[Len(frames)].tpl = Top.tpl
         /\ frames'[Len(frames)].via = Top.via
         /\ frames'[Len(frames)].ip = Top.ip + 1
         /\ Top.ip <= Len(prog[Top.tpl])
         /\ Op.op \notin {"run", "sql", "ext"}
         /\ mode = "run" /\ UNCHANGED <<mode, registry, log, root, since>>
  <1>1. /\ mode = "run" /\ Top.ip <= Len(prog[Top.tpl])
        /\ Op.op \notin {"run", "sql", "ext"}
        /\ UNCHANGED <<mode, registry, log, root, since>>
        /\ \E tokens : Advance(tokens)
    BY DEF Goes, Set, GetSetValue, Time, Text, In, At, history, request
  <1>2. Depth \in Nat \ {0} /\ Top \in Frames
    BY <1>1, TopFacts
  <1>3. frames \in Seq(Frames)
    BY DEF TypeOK
  <1>4. PICK tokens : frames' = [frames EXCEPT ![Depth] = Advanced(frames[Depth], tokens)]
    BY <1>1 DEF Advance
  <1>5. /\ Advanced(Top, tokens).tpl = Top.tpl
        /\ Advanced(Top, tokens).via = Top.via
        /\ Advanced(Top, tokens).ip = Top.ip + 1
    BY <1>2 DEF Advanced, Frames
  <1>6. /\ Len(frames') = Len(frames)
        /\ \A i \in 1..Len(frames) : i # Len(frames) => frames'[i] = frames[i]
        /\ frames'[Depth] = Advanced(Top, tokens)
    BY <1>2, <1>3, <1>4 DEF Depth, Top
  <1>7. QED
    BY <1>1, <1>2, <1>5, <1>6 DEF Depth

(* A call puts the first operation of the called template innermost.       *)
LEMMA PushSteps ==
  ASSUME TypeOK, FrameInv, Call, mode' = "run"
  PROVE  /\ Len(frames') = Len(frames) + 1 /\ Len(frames) \in Nat \ {0}
         /\ \A i \in 1..Len(frames) : frames'[i] = frames[i]
         /\ frames'[Len(frames) + 1] = Frame(Op.tpl, Op.op)
         /\ Op \in Ops /\ Op.op \in {"run", "sql", "ext"}
         /\ Op.tpl \in DOMAIN prog
         /\ Top.ip <= Len(prog[Top.tpl])
         /\ mode = "run" /\ UNCHANGED <<registry, log, root, since>>
  <1>1. mode = "run" /\ Top.ip <= Len(prog[Top.tpl])
    BY DEF Call, At
  <1>2. Op \in Ops /\ Op.op \in {"run", "sql", "ext"}
    BY OpFacts DEF Call
  <1>3. frames' = Append(frames, Frame(Op.tpl, Op.op)) /\ Op.tpl \in DOMAIN prog
    BY DEF Call, At, Fail
  <1>4. UNCHANGED <<registry, log, root, since>>
    BY DEF Call, history, request
  <1>5. frames \in Seq(Frames) /\ Len(frames) \in Nat \ {0}
    BY <1>1, TopFacts DEF TypeOK, Depth
  <1>6. Op.tpl \in Templates
    BY <1>2, Operands
  <1>7. Frame(Op.tpl, Op.op) \in Frames
    BY <1>2, <1>6 DEF Frame, Frames, Vias
  <1>8. QED
    BY <1>1, <1>2, <1>3, <1>4, <1>5, <1>7, AppendProperties

(* The call is behind the caller when the called activation has ended.     *)
LEMMA ReturnSteps ==
  ASSUME TypeOK, FrameInv, ReturnText \/ ProviderAnswers
  PROVE  /\ Len(frames') = Len(frames) - 1 /\ Len(frames) \in Nat \ {0, 1}
         /\ \A i \in 1..(Len(frames) - 2) : frames'[i] = frames[i]
         /\ frames'[Len(frames) - 1].tpl = frames[Len(frames) - 1].tpl
         /\ frames'[Len(frames) - 1].via = frames[Len(frames) - 1].via
         /\ frames'[Len(frames) - 1].ip = frames[Len(frames) - 1].ip + 1
         /\ UNCHANGED <<registry, root, since>>
         /\ mode' = "run" /\ mode # "idle"
  <1>1. /\ Len(frames') = Len(frames) - 1 /\ Len(frames) \in Nat \ {0, 1}
    BY PopReturn
  <1>2. PICK tokens : Return(tokens)
    BY DEF ReturnText, ProviderAnswers
  <1>3. frames \in Seq(Frames)
    BY DEF TypeOK
  <1> DEFINE d == Len(frames) - 1
  <1>4. d \in 1..Len(frames) /\ d \in Nat /\ Len(frames) - 2 = d - 1
    BY <1>1
  <1>5. frames[d] \in Frames
    BY <1>3, <1>4
  <1>6. frames' = [i \in 1..d |-> IF i = d THEN Advanced(frames[d], tokens) ELSE frames[i]]
    BY <1>2 DEF Return, Depth
  <1> HIDE DEF d
  <1>7. /\ Advanced(frames[d], tokens).tpl = frames[d].tpl
        /\ Advanced(frames[d], tokens).via = frames[d].via
        /\ Advanced(frames[d], tokens).ip = frames[d].ip + 1
    BY <1>5 DEF Advanced, Frames
  <1>8. d \in 1..d /\ \A i \in 1..(d - 1) : i \in 1..d /\ i # d
    BY <1>4
  <1>9. /\ \A i \in 1..(d - 1) : frames'[i] = frames[i]
        /\ frames'[d] = Advanced(frames[d], tokens)
    BY <1>6, <1>8
  <1>10. UNCHANGED <<registry, root, since>> /\ mode' = "run" /\ mode # "idle"
    BY DEF ReturnText, ProviderAnswers, AtEnd, history, request
  <1>11. QED
    BY <1>1, <1>4, <1>7, <1>9, <1>10 DEF d

-----------------------------------------------------------------------------
(* Templates are parsed once.                                              *)
LEMMA RegistryKept ==
  ASSUME Next
  PROVE  UNCHANGED registry /\ UNCHANGED prog
  BY DEF Next, Render, Provider, Terminated, Request, Set, GetSetValue, Time,
     Text, In, Panic, Call, Finish, ReturnText, RejectSQL, SubmitSQL,
     SubmitText, Unwind, ProviderAnswers, ProviderFails, registry, vars

(* A step within the activations that are there: the innermost goes on, or *)
(* only what is done with it changes.                                      *)
LEMMA ChainStep ==
  ASSUME TypeOK, FrameInv, ChainInv, Next
  PROVE  ChainInv'
  <1>1. UNCHANGED prog /\ Len(frames) \in Nat
    <2>1. Len(frames) \in Nat
      BY DEF TypeOK
    <2>2. QED
      BY <2>1, RegistryKept
  <1>2. CASE Goes
    <2>1. /\ Len(frames') = Len(frames) /\ Len(frames) \in Nat \ {0}
          /\ \A i \in 1..Len(frames) : i # Len(frames) => frames'[i] = frames[i]
          /\ frames'[Len(frames)].tpl = Top.tpl
          /\ frames'[Len(frames)].via = Top.via
          /\ frames'[Len(frames)].ip = Top.ip + 1
          /\ Top.ip <= Len(prog[Top.tpl])
          /\ mode' = "run" /\ root' = root
      BY <1>2, GoesSteps
    <2>2. Top.ip \in Nat /\ Len(prog[Top.tpl]) \in Nat
      BY <1>2, GoesSteps, TopFacts DEF Frames
    <2>3. ASSUME NEW i \in 1..Len(frames')
          PROVE  /\ i = 1 => frames'[i].tpl = root
                 /\ frames'[i].ip <= Len(prog[frames'[i].tpl]) + 1
                 /\ i < Len(frames') =>
                       /\ frames'[i].ip <= Len(prog[frames'[i].tpl])
                       /\ prog[frames'[i].tpl][frames'[i].ip].op = frames'[i + 1].via
                       /\ prog[frames'[i].tpl][frames'[i].ip].tpl = frames'[i + 1].tpl
      <3>1. CASE i = Len(frames)
        BY <2>1, <2>2, <3>1 DEF ChainInv, Depth, Top
      <3>2. CASE i < Len(frames)
        <4>1. /\ i \in 1..Len(frames) /\ i + 1 \in 1..Len(frames) /\ i # Len(frames)
              /\ frames'[i] = frames[i]
          BY <2>1, <3>2
        <4>2. frames'[i + 1].tpl = frames[i + 1].tpl /\ frames'[i + 1].via = frames[i + 1].via
          BY <2>1, <4>1 DEF Top, Depth
        <4>3. QED
          BY <2>1, <3>2, <4>1, <4>2 DEF ChainInv, Depth
      <3>3. QED
        BY <2>1, <3>1, <3>2
    <2>4. QED
      BY <1>1, <2>1, <2>3 DEF ChainInv, Depth
  <1>3. CASE Call /\ mode' = "run"
    <2>1. /\ Len(frames') = Len(frames) + 1 /\ Len(frames) \in Nat \ {0}
          /\ \A i \in 1..Len(frames) : frames'[i] = frames[i]
          /\ frames'[Len(frames) + 1] = Frame(Op.tpl, Op.op)
          /\ Op.tpl \in DOMAIN prog /\ Top.ip <= Len(prog[Top.tpl])
          /\ root' = root
      BY <1>3, PushSteps
    <2>2. prog[Op.tpl] \in Seq(Ops)
      BY <2>1, ProgramsAssumption DEF TypeOK
    <2>3. /\ frames'[Len(frames) + 1].tpl = Op.tpl /\ frames'[Len(frames) + 1].ip = 1
          /\ frames'[Len(frames) + 1].via = Op.op
          /\ Len(prog[Op.tpl]) \in Nat
      BY <2>1, <2>2 DEF Frame
    <2>4. ASSUME NEW i \in 1..Len(frames')
          PROVE  /\ i = 1 => frames'[i].tpl = root
                 /\ frames'[i].ip <= Len(prog[frames'[i].tpl]) + 1
                 /\ i < Len(frames') =>
                       /\ frames'[i].ip <= Len(prog[frames'[i].tpl])
                       /\ prog[frames'[i].tpl][frames'[i].ip].op = frames'[i + 1].via
                       /\ prog[frames'[i].tpl][frames'[i].ip].tpl = frames'[i + 1].tpl
      <3>1. CASE i = Len(frames) + 1
        BY <2>1, <2>3, <3>1
      <3>2. CASE i = Len(frames)
        BY <2>1, <2>3, <3>2 DEF ChainInv, Depth, Top, Op
      <3>3. CASE i < Len(frames)
        <4>1. /\ i \in 1..Len(frames) /\ i + 1 \in 1..Len(frames)
              /\ frames'[i] = frames[i] /\ frames'[i + 1] = frames[i + 1]
          BY <2>1, <3>3
        <4>2. QED
          BY <2>1, <3>3, <4>1 DEF ChainInv, Depth
      <3>4. QED
        BY <2>1, <3>1, <3>2, <3>3
    <2>5. QED
      BY <1>1, <1>3, <2>1, <2>4 DEF ChainInv, Depth
  <1>4. CASE ReturnText \/ ProviderAnswers
    <2> DEFINE d == Len(frames) - 1
    <2>1. /\ Len(frames') = d /\ d \in Nat \ {0} /\ d < Len(frames)
          /\ \A i \in 1..(d - 1) : frames'[i] = frames[i]
          /\ frames'[d].tpl = frames[d].tpl
          /\ frames'[d].via = frames[d].via
          /\ frames'[d].ip = frames[d].ip + 1
          /\ root' = root /\ mode' = "run"
      <3>1. Len(frames) - 2 = d - 1 /\ d = Len(frames) - 1 /\ d < Len(frames)
        BY <1>1
      <3>2. Len(frames') = d /\ d \in Nat \ {0}
        BY <1>4, ReturnSteps
      <3>3. \A i \in 1..(d - 1) : frames'[i] = frames[i]
        BY <1>4, <3>1, ReturnSteps
      <3>4. QED
        BY <1>4, <3>1, <3>2, <3>3, ReturnSteps
    <2> HIDE DEF d
    <2>2. /\ d \in 1..Len(frames) /\ frames[d].ip <= Len(prog[frames[d].tpl])
          /\ frames[d] \in Frames
      BY <1>1, <2>1 DEF ChainInv, Depth, TypeOK
    <2>3. frames[d].ip \in Nat /\ Len(prog[frames[d].tpl]) \in Nat
      <3>1. frames[d].tpl \in DOMAIN prog
        BY <2>2 DEF FrameInv, Depth
      <3>2. prog[frames[d].tpl] \in Seq(Ops)
        BY <3>1, ProgramsAssumption DEF TypeOK
      <3>3. QED
        BY <2>2, <3>2 DEF Frames
    <2>4. ASSUME NEW i \in 1..Len(frames')
          PROVE  /\ i = 1 => frames'[i].tpl = root
                 /\ frames'[i].ip <= Len(prog[frames'[i].tpl]) + 1
                 /\ i < Len(frames') =>
                       /\ frames'[i].ip <= Len(prog[frames'[i].tpl])
                       /\ prog[frames'[i].tpl][frames'[i].ip].op = frames'[i + 1].via
                       /\ prog[frames'[i].tpl][frames'[i].ip].tpl = frames'[i + 1].tpl
      <3>1. CASE i = d
        <4>1. i = 1 => frames[i].tpl = root
          BY <2>2, <3>1 DEF ChainInv, Depth
        <4>2. QED
          BY <2>1, <2>2, <2>3, <3>1, <4>1
      <3>2. CASE i < d
        <4>1. /\ i \in 1..Len(frames) /\ i < Len(frames) /\ i + 1 \in 1..d
              /\ i \in 1..(d - 1) /\ frames'[i] = frames[i]
          BY <2>1, <2>2, <3>2
        <4>2. i + 1 \in 1..(d - 1) \/ i + 1 = d
          BY <2>1, <4>1
        <4>3. frames'[i + 1].tpl = frames[i + 1].tpl /\ frames'[i + 1].via = frames[i + 1].via
          BY <2>1, <4>2
        <4>4. QED
          BY <2>1, <3>2, <4>1, <4>3 DEF ChainInv, Depth
      <3>3. QED
        BY <2>1, <3>1, <3>2
    <2>5. QED
      BY <1>1, <2>1, <2>4 DEF ChainInv, Depth
  <1>5. CASE Unwind
    <2>1. /\ Len(frames') = Len(frames) - 1 /\ Len(frames) \in Nat \ {0}
          /\ \A i \in 1..(Len(frames) - 1) : frames'[i] = frames[i]
      BY <1>5, PopFrames
    <2>2. mode' # "exec" /\ root' = root
      BY <1>5 DEF Unwind, history, request
    <2>3. ASSUME NEW i \in 1..Len(frames')
          PROVE  /\ i \in 1..Len(frames) /\ frames'[i] = frames[i]
                 /\ i < Len(frames') => i < Len(frames) /\ frames'[i + 1] = frames[i + 1]
      BY <2>1
    <2>4. QED
      BY <1>1, <2>2, <2>3 DEF ChainInv, Depth
  <1>6. ASSUME NEW t \in Templates, Request(t) PROVE ChainInv'
    <2>1. CASE t \in DOMAIN prog
      <3>1. frames' = <<Frame(t, "top")>> /\ mode' = "run" /\ root' = t
        BY <1>6, <2>1 DEF Request
      <3>2. Frame(t, "top").tpl = t /\ Frame(t, "top").ip = 1
        BY DEF Frame
      <3>3. Len(prog[t]) \in Nat
        BY <2>1, ProgramsAssumption DEF TypeOK
      <3>4. QED
        BY <1>1, <3>1, <3>2, <3>3 DEF ChainInv, Depth
    <2>2. CASE t \notin DOMAIN prog
      <3>1. UNCHANGED frames /\ Len(frames) = 0
        BY <1>6, <2>2 DEF Request, FrameInv, Depth
      <3>2. QED
        BY <3>1 DEF ChainInv, Depth
    <2>3. QED
      BY <2>1, <2>2
  <1>7. CASE Finish
    BY <1>7 DEF Finish, ChainInv, Depth
  <1>8. CASE SubmitSQL \/ SubmitText
    <2>1. /\ UNCHANGED <<frames, root>> /\ mode = "run"
          /\ Top.ip > Len(prog[Top.tpl])
      BY <1>8 DEF SubmitSQL, SubmitText, AtEnd, history, request
    <2>2. Top.ip <= Len(prog[Top.tpl]) + 1 /\ Top.ip \in Nat /\ Len(prog[Top.tpl]) \in Nat
      <3>1. Depth \in 1..Depth /\ Top \in Frames /\ prog[Top.tpl] \in Seq(Ops)
        BY <2>1, TopFacts
      <3>2. QED
        BY <3>1 DEF ChainInv, Top, Frames
    <2>3. Top.ip = Len(prog[Top.tpl]) + 1
      BY <2>1, <2>2
    <2>4. QED
      BY <1>1, <2>1, <2>3 DEF ChainInv, Depth, Top
  <1>9. CASE Panic \/ RejectSQL \/ ProviderFails \/ (Call /\ mode' # "run")
    <2>1. mode' # "exec" /\ UNCHANGED <<frames, root>>
      BY <1>9 DEF Panic, RejectSQL, ProviderFails, Call, Fail, At, AtEnd,
         history, request
    <2>2. QED
      BY <1>1, <2>1 DEF ChainInv, Depth
  <1>10. CASE Terminated
    BY <1>10 DEF Terminated, vars, registry, history, request, ChainInv, Depth
  <1>11. QED
    BY <1>2, <1>3, <1>4, <1>5, <1>6, <1>7, <1>8, <1>9, <1>10
       DEF Next, Render, Provider, Goes

-----------------------------------------------------------------------------
(* Where a template has its place in the plan, so has each of its          *)
(* operations, behind the effects of those before it.                      *)
LEMMA OpPlace ==
  ASSUME TypeOK, NEW t \in DOMAIN prog, NEW n \in 1..Len(prog[t]),
         NEW pos \in Nat, Holds(pos, Plan[t])
  PROVE  LET s == ScriptOf(prog[t], Plan)
             e == EffectsOf(prog[t][n], Plan)
         IN  /\ e \in Seq(Effects)
             /\ Len(s[n - 1]) \in Nat
             /\ Len(s[n]) = Len(s[n - 1]) + Len(e)
             /\ Holds(pos + Len(s[n - 1]), e)
  <1> DEFINE s == ScriptOf(prog[t], Plan)
             e == EffectsOf(prog[t][n], Plan)
  <1>1. /\ n - 1 \in 0..Len(prog[t]) /\ n \in 0..Len(prog[t])
        /\ Len(prog[t]) \in Nat
    <2>1. Len(prog[t]) \in Nat
      BY PlanParts, Zenon
    <2>2. QED
      BY <2>1
  <1>2. /\ \A m \in 0..Len(prog[t]) :
              /\ s[m] \in Seq(Effects) /\ Len(s[m]) \in Nat
              /\ Len(s[m]) <= Len(Plan[t])
              /\ \A k \in 1..Len(s[m]) : Plan[t][k] = s[m][k]
        /\ Len(Plan[t]) \in Nat
        /\ s[n] = s[n - 1] \o e /\ e \in Seq(Effects)
    BY PlanParts, Zenon
  <1> HIDE DEF s, e
  <1>3. /\ s[n] \in Seq(Effects) /\ Len(s[n]) \in Nat /\ Len(s[n]) <= Len(Plan[t])
        /\ \A k \in 1..Len(s[n]) : Plan[t][k] = s[n][k]
    BY <1>1, <1>2, Zenon
  <1>4. s[n - 1] \in Seq(Effects) /\ Len(s[n - 1]) \in Nat
    BY <1>1, <1>2, Zenon
  <1>5. /\ Len(s[n]) = Len(s[n - 1]) + Len(e)
        /\ \A k \in 1..Len(s[n - 1]) + Len(e) :
              s[n][k] = IF k <= Len(s[n - 1]) THEN s[n - 1][k] ELSE e[k - Len(s[n - 1])]
    BY <1>2, <1>4, ConcatProperties
  <1> DEFINE q == Len(s[n - 1])
  <1>6. Len(e) \in Nat /\ q \in Nat /\ Len(s[n]) = q + Len(e)
    BY <1>2, <1>4, <1>5
  <1>7. \A k \in 1..Len(e) : Plan[t][q + k] = e[k]
    <2> SUFFICES ASSUME NEW k \in 1..Len(e) PROVE Plan[t][q + k] = e[k]
      OBVIOUS
    <2>1. /\ q + k \in 1..(q + Len(e)) /\ ~(q + k <= q) /\ (q + k) - q = k
      BY <1>6
    <2>2. s[n][q + k] = e[k]
      BY <1>5, <2>1
    <2>3. QED
      BY <1>3, <1>6, <2>1, <2>2
  <1> HIDE DEF q
  <1>8. ScriptPlan \in Seq(Effects)
    BY PlanType
  <1>9. Len(ScriptPlan) \in Nat
    BY <1>8
  <1>10. pos + Len(Plan[t]) <= Len(ScriptPlan)
    BY DEF Holds
  <1>11. \A k \in 1..Len(Plan[t]) : ScriptPlan[pos + k] = Plan[t][k]
    BY DEF Holds
  <1>12. (pos + q) + Len(e) <= Len(ScriptPlan)
    BY <1>2, <1>3, <1>6, <1>9, <1>10
  <1>13. ASSUME NEW k \in 1..Len(e) PROVE ScriptPlan[(pos + q) + k] = e[k]
    <2>1. q + k \in 1..Len(Plan[t]) /\ (pos + q) + k = pos + (q + k)
      BY <1>2, <1>3, <1>6
    <2>2. QED
      BY <1>7, <1>11, <2>1
  <1>14. Holds(pos + q, e)
    BY <1>12, <1>13 DEF Holds
  <1>15. QED
    BY <1>2, <1>4, <1>5, <1>14 DEF s, e, q

(* The facts about one activation that the next lemmas share.              *)
LEMMA FrameFacts ==
  ASSUME TypeOK, FrameInv, ChainInv, NEW i \in 1..Depth
  PROVE  /\ frames[i] \in Frames /\ frames[i].tpl \in DOMAIN prog
         /\ frames[i].tpl \in Templates
         /\ prog[frames[i].tpl] \in Seq(Ops) /\ Len(prog[frames[i].tpl]) \in Nat
         /\ frames[i].ip \in Nat \ {0}
         /\ frames[i].ip <= Len(prog[frames[i].tpl]) + 1
         /\ Len(Before(frames[i])) \in Nat
         /\ frames[i].ip = 1 => Before(frames[i]) = <<>> /\ Len(Before(frames[i])) = 0
         /\ frames[i].ip = Len(prog[frames[i].tpl]) + 1 =>
               Before(frames[i]) = Plan[frames[i].tpl]
  <1>1. frames[i] \in Frames /\ frames[i].tpl \in DOMAIN prog
    BY DEF TypeOK, FrameInv, Depth
  <1>2. frames[i].ip \in Nat \ {0} /\ frames[i].ip <= Len(prog[frames[i].tpl]) + 1
    BY <1>1 DEF Frames, ChainInv
  <1> DEFINE t == frames[i].tpl
             n == frames[i].ip
             s == ScriptOf(prog[t], Plan)
  <1>3. /\ prog[t] \in Seq(Ops) /\ Len(prog[t]) \in Nat
        /\ s[0] = <<>> /\ Len(s[0]) = 0
        /\ s[Len(prog[t])] = Plan[t]
        /\ \A m \in 0..Len(prog[t]) : Len(s[m]) \in Nat
    BY <1>1, PlanParts, Zenon
  <1>4. Before(frames[i]) = s[n - 1]
    BY DEF Before
  <1>5. n \in Nat \ {0} /\ n <= Len(prog[t]) + 1
    BY <1>2
  <1>6. t \in Templates
    BY <1>1 DEF Frames
  <1> HIDE DEF t, n, s
  <1>7. n - 1 \in 0..Len(prog[t]) /\ (n = 1 => n - 1 = 0)
        /\ (n = Len(prog[t]) + 1 => n - 1 = Len(prog[t]))
    BY <1>3, <1>5
  <1>8. /\ Len(s[n - 1]) \in Nat
        /\ n = 1 => s[n - 1] = <<>> /\ Len(s[n - 1]) = 0
        /\ n = Len(prog[t]) + 1 => s[n - 1] = Plan[t]
    BY <1>3, <1>7
  <1>9. QED
    BY <1>1, <1>2, <1>3, <1>4, <1>6, <1>8 DEF t, n

(* What the innermost activation still has to be given, when a statement   *)
(* is with its provider, is the next effect of the plan.                   *)
LEMMA NextEffect ==
  ASSUME TypeOK, FrameInv, ChainInv, PlaceInv, FailInv, mode = "exec"
  PROVE  /\ Len(log) - since \in Nat
         /\ Len(log) - since + 1 \in 1..Len(ScriptPlan)
         /\ ScriptPlan[Len(log) - since + 1] = [tpl |-> Top.tpl, via |-> Top.via]
  <1>1. PICK at \in [1..Depth -> 0..Len(ScriptPlan)] : Placed(at)
    BY DEF PlaceInv
  <1>2. Depth \in Nat \ {0} /\ Top.via \in {"sql", "ext"}
    BY TopFacts DEF FrameInv
  <1>3. Depth # 1
    BY <1>2 DEF FrameInv, Top
  <1> DEFINE d == Depth - 1
             f == frames[d]
             op == prog[f.tpl][f.ip]
  <1>4. d \in 1..Depth /\ d < Depth /\ d + 1 = Depth /\ Depth \in 1..Depth /\ d \in 1..(Depth - 1)
    BY <1>2, <1>3
  <1>5. op.op = Top.via /\ op.tpl = Top.tpl /\ f.ip <= Len(prog[f.tpl])
    BY <1>4 DEF ChainInv, Top
  <1>6. f.tpl \in DOMAIN prog /\ f.ip \in 1..Len(prog[f.tpl])
    BY <1>4, <1>5, FrameFacts
  <1>7. at[d] \in Nat /\ Holds(at[d], Plan[f.tpl])
    BY <1>1, <1>4 DEF Placed
  <1>8. /\ Len(log) - since = at[Depth] + Len(Before(Top))
        /\ at[Depth] = at[d] + Len(Before(f))
    BY <1>1, <1>4 DEF Placed, Top
  <1>9. Before(Top) = Plan[Top.tpl]
    BY <1>4, FrameFacts DEF ChainInv, Top
  <1> DEFINE e == EffectsOf(op, Plan)
             q == Len(Before(f))
             c == Plan[Top.tpl]
  <1>10. e \in Seq(Effects) /\ q \in Nat /\ Holds(at[d] + q, e)
    BY <1>6, <1>7, OpPlace DEF Before
  <1>11. e = c \o <<[tpl |-> Top.tpl, via |-> Top.via]>>
    BY <1>2, <1>5 DEF EffectsOf
  <1>12. c \in Seq(Effects) /\ Len(c) \in Nat
    <2>1. Top.tpl \in DOMAIN prog
      BY TopFacts
    <2>2. QED
      BY <2>1, PlanParts, Zenon
  <1> DEFINE x == [tpl |-> Top.tpl, via |-> Top.via]
  <1>13. x \in Effects
    BY <1>2, TopFacts DEF Effects
  <1>14. e = c \o <<x>>
    BY <1>11
  <1>15. Len(log) - since = (at[d] + q) + Len(c)
    BY <1>8, <1>9
  <1> HIDE DEF e, q, c, x, f, op, d
  <1>16. Len(e) = Len(c) + 1 /\ e[Len(c) + 1] = x
    BY <1>12, <1>13, <1>14
  <1>17. ScriptPlan \in Seq(Effects)
    BY PlanType
  <1>18. Len(ScriptPlan) \in Nat
    BY <1>17
  <1>19. /\ (at[d] + q) + Len(e) <= Len(ScriptPlan)
         /\ \A k \in 1..Len(e) : ScriptPlan[(at[d] + q) + k] = e[k]
    BY <1>10 DEF Holds
  <1>20. Len(c) + 1 \in 1..Len(e)
    BY <1>12, <1>16
  <1>21. ScriptPlan[(at[d] + q) + (Len(c) + 1)] = x
    BY <1>16, <1>19, <1>20
  <1>22. /\ (at[d] + q) + (Len(c) + 1) = Len(log) - since + 1
         /\ Len(log) - since \in Nat
    BY <1>7, <1>10, <1>12, <1>15
  <1>23. Len(log) - since + 1 <= Len(ScriptPlan)
    BY <1>7, <1>10, <1>12, <1>16, <1>18, <1>19, <1>22
  <1>24. QED
    BY <1>18, <1>21, <1>22, <1>23 DEF x

-----------------------------------------------------------------------------
(* Nothing is displaced by a step that leaves activations and history be.  *)
LEMMA PlaceKept ==
  ASSUME Next, UNCHANGED <<frames, log, root, since>>, NEW at
  PROVE  Placed(at) => Placed(at)' /\ Depth' = Depth /\ ScriptPlan' = ScriptPlan
  <1>1. Plan' = Plan /\ ScriptPlan' = ScriptPlan /\ \A f : Before(f)' = Before(f)
    BY RegistryKept, PlanKept
  <1>2. Depth' = Depth
    BY DEF Depth
  <1>3. \A pos, s : Holds(pos, s)' <=> Holds(pos, s)
    BY <1>1 DEF Holds
  <1>4. QED
    BY <1>1, <1>2, <1>3 DEF Placed

(* Every step keeps the place of each activation in the plan.              *)
LEMMA PlaceStep ==
  ASSUME TypeOK, FrameInv, ChainInv, PlaceInv, FailInv, Next
  PROVE  PlaceInv'
  <1>1. UNCHANGED prog /\ Plan' = Plan /\ (UNCHANGED root => ScriptPlan' = ScriptPlan)
        /\ \A f : Before(f)' = Before(f)
    BY RegistryKept, PlanKept
  <1>2. /\ Len(log) \in Nat /\ since \in Nat /\ since <= Len(log)
         /\ Len(ScriptPlan) \in Nat
    <2>1. ScriptPlan \in Seq(Effects)
      BY PlanType
    <2>2. Len(ScriptPlan) \in Nat
      BY <2>1
    <2>3. QED
      BY <2>2 DEF TypeOK, FailInv
  <1>3. CASE Goes
    <2>1. /\ Len(frames') = Len(frames) /\ Len(frames) \in Nat \ {0}
          /\ \A i \in 1..Len(frames) : i # Len(frames) => frames'[i] = frames[i]
          /\ frames'[Len(frames)].tpl = Top.tpl
          /\ frames'[Len(frames)].ip = Top.ip + 1
          /\ Top.ip <= Len(prog[Top.tpl])
          /\ Op.op \notin {"run", "sql", "ext"}
          /\ mode = "run" /\ UNCHANGED <<log, root, since>>
      BY <1>3, GoesSteps
    <2>2. PICK at \in [1..Depth -> 0..Len(ScriptPlan)] : Placed(at)
      BY <2>1 DEF PlaceInv
    <2>3. Depth' = Depth /\ ScriptPlan' = ScriptPlan /\ Depth \in 1..Depth /\ Depth \in Nat
      BY <1>1, <2>1 DEF Depth
    <2> DEFINE f == frames[Depth]
               g == frames'[Depth]
               s == ScriptOf(prog[f.tpl], Plan)
    <2>4. /\ f.tpl \in DOMAIN prog /\ f.ip \in 1..Len(prog[f.tpl])
          /\ at[Depth] \in Nat /\ Holds(at[Depth], Plan[f.tpl])
      <3>1. f.tpl \in DOMAIN prog /\ f.ip \in 1..Len(prog[f.tpl])
        BY <2>1, <2>3, FrameFacts DEF Top
      <3>2. at[Depth] \in Nat /\ Holds(at[Depth], Plan[f.tpl])
        BY <2>2, <2>3 DEF Placed
      <3>3. QED
        BY <3>1, <3>2
    <2>5. EffectsOf(Op, Plan) = <<>>
      BY <2>1 DEF EffectsOf
    <2>6. Len(s[f.ip]) = Len(s[f.ip - 1]) + Len(EffectsOf(Op, Plan)) /\ Len(s[f.ip - 1]) \in Nat
      BY <2>4, OpPlace DEF Op, Top
    <2>7. Len(s[f.ip]) = Len(s[f.ip - 1])
      BY <2>5, <2>6
    <2>8. g.tpl = f.tpl /\ g.ip = f.ip + 1 /\ (f.ip + 1) - 1 = f.ip
      BY <2>1, <2>4 DEF Depth, Top
    <2>9. Len(Before(g)) = Len(Before(f))
      BY <2>7, <2>8 DEF Before
    <2> HIDE DEF g, s
    <2>10. \A i \in 1..Depth : i # Depth => frames'[i] = frames[i]
      BY <2>1 DEF Depth
    <2>11. \A i \in 1..Depth : frames'[i].tpl = frames[i].tpl
      BY <2>8, <2>10 DEF g
    <2>12. \A i \in 1..(Depth - 1) : i \in 1..Depth /\ i # Depth
      BY <2>3
    <2>13. Placed(at)'
      <3>1. at[1] = 0
        BY <2>2 DEF Placed
      <3>2. \A i \in 1..(Depth - 1) : at[i + 1] = at[i] + Len(Before(frames'[i]))
        BY <2>2, <2>10, <2>12 DEF Placed
      <3>3. \A i \in 1..Depth : Holds(at[i], Plan[frames'[i].tpl])
        BY <2>2, <2>11 DEF Placed
      <3>4. Len(log) - since = at[Depth] + Len(Before(frames'[Depth]))
        BY <2>2, <2>9 DEF Placed, g
      <3>5. \A i \in 1..Depth : Holds(at[i], Plan[frames[i].tpl])'
        BY <1>1, <2>3, <3>3 DEF Holds
      <3>6. QED
        BY <1>1, <2>1, <2>3, <3>1, <3>2, <3>4, <3>5 DEF Placed
    <2>14. QED
      BY <2>2, <2>3, <2>13 DEF PlaceInv
  <1>4. CASE Call /\ mode' = "run"
    <2>1. /\ Len(frames') = Len(frames) + 1 /\ Len(frames) \in Nat \ {0}
          /\ \A i \in 1..Len(frames) : frames'[i] = frames[i]
          /\ frames'[Len(frames) + 1] = Frame(Op.tpl, Op.op)
          /\ Op.op \in {"run", "sql", "ext"}
          /\ Op.tpl \in DOMAIN prog /\ Top.ip <= Len(prog[Top.tpl])
          /\ mode = "run" /\ UNCHANGED <<log, root, since>>
      BY <1>4, PushSteps
    <2>2. PICK at \in [1..Depth -> 0..Len(ScriptPlan)] : Placed(at)
      BY <2>1 DEF PlaceInv
    <2> DEFINE n == Depth + 1
               f == frames[Depth]
               c == Frame(Op.tpl, Op.op)
               q == Len(Before(f))
               e == EffectsOf(Op, Plan)
    <2>3. PICK b : b = [i \in 1..n |-> IF i = n THEN at[Depth] + q ELSE at[i]]
      OBVIOUS
    <2>4. /\ Depth' = n /\ ScriptPlan' = ScriptPlan
          /\ Depth \in 1..Depth /\ Depth \in Nat \ {0} /\ n - 1 = Depth
          /\ \A i \in 1..n : i \in 1..Depth \/ i = n
          /\ \A i \in 1..Depth : i \in 1..n /\ i # n
          /\ n \in 1..n /\ 1 # n
      BY <1>1, <2>1 DEF Depth
    <2>5. /\ f.tpl \in DOMAIN prog /\ f.ip \in 1..Len(prog[f.tpl])
          /\ at[Depth] \in Nat /\ Holds(at[Depth], Plan[f.tpl])
      BY <2>1, <2>2, <2>4, FrameFacts DEF Placed, Top
    <2>6. e \in Seq(Effects) /\ q \in Nat /\ Holds(at[Depth] + q, e)
      BY <2>5, OpPlace DEF Op, Top, Before
    <2>7. Plan[Op.tpl] \in Seq(Effects) /\ Len(Plan[Op.tpl]) \in Nat
      BY <2>1, PlanParts, Zenon
    <2>8. e = Plan[Op.tpl] \/ e = Plan[Op.tpl] \o <<[tpl |-> Op.tpl, via |-> Op.op]>>
      BY <2>1 DEF EffectsOf
    <2>9. Holds(at[Depth] + q, Plan[Op.tpl])
      <3>1. CASE e = Plan[Op.tpl]
        BY <2>6, <3>1
      <3>2. CASE e = Plan[Op.tpl] \o <<[tpl |-> Op.tpl, via |-> Op.op]>>
        <4> DEFINE p == Plan[Op.tpl]
                   x == [tpl |-> Op.tpl, via |-> Op.op]
                   pos == at[Depth] + q
        <4>1. pos \in Nat
          BY <2>5, <2>6
        <4>2. x \in [tpl : {Op.tpl}, via : {Op.op}] /\ p \in Seq(Effects)
          BY <2>7
        <4>3. e = p \o <<x>> /\ Holds(pos, e) /\ Len(p) \in Nat
          BY <2>6, <2>7, <3>2
        <4> HIDE DEF p, x, pos, e
        <4>4. Len(e) = Len(p) + 1 /\ \A k \in 1..Len(p) : e[k] = p[k] /\ k \in 1..Len(e)
          BY <4>2, <4>3
        <4>5. Holds(pos, p)
          BY <1>2, <4>1, <4>3, <4>4 DEF Holds
        <4>6. QED
          BY <4>5 DEF p, pos
      <3>3. QED
        BY <2>8, <3>1, <3>2
    <2>10. at[Depth] + q \in 0..Len(ScriptPlan)
      BY <1>2, <2>5, <2>6, <2>7, <2>9 DEF Holds
    <2>11. b \in [1..n -> 0..Len(ScriptPlan)]
      BY <2>3, <2>4, <2>10
    <2>12. /\ \A i \in 1..Depth : b[i] = at[i]
           /\ b[n] = at[Depth] + q
      BY <2>3, <2>4
    <2>13. c.tpl = Op.tpl /\ c.ip = 1
      BY DEF Frame
    <2>14. Len(Before(c)) = 0
      <3>1. 1 - 1 = 0
        OBVIOUS
      <3>2. Len(ScriptOf(prog[Op.tpl], Plan)[0]) = 0
        BY <2>1, PlanParts, Zenon
      <3>3. QED
        BY <2>13, <3>1, <3>2 DEF Before
    <2> HIDE DEF e, c, q, n
    <2>15. /\ \A i \in 1..Depth : frames'[i] = frames[i]
           /\ frames'[n] = c
      BY <2>1 DEF Depth, n, c
    <2>16. Placed(b)'
      <3>1. b[1] = 0
        BY <2>2, <2>4, <2>12 DEF Placed
      <3>2. \A i \in 1..(n - 1) : b[i + 1] = b[i] + Len(Before(frames'[i]))
        <4> SUFFICES ASSUME NEW i \in 1..Depth
                     PROVE  b[i + 1] = b[i] + Len(Before(frames[i]))
          BY <2>4, <2>15
        <4>1. CASE i = Depth
          BY <2>4, <2>12, <4>1 DEF q, n
        <4>2. CASE i # Depth
          <5>1. i \in 1..(Depth - 1) /\ i + 1 \in 1..Depth
            BY <2>4, <4>2
          <5>2. QED
            BY <2>2, <2>12, <5>1 DEF Placed
        <4>3. QED
          BY <4>1, <4>2
      <3>3. \A i \in 1..n : Holds(b[i], Plan[frames'[i].tpl])
        <4>1. \A i \in 1..Depth : Holds(b[i], Plan[frames'[i].tpl])
          BY <2>2, <2>12, <2>15 DEF Placed
        <4>2. Holds(b[n], Plan[frames'[n].tpl])
          BY <2>9, <2>12, <2>13, <2>15
        <4>3. QED
          BY <2>4, <4>1, <4>2
      <3>4. Len(log) - since = b[n] + Len(Before(frames'[n]))
        <4>1. Len(log) - since = at[Depth] + q
          BY <2>2 DEF Placed, q
        <4>2. QED
          BY <2>5, <2>6, <2>12, <2>14, <2>15, <4>1
      <3>5. \A i \in 1..n : Holds(b[i], Plan[frames[i].tpl])'
        BY <1>1, <2>4, <3>3 DEF Holds
      <3>6. QED
        BY <1>1, <2>1, <2>4, <3>1, <3>2, <3>4, <3>5 DEF Placed
    <2>17. QED
      BY <2>4, <2>11, <2>16 DEF PlaceInv
  <1>5. CASE ReturnText \/ ProviderAnswers
    <2> DEFINE d == Len(frames) - 1
    <2>1. /\ Len(frames') = d /\ d \in Nat \ {0} /\ d < Len(frames)
          /\ \A i \in 1..(d - 1) : frames'[i] = frames[i]
          /\ frames'[d].tpl = frames[d].tpl
          /\ frames'[d].ip = frames[d].ip + 1
          /\ UNCHANGED <<root, since>> /\ mode' = "run"
      <3>1. Len(frames) - 2 = d - 1 /\ d = Len(frames) - 1
        BY <1>5, ReturnSteps
      <3>2. Len(frames') = d /\ d \in Nat \ {0} /\ d < Len(frames)
        BY <1>5, ReturnSteps
      <3>3. \A i \in 1..(d - 1) : frames'[i] = frames[i]
        BY <1>5, <3>1, ReturnSteps
      <3>4. QED
        BY <1>5, <3>1, <3>2, <3>3, ReturnSteps
    <2>2. PICK at \in [1..Depth -> 0..Len(ScriptPlan)] : Placed(at)
      BY <1>5 DEF PlaceInv, ReturnText, ProviderAnswers, AtEnd
    <2>3. /\ Depth' = d /\ ScriptPlan' = ScriptPlan /\ d + 1 = Depth
          /\ d \in 1..Depth /\ d < Depth /\ d \in 1..(Depth - 1) /\ Depth \in 1..Depth
          /\ d \in 1..d
      <3>1. Len(frames) \in Nat /\ d + 1 = Len(frames)
        BY <1>5, ReturnSteps
      <3> HIDE DEF d
      <3>2. QED
        BY <1>1, <2>1, <3>1 DEF Depth
    <2> DEFINE f == frames[d]
               g == frames'[d]
               op == prog[f.tpl][f.ip]
               s == ScriptOf(prog[f.tpl], Plan)
               e == EffectsOf(op, Plan)
    <2>4. op.op = Top.via /\ op.tpl = Top.tpl /\ f.ip <= Len(prog[f.tpl])
      BY <2>3 DEF ChainInv, Top
    <2>5. f.tpl \in DOMAIN prog /\ f.ip \in 1..Len(prog[f.tpl])
      <3>1. d \in 1..Depth /\ f = frames[d]
        BY <2>3
      <3> HIDE DEF d, f
      <3>2. /\ f.tpl \in DOMAIN prog /\ Len(prog[f.tpl]) \in Nat
            /\ f.ip \in Nat \ {0}
        BY <3>1, FrameFacts
      <3>3. f.ip <= Len(prog[f.tpl])
        BY <2>4
      <3>4. QED
        BY <3>2, <3>3
    <2>6. at[d] \in Nat /\ Holds(at[d], Plan[f.tpl])
      BY <2>2, <2>3 DEF Placed
    <2>7. /\ Len(log) - since = at[Depth] + Len(Before(Top))
          /\ at[Depth] = at[d] + Len(Before(f))
      BY <2>2, <2>3 DEF Placed, Top
    <2>8. Before(Top) = Plan[Top.tpl]
      <3>1. Top.ip = Len(prog[Top.tpl]) + 1
        <4>1. CASE ReturnText
          <5>1. Top.ip > Len(prog[Top.tpl])
            BY <4>1 DEF ReturnText, AtEnd
          <5>2. /\ Top.ip \in Nat /\ Len(prog[Top.tpl]) \in Nat
                /\ Top.ip <= Len(prog[Top.tpl]) + 1
            BY <2>3, FrameFacts DEF Top
          <5>3. QED
            BY <5>1, <5>2
        <4>2. CASE ProviderAnswers
          BY <2>3, <4>2 DEF ProviderAnswers, ChainInv, Top
        <4>3. QED
          BY <1>5, <4>1, <4>2
      <3>2. QED
        BY <2>3, <3>1, FrameFacts DEF Top
    <2>9. e \in Seq(Effects) /\ Len(s[f.ip - 1]) \in Nat
          /\ Len(s[f.ip]) = Len(s[f.ip - 1]) + Len(e)
      BY <2>5, <2>6, OpPlace
    <2>10. g.tpl = f.tpl /\ g.ip = f.ip + 1 /\ (f.ip + 1) - 1 = f.ip
      BY <2>1, <2>5
    <2>11. Len(Before(g)) = Len(Before(f)) + Len(e) /\ Len(Before(f)) \in Nat
      BY <2>9, <2>10 DEF Before
    <2>12. Plan[Top.tpl] \in Seq(Effects) /\ Len(Plan[Top.tpl]) \in Nat
      <3>1. Top.tpl \in DOMAIN prog
        BY <2>3, FrameFacts DEF Top
      <3>2. QED
        BY <3>1, PlanParts, Zenon
    <2> HIDE DEF s
    <2>13. Len(log') - since' = at[d] + Len(Before(g))
      <3>1. CASE ReturnText
        <4>1. Top.via = "run" /\ UNCHANGED log
          BY <3>1 DEF ReturnText, AtEnd, history
        <4>2. e = Plan[Top.tpl]
          BY <2>4, <4>1 DEF EffectsOf
        <4> HIDE DEF e, f, g, op, d
        <4>3. QED
          BY <2>1, <2>6, <2>7, <2>8, <2>11, <2>12, <4>1, <4>2
      <3>2. CASE ProviderAnswers
        <4>1. Top.via \in {"sql", "ext"} /\ Len(log') = Len(log) + 1
          <5>1. mode = "exec" /\ log' = Submitted(TRUE)
            BY <3>2 DEF ProviderAnswers
          <5>2. QED
            BY <5>1, LogStep DEF FrameInv
        <4>2. e = Plan[Top.tpl] \o <<[tpl |-> Top.tpl, via |-> Top.via]>>
          BY <2>4, <4>1 DEF EffectsOf
        <4>3. [tpl |-> Top.tpl, via |-> Top.via] \in [tpl : {Top.tpl}, via : {Top.via}]
          OBVIOUS
        <4>4. Len(e) = Len(Plan[Top.tpl]) + 1
          <5> DEFINE x == [tpl |-> Top.tpl, via |-> Top.via]
                     c == Plan[Top.tpl]
          <5>1. e = c \o <<x>> /\ c \in Seq(Effects)
            BY <2>12, <4>2
          <5> HIDE DEF x, c, e
          <5>2. Len(e) = Len(c) + 1
            BY <5>1
          <5>3. QED
            BY <5>2 DEF c
        <4>5. Len(log') - since' = (Len(log) - since) + 1
          BY <1>2, <2>1, <4>1
        <4>6. Len(log) - since = (at[d] + Len(Before(f))) + Len(Plan[Top.tpl])
          BY <2>7, <2>8
        <4> HIDE DEF e, f, g, op, d
        <4>7. QED
          BY <2>6, <2>11, <2>12, <4>4, <4>5, <4>6
      <3>3. QED
        BY <1>5, <3>1, <3>2
    <2> HIDE DEF e, op
    <2> HIDE DEF d
    <2>14. PICK b : b = [i \in 1..d |-> at[i]]
      OBVIOUS
    <2>15. \A i \in 1..d : i \in 1..Depth /\ b[i] = at[i]
      BY <2>14, <2>3
    <2>16. b \in [1..d -> 0..Len(ScriptPlan)]
      BY <2>14, <2>15
    <2>17. \A i \in 1..d : frames'[i].tpl = frames[i].tpl
      BY <2>1, <2>3
    <2>18. Placed(b)'
      <3>1. b[1] = 0
        BY <2>1, <2>2, <2>15 DEF Placed
      <3>2. \A i \in 1..(d - 1) : b[i + 1] = b[i] + Len(Before(frames'[i]))
        <4> SUFFICES ASSUME NEW i \in 1..(d - 1)
                     PROVE  b[i + 1] = b[i] + Len(Before(frames[i]))
          BY <2>1
        <4>1. i \in 1..d /\ i + 1 \in 1..d /\ i \in 1..(Depth - 1)
          BY <2>1, <2>3
        <4>2. QED
          BY <2>2, <2>15, <4>1 DEF Placed
      <3>3. \A i \in 1..d : Holds(b[i], Plan[frames'[i].tpl])
        BY <2>2, <2>15, <2>17 DEF Placed
      <3>4. Len(log') - since' = b[d] + Len(Before(frames'[d]))
        BY <2>3, <2>13, <2>15 DEF g
      <3>5. \A i \in 1..d : Holds(b[i], Plan[frames[i].tpl])'
        BY <1>1, <2>3, <3>3 DEF Holds
      <3>6. QED
        BY <1>1, <2>1, <2>3, <3>1, <3>2, <3>4, <3>5 DEF Placed
    <2>19. QED
      BY <2>3, <2>16, <2>18 DEF PlaceInv
  <1>6. ASSUME NEW t \in Templates, Request(t) PROVE PlaceInv'
    <2>1. CASE t \in DOMAIN prog
      <3>1. /\ frames' = <<Frame(t, "top")>> /\ root' = t
            /\ since' = Len(log) /\ UNCHANGED log
        BY <1>6, <2>1 DEF Request
      <3>2. Depth' = 1 /\ frames'[1] = Frame(t, "top")
        BY <3>1 DEF Depth
      <3>3. Frame(t, "top").tpl = t /\ Frame(t, "top").ip = 1
        BY DEF Frame
      <3>4. ScriptPlan' = Plan[t]
        BY <1>1, <2>1, <3>1 DEF ScriptPlan
      <3>5. Len(Before(Frame(t, "top"))) = 0
        <4>1. 1 - 1 = 0
          OBVIOUS
        <4>2. Len(ScriptOf(prog[t], Plan)[0]) = 0
          BY <2>1, PlanParts, Zenon
        <4>3. QED
          BY <3>3, <4>1, <4>2 DEF Before
      <3>6. Len(Plan[t]) \in Nat
        BY <2>1, PlanParts, Zenon
      <3>7. PICK at : at = [i \in 1..1 |-> 0]
        OBVIOUS
      <3>8. at \in [1..1 -> 0..Len(Plan[t])] /\ at[1] = 0
        BY <3>7, <3>6
      <3>9. Holds(0, Plan[t])'
        <4>1. 0 + Len(Plan[t]) <= Len(Plan[t]) /\ \A k \in 1..Len(Plan[t]) : 0 + k = k
          BY <3>6
        <4>2. QED
          BY <1>1, <3>4, <4>1 DEF Holds
      <3>10. Len(log') - since' = 0
        BY <1>2, <3>1
      <3>11. Placed(at)'
        <4>1. \A i \in 1..(1 - 1) : FALSE
          OBVIOUS
        <4>2. \A i \in 1..1 : i = 1
          OBVIOUS
        <4>3. Holds(at[1], Plan[frames[1].tpl])'
          BY <3>2, <3>3, <3>8, <3>9, <1>1
        <4>4. Len(log') - since' = at[1] + Len(Before(frames'[1]))
          BY <3>2, <3>5, <3>8, <3>10
        <4>5. QED
          BY <1>1, <3>2, <3>8, <4>1, <4>2, <4>3, <4>4 DEF Placed
      <3>12. QED
        BY <3>2, <3>4, <3>8, <3>11 DEF PlaceInv
    <2>2. CASE t \notin DOMAIN prog
      <3>1. mode' = "idle"
        BY <1>6, <2>2 DEF Request
      <3>2. QED
        BY <3>1 DEF PlaceInv
    <2>3. QED
      BY <2>1, <2>2
  <1>7. CASE SubmitSQL \/ SubmitText
    <2>1. UNCHANGED <<frames, log, root, since>> /\ mode = "run"
      BY <1>7 DEF SubmitSQL, SubmitText, AtEnd, history, request
    <2>2. QED
      BY <2>1, PlaceKept DEF PlaceInv
  <1>8. CASE mode' \in {"idle", "failing"}
    BY <1>8 DEF PlaceInv
  <1>9. CASE Terminated
    BY <1>9, PlaceKept DEF Terminated, vars, history, request, PlaceInv
  <1>10. QED
    <2>1. Panic \/ RejectSQL \/ ProviderFails \/ Unwind \/ Finish \/ (Call /\ mode' # "run")
            => mode' \in {"idle", "failing"}
      BY DEF Panic, RejectSQL, ProviderFails, Unwind, Finish, Call, Fail, At
    <2>2. QED
      BY <1>3, <1>4, <1>5, <1>6, <1>7, <1>8, <1>9, <2>1
         DEF Next, Render, Provider, Goes

-----------------------------------------------------------------------------
(* What was executed stays the beginning of the plan.                      *)
LEMMA DoneStep ==
  ASSUME TypeOK, FrameInv, ChainInv, PlaceInv, DoneInv, FailInv, Next
  PROVE  DoneInv'
  <1>1. Len(log) \in Nat /\ since \in Nat /\ since <= Len(log)
    BY DEF TypeOK, FailInv
  <1>2. ASSUME NEW t \in Templates, Request(t) PROVE DoneInv'
    <2>1. CASE t \in DOMAIN prog
      <3>1. /\ root' = t /\ since' = Len(log) /\ UNCHANGED log
        BY <1>2, <2>1 DEF Request
      <3>2. ScriptPlan' = Plan[t]
        BY <2>1, <3>1, RegistryKept, PlanKept DEF ScriptPlan
      <3>3. Len(Plan[t]) \in Nat
        BY <2>1, PlanParts, Zenon
      <3>4. Len(log') - since' = 0
        BY <1>1, <3>1
      <3>5. QED
        BY <3>2, <3>3, <3>4 DEF DoneInv
    <2>2. CASE t \notin DOMAIN prog
      BY <1>2, <2>2 DEF Request, DoneInv
    <2>3. QED
      BY <2>1, <2>2
  <1>3. CASE ProviderAnswers
    <2>1. /\ mode = "exec" /\ log' = Submitted(TRUE) /\ UNCHANGED <<root, since>>
      BY <1>3 DEF ProviderAnswers, request
    <2>2. /\ Len(log') = Len(log) + 1
          /\ \A e \in 1..Len(log) : log'[e] = log[e]
          /\ log'[Len(log) + 1] = [tpl |-> Top.tpl, via |-> Top.via,
                                   stmt |-> stmt, ok |-> TRUE]
      BY <2>1, LogStep
    <2>3. ScriptPlan' = ScriptPlan
      BY <2>1, RegistryKept, PlanKept
    <2> DEFINE n == Len(log) - since
    <2>4. /\ n \in Nat /\ n + 1 \in 1..Len(ScriptPlan)
          /\ ScriptPlan[n + 1] = [tpl |-> Top.tpl, via |-> Top.via]
      BY <2>1, NextEffect
    <2>5. \A k \in 1..n : [tpl |-> log[since + k].tpl, via |-> log[since + k].via] = ScriptPlan[k]
      <3>1. mode \in {"run", "exec"}
        BY <2>1
      <3>2. QED
        BY <3>1 DEF DoneInv
    <2>6. since' = since /\ Len(log') = Len(log) + 1
      BY <2>1, <2>2
    <2>7. since + n = Len(log) /\ Len(log') - since' = n + 1 /\ since' = since
      BY <1>1, <2>6
    <2> HIDE DEF n
    <2>8. n + 1 <= Len(ScriptPlan)
      BY <2>4
    <2>9. ASSUME NEW k \in 1..(n + 1)
          PROVE  [tpl |-> log'[since + k].tpl, via |-> log'[since + k].via] = ScriptPlan[k]
      <3>1. CASE k = n + 1
        <4>1. since + k = Len(log) + 1
          BY <1>1, <2>4, <2>7, <3>1
        <4>2. log'[since + k].tpl = Top.tpl /\ log'[since + k].via = Top.via
          BY <2>2, <4>1
        <4>3. QED
          BY <2>4, <3>1, <4>2
      <3>2. CASE k \in 1..n
        <4>1. since + k \in 1..Len(log)
          BY <1>1, <2>4, <2>7, <3>2
        <4>2. QED
          BY <2>2, <2>5, <3>2, <4>1
      <3>3. QED
        BY <2>4, <3>1, <3>2
    <2>10. QED
      BY <2>3, <2>7, <2>8, <2>9 DEF DoneInv
  <1>4. CASE mode' \in {"idle", "failing"}
    BY <1>4 DEF DoneInv
  <1>5. CASE mode \in {"run", "exec"} /\ UNCHANGED <<log, root, since>>
    <2>1. ScriptPlan' = ScriptPlan
      BY <1>5, RegistryKept, PlanKept
    <2>2. QED
      BY <1>5, <2>1 DEF DoneInv
  <1>6. QED
    <2>1. \/ \E t \in Templates : Request(t)
          \/ ProviderAnswers
          \/ mode' \in {"idle", "failing"}
          \/ mode \in {"run", "exec"} /\ UNCHANGED <<log, root, since>>
      BY DEF Next, Render, Provider, Terminated, Set, GetSetValue, Time, Text,
         In, Panic, Call, Finish, ReturnText, RejectSQL, SubmitSQL, SubmitText,
         Unwind, ProviderFails, Fail, EnterProvider, At, AtEnd, vars, history,
         request
    <2>2. QED
      BY <1>2, <1>3, <1>4, <1>5, <2>1

ScriptInv == IInv /\ ChainInv /\ PlaceInv /\ DoneInv

LEMMA InitScript == Init => ScriptInv
  <1> SUFFICES ASSUME Init PROVE ScriptInv
    OBVIOUS
  <1>1. IInv
    BY InitInv
  <1>2. ChainInv /\ PlaceInv /\ DoneInv
    BY DEF Init, ChainInv, PlaceInv, DoneInv, Depth
  <1>3. QED
    BY <1>1, <1>2 DEF ScriptInv

LEMMA NextScript == ScriptInv /\ [Next]_vars => ScriptInv'
  <1> SUFFICES ASSUME ScriptInv, [Next]_vars PROVE ScriptInv'
    OBVIOUS
  <1>1. TypeOK /\ FrameInv /\ FailInv
    BY DEF ScriptInv, IInv
  <1>2. IInv'
    BY NextInv DEF ScriptInv
  <1>3. CASE Next
    BY <1>1, <1>2, <1>3, ChainStep, PlaceStep, DoneStep DEF ScriptInv
  <1>4. CASE UNCHANGED vars
    <2>1. UNCHANGED <<prog, mode, frames, log, root, since>>
      BY <1>4 DEF vars, registry, history, request
    <2>2. Plan' = Plan /\ ScriptPlan' = ScriptPlan /\ \A f : Before(f)' = Before(f)
      BY <2>1, PlanKept
    <2>3. Depth' = Depth
      BY <2>1 DEF Depth
    <2>4. \A pos, s : Holds(pos, s)' <=> Holds(pos, s)
      BY <2>2 DEF Holds
    <2>5. ASSUME NEW at, Placed(at) PROVE Placed(at)'
      BY <2>1, <2>2, <2>3, <2>4, <2>5 DEF Placed
    <2>6. PlaceInv'
      BY <2>1, <2>2, <2>3, <2>5 DEF PlaceInv, ScriptInv
    <2>7. ChainInv' /\ DoneInv'
      BY <2>1, <2>2, <2>3 DEF ChainInv, DoneInv, ScriptInv
    <2>8. QED
      BY <1>2, <2>6, <2>7 DEF ScriptInv
  <1>5. QED
    BY <1>3, <1>4

-----------------------------------------------------------------------------
(* No effect has been executed when a request begins.                      *)
LEMMA ScriptBegins ==
  ASSUME TypeOK, FrameInv, FailInv, Next, NEW t \in Templates, Request(t)
  PROVE  Straight!Begin
  <1>1. mode = "idle" /\ since' = Len(log) /\ UNCHANGED log /\ root' = t
    BY DEF Request
  <1>2. ScriptStatus # "running"
    BY <1>1 DEF ScriptStatus
  <1>3. ScriptPlan' = IF t \in DOMAIN prog THEN Plan[t] ELSE <<>>
    BY <1>1, RegistryKept, PlanKept DEF ScriptPlan
  <1>4. ScriptPlan' \in Seq(Effects)
    <2>1. t \in DOMAIN prog => Plan[t] \in Seq(Effects)
      BY PlanParts, Zenon
    <2>2. <<>> \in Seq(Effects)
      OBVIOUS
    <2>3. QED
      BY <1>3, <2>1, <2>2
  <1>5. ScriptDone' = <<>>
    <2>1. Len(log') - since' = 0
      BY <1>1 DEF TypeOK
    <2>2. QED
      BY <2>1 DEF ScriptDone
  <1>6. ScriptStatus' = "running" \/ (ScriptStatus' = "failed" /\ ScriptPlan' = <<>>)
    BY <1>1, <1>3 DEF Request, ScriptStatus
  <1>7. QED
    BY <1>2, <1>4, <1>5, <1>6 DEF Straight!Begin

(* The effects executed for a request, as a sequence.                      *)
LEMMA DoneType ==
  ASSUME TypeOK, FailInv
  PROVE  /\ Len(log) - since \in Nat
         /\ ScriptDone \in Seq([tpl : Templates, via : Vias])
         /\ Len(ScriptDone) = Len(log) - since
  <1>1. Len(log) \in Nat /\ since \in Nat /\ since <= Len(log)
    BY DEF TypeOK, FailInv
  <1> DEFINE n == Len(log) - since
  <1>2. n \in Nat
    BY <1>1
  <1>3. \A k \in 1..n : since + k \in 1..Len(log)
    BY <1>1
  <1>4. \A k \in 1..n : log[since + k] \in Entries
    BY <1>3 DEF TypeOK
  <1>5. \A k \in 1..n : log[since + k].tpl \in Templates /\ log[since + k].via \in Vias
    <2>1. \A e \in Entries : e.tpl \in Templates /\ e.via \in Vias
      BY DEF Entries
    <2>2. QED
      BY <1>4, <2>1
  <1>6. ScriptDone = [i \in 1..n |-> [tpl |-> log[since + i].tpl, via |-> log[since + i].via]]
    BY DEF ScriptDone
  <1> HIDE DEF n, ScriptDone
  <1>7. ScriptDone \in [1..n -> [tpl : Templates, via : Vias]]
    BY <1>5, <1>6
  <1> DEFINE R == [tpl : Templates, via : Vias]
  <1>8. ScriptDone \in [1..n -> R]
    BY <1>7
  <1> HIDE DEF R
  <1>9. ScriptDone \in Seq(R) /\ Len(ScriptDone) = n
    BY <1>2, <1>8
  <1>10. ScriptDone \in Seq([tpl : Templates, via : Vias]) /\ Len(ScriptDone) = n
    BY <1>9 DEF R
  <1>11. QED
    BY <1>2, <1>10 DEF n

(* What a provider is given is the next effect of the script, whether it   *)
(* succeeds or not.                                                        *)
LEMMA ScriptExecutes ==
  ASSUME TypeOK, FrameInv, FailInv, ChainInv, PlaceInv, Next, Provider
  PROVE  Straight!Execute
  <1>1. /\ mode = "exec" /\ mode' \in {"run", "failing"}
        /\ UNCHANGED <<root, since>>
        /\ \E ok \in BOOLEAN : log' = Submitted(ok)
    BY DEF Provider, ProviderAnswers, ProviderFails, Fail, request
  <1>2. ScriptStatus = "running" /\ ScriptStatus' \in {"running", "failed"}
    BY <1>1 DEF ScriptStatus
  <1>3. ScriptPlan' = ScriptPlan
    BY <1>1, RegistryKept, PlanKept
  <1> DEFINE n == Len(log) - since
             x == [tpl |-> Top.tpl, via |-> Top.via]
  <1>4. n \in Nat /\ n + 1 \in 1..Len(ScriptPlan) /\ ScriptPlan[n + 1] = x
    BY <1>1, NextEffect
  <1>5. ScriptPlan \in Seq(Effects)
    BY PlanType
  <1>6. Len(ScriptDone) = n /\ ScriptDone \in Seq([tpl : Templates, via : Vias])
    BY DoneType
  <1>7. Len(ScriptDone) < Len(ScriptPlan)
    BY <1>4, <1>5, <1>6
  <1>8. /\ Len(log') = Len(log) + 1
        /\ \A e \in 1..Len(log) : log'[e] = log[e]
        /\ log'[Len(log) + 1].tpl = Top.tpl /\ log'[Len(log) + 1].via = Top.via
    <2>1. PICK ok \in BOOLEAN : log' = Submitted(ok)
      BY <1>1
    <2>2. /\ Len(log') = Len(log) + 1
          /\ \A e \in 1..Len(log) : log'[e] = log[e]
          /\ log'[Len(log) + 1] = [tpl |-> Top.tpl, via |-> Top.via,
                                   stmt |-> stmt, ok |-> ok]
      BY <1>1, <2>1, LogStep
    <2>3. QED
      BY <2>2
  <1>9. /\ Len(log') - since' = n + 1 /\ since' = since
        /\ \A k \in 1..n : since + k \in 1..Len(log)
        /\ since + (n + 1) = Len(log) + 1
    BY <1>1, <1>8 DEF TypeOK, FailInv
  <1>10. /\ ScriptDone = [i \in 1..n |-> [tpl |-> log[since + i].tpl, via |-> log[since + i].via]]
         /\ ScriptDone' = [i \in 1..(n + 1) |->
                             [tpl |-> log'[since + i].tpl, via |-> log'[since + i].via]]
    BY <1>9 DEF ScriptDone
  <1> HIDE DEF n
  <1>11. Append(ScriptDone, x) = [i \in 1..(n + 1) |-> IF i = n + 1 THEN x ELSE ScriptDone[i]]
    BY <1>4, <1>6 DEF x
  <1>12. \A i \in 1..(n + 1) : [tpl |-> log'[since + i].tpl, via |-> log'[since + i].via]
                                = IF i = n + 1 THEN x ELSE ScriptDone[i]
    <2> SUFFICES ASSUME NEW i \in 1..(n + 1)
                 PROVE  [tpl |-> log'[since + i].tpl, via |-> log'[since + i].via]
                          = IF i = n + 1 THEN x ELSE ScriptDone[i]
      OBVIOUS
    <2>1. CASE i = n + 1
      BY <1>8, <1>9, <2>1
    <2>2. CASE i \in 1..n
      <3>1. ScriptDone[i] = [tpl |-> log[since + i].tpl, via |-> log[since + i].via]
        BY <1>10, <2>2
      <3>2. log'[since + i] = log[since + i] /\ i # n + 1
        BY <1>4, <1>8, <1>9, <2>2
      <3>3. QED
        BY <3>1, <3>2
    <2>3. QED
      BY <1>4, <2>1, <2>2
  <1> HIDE DEF x
  <1>13. ScriptDone' = Append(ScriptDone, x)
    BY <1>10, <1>11, <1>12
  <1>14. QED
    BY <1>2, <1>3, <1>4, <1>6, <1>7, <1>13 DEF Straight!Execute

(* A rendering that ends well has executed the whole script.               *)
LEMMA ScriptSucceeds ==
  ASSUME TypeOK, FrameInv, FailInv, ChainInv, PlaceInv, DoneInv, Next, Finish
  PROVE  Straight!Succeed
  <1>1. /\ mode = "run" /\ Top.via = "top" /\ Top.ip > Len(prog[Top.tpl])
        /\ mode' = "idle" /\ result' = "ok" /\ UNCHANGED <<log, root, since>>
    BY DEF Finish, AtEnd, history, request
  <1>2. ScriptStatus = "running" /\ ScriptStatus' = "ok"
    BY <1>1 DEF ScriptStatus
  <1>3. ScriptPlan' = ScriptPlan /\ ScriptDone' = ScriptDone
    BY <1>1, RegistryKept, PlanKept DEF ScriptDone
  <1>4. Depth = 1
    <2>1. Depth \in Nat \ {0} /\ Depth \in 1..Depth
      BY <1>1, TopFacts
    <2>2. QED
      BY <1>1, <2>1 DEF FrameInv, Top
  <1>5. /\ Top.tpl = root /\ root \in DOMAIN prog
        /\ Top.ip = Len(prog[Top.tpl]) + 1
        /\ Before(Top) = Plan[Top.tpl]
    <2>1. 1 \in 1..Depth
      BY <1>4
    <2>2. /\ Top.tpl \in DOMAIN prog /\ Top.ip \in Nat /\ Len(prog[Top.tpl]) \in Nat
          /\ Top.ip <= Len(prog[Top.tpl]) + 1
      BY <1>4, <2>1, FrameFacts DEF Top
    <2>3. Top.ip = Len(prog[Top.tpl]) + 1
      BY <1>1, <2>2
    <2>4. Before(Top) = Plan[Top.tpl]
      BY <1>4, <2>1, <2>3, FrameFacts DEF Top
    <2>5. Top.tpl = root
      BY <1>4, <2>1 DEF Top, ChainInv
    <2>6. QED
      BY <2>2, <2>3, <2>4, <2>5
  <1>6. Len(log) - since = Len(ScriptPlan)
    <2>1. PICK at \in [1..Depth -> 0..Len(ScriptPlan)] : Placed(at)
      BY <1>1 DEF PlaceInv
    <2>2. Len(log) - since = 0 + Len(Plan[root])
      BY <1>4, <1>5, <2>1 DEF Placed, Top
    <2>3. Len(Plan[root]) \in Nat
      BY <1>5, PlanParts, Zenon
    <2>4. QED
      BY <1>5, <2>2, <2>3 DEF ScriptPlan
  <1>7. ScriptDone = ScriptPlan
    <2>1. \A k \in 1..Len(ScriptPlan) :
             [tpl |-> log[since + k].tpl, via |-> log[since + k].via] = ScriptPlan[k]
      BY <1>1, <1>6 DEF DoneInv
    <2>2. ScriptDone = [k \in 1..Len(ScriptPlan) |-> ScriptPlan[k]]
      BY <1>6, <2>1 DEF ScriptDone
    <2>3. ScriptPlan \in Seq(Effects)
      BY PlanType
    <2> HIDE DEF ScriptPlan
    <2>4. ScriptPlan = [k \in 1..Len(ScriptPlan) |-> ScriptPlan[k]]
      BY <2>3
    <2>5. QED
      BY <2>2, <2>4
  <1>8. QED
    BY <1>2, <1>3, <1>7 DEF Straight!Succeed

(* Every other step aborts the script or is none of its business.          *)
LEMMA ScriptElse ==
  ASSUME Next, ~Provider, ~Finish, ~\E t \in Templates : Request(t)
  PROVE  Straight!Abort \/ UNCHANGED <<ScriptPlan, ScriptDone, ScriptStatus>>
  <1>1. UNCHANGED <<log, root, since>>
    BY DEF Next, Render, Provider, Terminated, Set, GetSetValue, Time, Text,
       In, Panic, Call, ReturnText, RejectSQL, SubmitSQL, SubmitText, Unwind,
       vars, history, request
  <1>2. ScriptPlan' = ScriptPlan /\ ScriptDone' = ScriptDone
    BY <1>1, RegistryKept, PlanKept DEF ScriptDone
  <1>3. \/ mode \in {"run", "exec"} /\ mode' \in {"run", "exec", "failing"}
        \/ /\ mode = "failing"
           /\ mode' = "failing" \/ (mode' = "idle" /\ result' = "error")
        \/ UNCHANGED <<mode, result>>
    BY DEF Next, Render, Provider, Terminated, Set, GetSetValue, Time, Text,
       In, Panic, Call, ReturnText, RejectSQL, SubmitSQL, SubmitText, Unwind,
       Fail, EnterProvider, At, AtEnd, vars
  <1>4. \/ ScriptStatus = "running" /\ ScriptStatus' = "failed"
        \/ ScriptStatus' = ScriptStatus
    BY <1>3 DEF ScriptStatus
  <1>5. QED
    BY <1>2, <1>4 DEF Straight!Abort

(* A request executes its script: TemplateExec implements Script.          *)
THEOREM ScriptRefinement == Spec => ScriptSpec
  <1>1. Init => Straight!Init
    <2> SUFFICES ASSUME Init PROVE Straight!Init
      OBVIOUS
    <2>1. mode = "idle" /\ result = "none" /\ log = <<>> /\ since = 0 /\ root = NoName
      BY DEF Init
    <2>2. NoName \notin DOMAIN prog
      BY NoNameAssumption, ProgramsAssumption DEF Init
    <2>3. Len(log) - since = 0
      BY <2>1
    <2>4. ScriptPlan = <<>> /\ ScriptDone = <<>> /\ ScriptStatus = "idle"
      BY <2>1, <2>2, <2>3 DEF ScriptPlan, ScriptDone, ScriptStatus
    <2>5. QED
      BY <2>4 DEF Straight!Init
  <1>2. ScriptInv /\ [Next]_vars => [Straight!Next]_(Straight!vars)
    <2> SUFFICES ASSUME ScriptInv, [Next]_vars
                 PROVE  Straight!Next \/ UNCHANGED <<ScriptPlan, ScriptDone, ScriptStatus>>
      BY DEF Straight!vars
    <2>1. TypeOK /\ FrameInv /\ FailInv /\ ChainInv /\ PlaceInv /\ DoneInv
      BY DEF ScriptInv, IInv
    <2>2. CASE Next
      BY <2>1, <2>2, ScriptBegins, ScriptExecutes, ScriptSucceeds, ScriptElse
         DEF Straight!Next
    <2>3. CASE UNCHANGED vars
      <3>1. UNCHANGED <<prog, mode, result, log, root, since>>
        BY <2>3 DEF vars, registry, history, request
      <3>2. QED
        BY <3>1, PlanKept DEF ScriptDone, ScriptStatus
    <2>4. QED
      BY <2>2, <2>3
  <1>3. QED
    BY <1>1, <1>2, InitScript, NextScript, PTL DEF Spec, ScriptSpec, Straight!Spec
=============================================================================
