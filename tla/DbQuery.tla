------------------------------- MODULE DbQuery -------------------------------
(***************************************************************************)
(* dbProvider: one statement, sent through the shared handle (LazyHandle)  *)
(* by any number of goroutines.  A SELECT is queried, its rows are read    *)
(* one by one and turned into text; anything else is executed.  The        *)
(* database may refuse, may send any rows, and may break off at any time.  *)
(***************************************************************************)
EXTENDS Naturals, Sequences, FiniteSets

CONSTANTS Callers,    \* goroutines that call Exec
          Statements, \* what they submit
          Conns,      \* connections the database grants
          Replies,    \* what the database has to say: lists of lists of rows
          Numbers,    \* insert ids and counts of affected rows, 0 among them
          Columns,    \* names of columns
          Vals, Null, \* values in rows, and NULL
          EmptyText   \* the empty string

(* A statement is the list of its lines.                                   *)
Lines == {"select", "update", "comment"}

ASSUME StatementsAssumption == Statements \subseteq Seq(Lines)
ASSUME ConnsAssumption == Conns \in Nat
ASSUME NumbersAssumption == Numbers \subseteq Nat /\ 0 \in Numbers
ASSUME NullAssumption == Null \in Vals /\ EmptyText \notin Vals \cup Numbers

RowsSent == UNION {[C -> Vals] : C \in (SUBSET Columns) \ {{}}}
ASSUME RepliesAssumption == Replies \subseteq Seq(Seq(RowsSent)) \ {<<>>}

VARIABLES pc,        \* where each caller is
          submitted, \* the statement it submitted, after formatting
          held,      \* the callers that hold a connection
          reply,     \* what the database has to say to each
          allResult, \* result sets read to their end
          records,   \* rows read of the current one
          broken,    \* history: the database broke off
          result     \* what the call returned

vars == <<pc, submitted, held, reply, allResult, records, broken, result>>

Texts       == (Vals \ {Null}) \cup {EmptyText}
RowsRead    == UNION {[C -> Texts] : C \in (SUBSET Columns) \ {{}}}

Plain(t)  == [kind |-> "text", text |-> t]
Rows(r)   == [kind |-> "rows", rows |-> r]
Sets(s)   == [kind |-> "sets", sets |-> s]
Nothing   == [kind |-> "nothing"]
Error     == [kind |-> "error"]

IsResult(r) == \/ r \in {Nothing, Error}
               \/ r.kind = "text" /\ r.text \in Texts \cup Numbers
               \/ r.kind = "rows" /\ r.rows \in Seq(RowsRead)
               \/ r.kind = "sets" /\ r.sets \in Seq(Seq(RowsRead))

TypeOK == /\ pc \in [Callers -> {"idle", "ready", "exec", "rows", "answer"}]
          /\ submitted \in [Callers -> Seq(Lines)]
          /\ held \subseteq Callers
          /\ reply \in [Callers -> Seq(Seq(RowsSent))]
          /\ allResult \in [Callers -> Seq(Seq(RowsRead))]
          /\ records \in [Callers -> Seq(RowsRead)]
          /\ broken \in [Callers -> BOOLEAN]
          /\ DOMAIN result = Callers
          /\ \A p \in Callers : IsResult(result[p])

Init == /\ pc = [p \in Callers |-> "idle"]
        /\ submitted = [p \in Callers |-> <<>>]
        /\ held = {}
        /\ reply = [p \in Callers |-> <<>>]
        /\ allResult = [p \in Callers |-> <<>>]
        /\ records = [p \in Callers |-> <<>>]
        /\ broken = [p \in Callers |-> FALSE]
        /\ result = [p \in Callers |-> Nothing]

-----------------------------------------------------------------------------
(* StandardizeSpaces puts the statement on one line: a comment then        *)
(* reaches to its end.                                                     *)
Formatted(s) ==
    LET comments == {i \in DOMAIN s : s[i] = "comment"}
        kept     == {i \in DOMAIN s : \A j \in comments : i <= j}
    IN  SubSeq(s, 1, Cardinality(kept))

(* SQLType of what is one line by now.                                     *)
IsSelect(s) == s # <<>> /\ s[1] = "select"

(* Mutant: NULL stays what it is.                                          *)
RecordNull(row) == row

(* A row as strings; NULL becomes the empty one.                           *)
Record(row) == [c \in DOMAIN row |-> IF row[c] = Null THEN EmptyText ELSE row[c]]

(* What is returned for one result set: nothing for no rows, the value     *)
(* itself for one row with one column, otherwise the JSON of the rows.     *)
AnswerOfSet(rows) ==
    IF rows = <<>> THEN Plain(EmptyText)
    ELSE IF Len(rows) = 1 /\ Cardinality(DOMAIN rows[1]) = 1
    THEN Plain(rows[1][CHOOSE c \in DOMAIN rows[1] : TRUE])
    ELSE Rows(rows)

(* What is returned for all of them.                                       *)
Answer(sets) == IF Len(sets) = 1 THEN AnswerOfSet(sets[1]) ELSE Sets(sets)

-----------------------------------------------------------------------------
(* The statement is formatted.                                             *)
Call(p, s) ==
    /\ pc[p] = "idle"
    /\ pc' = [pc EXCEPT ![p] = "ready"]
    /\ submitted' = [submitted EXCEPT ![p] = Formatted(s)]
    /\ allResult' = [allResult EXCEPT ![p] = <<>>]
    /\ records' = [records EXCEPT ![p] = <<>>]
    /\ broken' = [broken EXCEPT ![p] = FALSE]
    /\ reply' = [reply EXCEPT ![p] = <<>>]
    /\ result' = [result EXCEPT ![p] = Nothing]
    /\ UNCHANGED held

Granted == Cardinality(held) < Conns

(* The call returns, and the deferred rows.Close frees the connection.     *)
Return(p, r) ==
    /\ pc' = [pc EXCEPT ![p] = "idle"]
    /\ result' = [result EXCEPT ![p] = r]
    /\ held' = held \ {p}
    /\ UNCHANGED <<submitted, reply, allResult, records, broken>>

(* Mutant: the handle is limited, and who finds no connection waits.       *)
RefusedWaits(p) == pc[p] = "ready" /\ Granted /\ Return(p, Error)

(* No connection, or the database refuses the statement.                   *)
Refused(p) == pc[p] = "ready" /\ Return(p, Error)

Exec(p) == /\ pc[p] = "ready" /\ ~IsSelect(submitted[p]) /\ Granted
           /\ pc' = [pc EXCEPT ![p] = "exec"]
           /\ held' = held \cup {p}
           /\ UNCHANGED <<submitted, reply, allResult, records, broken, result>>

(* The insert id if there is one, otherwise the number of rows.            *)
Executed(p, id, affected) ==
    pc[p] = "exec" /\ Return(p, Plain(IF id > 0 THEN id ELSE affected))

ExecFails(p) == pc[p] = "exec" /\ Return(p, Error)

Query(p, r) == /\ pc[p] = "ready" /\ IsSelect(submitted[p]) /\ Granted
               /\ pc' = [pc EXCEPT ![p] = "rows"]
               /\ held' = held \cup {p}
               /\ reply' = [reply EXCEPT ![p] = r]
               /\ UNCHANGED <<submitted, allResult, records, broken, result>>

Current(p) == reply[p][Len(allResult[p]) + 1]

(* rows.Next and MapScan                                                   *)
NextRow(p) ==
    /\ pc[p] = "rows"
    /\ Len(records[p]) < Len(Current(p))
    /\ records' = [records EXCEPT ![p] = Append(@, Record(Current(p)[Len(@) + 1]))]
    /\ UNCHANGED <<pc, submitted, held, reply, allResult, broken, result>>

(* Mutant: the deferred Close is missing.                                  *)
ScanFailsOpen(p) ==
    /\ pc[p] = "rows"
    /\ Len(records[p]) < Len(Current(p))
    /\ pc' = [pc EXCEPT ![p] = "idle"]
    /\ result' = [result EXCEPT ![p] = Error]
    /\ UNCHANGED <<submitted, held, reply, allResult, records, broken>>

(* A row cannot be scanned: the rows are left half read.                   *)
ScanFails(p) == /\ pc[p] = "rows"
                /\ Len(records[p]) < Len(Current(p))
                /\ Return(p, Error)

(* Mutant: the list of records is not started anew.                        *)
EndOfSetNoReset(p) ==
    /\ pc[p] = "rows"
    /\ Len(records[p]) >= Len(Current(p))
    /\ allResult' = [allResult EXCEPT ![p] = Append(@, records[p])]
    /\ IF Len(allResult'[p]) = Len(reply[p])
       THEN pc' = [pc EXCEPT ![p] = "answer"] /\ held' = held \ {p}
       ELSE UNCHANGED <<pc, held>>
    /\ UNCHANGED <<submitted, reply, records, broken, result>>

(* The end of a result set; after the last one the rows close themselves.  *)
EndOfSet(p) ==
    /\ pc[p] = "rows"
    /\ Len(records[p]) = Len(Current(p))
    /\ allResult' = [allResult EXCEPT ![p] = Append(@, records[p])]
    /\ records' = [records EXCEPT ![p] = <<>>]
    /\ IF Len(allResult'[p]) = Len(reply[p])
       THEN pc' = [pc EXCEPT ![p] = "answer"] /\ held' = held \ {p}
       ELSE UNCHANGED <<pc, held>>
    /\ UNCHANGED <<submitted, reply, broken, result>>

(* The connection breaks: rows.Next is false as at the end of a set and so *)
(* is NextResultSet; nobody asks rows.Err.                                 *)
BreakOff(p) ==
    /\ pc[p] = "rows"
    /\ allResult' = [allResult EXCEPT ![p] = Append(@, records[p])]
    /\ records' = [records EXCEPT ![p] = <<>>]
    /\ broken' = [broken EXCEPT ![p] = TRUE]
    /\ pc' = [pc EXCEPT ![p] = "answer"]
    /\ held' = held \ {p}
    /\ UNCHANGED <<submitted, reply, result>>

ReturnAnswer(p) == pc[p] = "answer" /\ Return(p, Answer(allResult[p]))

(* rows.Close fails and the call panics.                                   *)
CloseFails(p) == pc[p] = "answer" /\ Return(p, Error)

(* What the caller does by itself.                                         *)
Own(p) == ReturnAnswer(p) \/ CloseFails(p)

(* What takes an answer of the database, or the end of its connection.     *)
Served(p) == \/ Refused(p)
             \/ Exec(p) \/ ExecFails(p)
             \/ \E id, affected \in Numbers : Executed(p, id, affected)
             \/ \E r \in Replies : Query(p, r)
             \/ NextRow(p) \/ ScanFails(p) \/ EndOfSet(p) \/ BreakOff(p)

Step(p) == Own(p) \/ Served(p)

Next == \E p \in Callers : Step(p) \/ \E s \in Statements : Call(p, s)

Spec == Init /\ [][Next]_vars

(* Goroutines go on by themselves.  The database owes nothing: there is no *)
(* context in the calls, Config.Timeout is not read, and nothing else ends *)
(* a wait.                                                                 *)
FairSpec == Spec /\ \A p \in Callers : WF_vars(Own(p))

-----------------------------------------------------------------------------
(* Whoever is not in the middle of a statement holds no connection, on     *)
(* every way out of the call.                                              *)
ConnectionsReturned ==
    /\ Cardinality(held) <= Conns
    /\ \A p \in held : pc[p] \in {"exec", "rows"}

Recorded(rows) == [i \in DOMAIN rows |-> Record(rows[i])]
AllRecorded(sets) == [i \in DOMAIN sets |-> Recorded(sets[i])]

(* What has been read of the sets sent after n rows of the i-th.            *)
ReadUpTo(sent, i, n) ==
    Append(AllRecorded(SubSeq(sent, 1, i - 1)), Recorded(SubSeq(sent[i], 1, n)))

Faithful(p) ==
    /\ pc[p] = "idle" /\ IsSelect(submitted[p])
    /\ result[p] \notin {Nothing, Error}
    => /\ broken[p] \/ result[p] = Answer(AllRecorded(reply[p]))
       /\ \E i \in DOMAIN reply[p] : \E n \in 0..Len(reply[p][i]) :
             result[p] = Answer(ReadUpTo(reply[p], i, n))

(* A query that returns a result returns every row of every result set     *)
(* that was sent, in order, though other calls run beside it; if the       *)
(* database broke off, everything sent until then.                         *)
AnswerFaithful == \A p \in Callers : Faithful(p)

(* A call that the database goes on answering returns, though the database *)
(* may leave the others waiting for ever with the connections they hold.   *)
CallReturns ==
    \A p \in Callers : WF_vars(Served(p)) => (pc[p] # "idle" ~> pc[p] = "idle")
=============================================================================
