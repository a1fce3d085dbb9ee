---------------------------- MODULE DbQueryProofs ----------------------------
(***************************************************************************)
(* dbProvider, for any number of callers, connections, result sets, rows   *)
(* and columns.                                                            *)
(***************************************************************************)
EXTENDS DbQuery, FiniteSetTheorems, TLAPS

(* A row read has the columns of the row sent, and strings in them.        *)
LEMMA RecordType == \A row \in RowsSent : Record(row) \in RowsRead
  BY NullAssumption DEF RowsSent, RowsRead, Record, Texts

LEMMA RecordedType ==
    ASSUME NEW rows \in Seq(RowsSent)
    PROVE  Recorded(rows) \in Seq(RowsRead) /\ Len(Recorded(rows)) = Len(rows)
<1>1. \A i \in DOMAIN rows : Record(rows[i]) \in RowsRead
  BY RecordType
<1>2. DOMAIN rows = 1..Len(rows) /\ Len(rows) \in Nat
  OBVIOUS
<1>3. Recorded(rows) \in [1..Len(rows) -> RowsRead]
  BY <1>1, <1>2 DEF Recorded
<1> QED BY <1>2, <1>3

LEMMA AllRecordedType ==
    ASSUME NEW sets \in Seq(Seq(RowsSent))
    PROVE  /\ AllRecorded(sets) \in Seq(Seq(RowsRead))
           /\ Len(AllRecorded(sets)) = Len(sets)
<1>1. \A i \in DOMAIN sets : Recorded(sets[i]) \in Seq(RowsRead)
  BY RecordedType
<1>2. DOMAIN sets = 1..Len(sets) /\ Len(sets) \in Nat
  OBVIOUS
<1>3. AllRecorded(sets) \in [1..Len(sets) -> Seq(RowsRead)]
  BY <1>1, <1>2 DEF AllRecorded
<1> QED BY <1>2, <1>3

(* One more row, one more set.                                             *)
LEMMA OneMoreRow ==
    ASSUME NEW rows \in Seq(RowsSent), NEW n \in 0..(Len(rows) - 1)
    PROVE  Append(Recorded(SubSeq(rows, 1, n)), Record(rows[n + 1]))
              = Recorded(SubSeq(rows, 1, n + 1))
<1> DEFINE some == SubSeq(rows, 1, n)
           more == SubSeq(rows, 1, n + 1)
<1>1. /\ some \in Seq(RowsSent) /\ Len(some) = n
      /\ more \in Seq(RowsSent) /\ Len(more) = n + 1
      /\ \A i \in 1..n : some[i] = rows[i]
      /\ \A i \in 1..(n + 1) : more[i] = rows[i]
  OBVIOUS
<1> HIDE DEF some, more
<1>2. /\ Recorded(some) = [i \in 1..n |-> Record(rows[i])]
      /\ Recorded(more) = [i \in 1..(n + 1) |-> Record(rows[i])]
  BY <1>1 DEF Recorded
<1>3. Recorded(some) \in Seq(RowsRead) /\ Len(Recorded(some)) = n
  BY <1>1, RecordedType
<1>4. Append(Recorded(some), Record(rows[n + 1]))
         = [i \in 1..(n + 1) |-> IF i <= n THEN Record(rows[i]) ELSE Record(rows[n + 1])]
  BY <1>2, <1>3
<1> QED BY <1>2, <1>4 DEF some, more

LEMMA OneMoreSet ==
    ASSUME NEW sets \in Seq(Seq(RowsSent)), NEW n \in 0..(Len(sets) - 1)
    PROVE  Append(AllRecorded(SubSeq(sets, 1, n)), Recorded(sets[n + 1]))
              = AllRecorded(SubSeq(sets, 1, n + 1))
<1> DEFINE some == SubSeq(sets, 1, n)
           more == SubSeq(sets, 1, n + 1)
<1>1. /\ some \in Seq(Seq(RowsSent)) /\ Len(some) = n
      /\ more \in Seq(Seq(RowsSent)) /\ Len(more) = n + 1
      /\ \A i \in 1..n : some[i] = sets[i]
      /\ \A i \in 1..(n + 1) : more[i] = sets[i]
  OBVIOUS
<1> HIDE DEF some, more
<1>0. DOMAIN some = 1..n /\ DOMAIN more = 1..(n + 1)
  BY <1>1
<1>2. /\ AllRecorded(some) = [i \in 1..n |-> Recorded(sets[i])]
      /\ AllRecorded(more) = [i \in 1..(n + 1) |-> Recorded(sets[i])]
  BY <1>0, <1>1, Zenon DEF AllRecorded
<1>3. AllRecorded(some) \in Seq(Seq(RowsRead)) /\ Len(AllRecorded(some)) = n
  BY <1>1, AllRecordedType
<1>4. Append(AllRecorded(some), Recorded(sets[n + 1]))
         = [i \in 1..(n + 1) |-> IF i <= n THEN Recorded(sets[i]) ELSE Recorded(sets[n + 1])]
  BY <1>2, <1>3
<1> QED BY <1>2, <1>4 DEF some, more

(* What is a result.                                                       *)
LEMMA Results == /\ IsResult(Nothing) /\ IsResult(Error)
                 /\ \A t \in Texts \cup Numbers : IsResult(Plain(t))
                 /\ \A r \in Seq(RowsRead) : IsResult(Rows(r))
                 /\ \A s \in Seq(Seq(RowsRead)) : IsResult(Sets(s))
<1>1. IsResult(Nothing) /\ IsResult(Error)
  BY Zenon DEF IsResult
<1>2. ASSUME NEW t \in Texts \cup Numbers PROVE IsResult(Plain(t))
  <2>1. Plain(t).kind = "text" /\ Plain(t).text = t
    BY DEF Plain
  <2> QED BY <2>1, Zenon DEF IsResult
<1>3. ASSUME NEW r \in Seq(RowsRead) PROVE IsResult(Rows(r))
  <2>1. Rows(r).kind = "rows" /\ Rows(r).rows = r
    BY DEF Rows
  <2> QED BY <2>1, Zenon DEF IsResult
<1>4. ASSUME NEW s \in Seq(Seq(RowsRead)) PROVE IsResult(Sets(s))
  <2>1. Sets(s).kind = "sets" /\ Sets(s).sets = s
    BY DEF Sets
  <2> QED BY <2>1, Zenon DEF IsResult
<1> QED BY <1>1, <1>2, <1>3, <1>4, Zenon

(* What is returned for one result set is a result.                        *)
LEMMA AnswerOfSetType ==
    ASSUME NEW rows \in Seq(RowsRead)
    PROVE  IsResult(AnswerOfSet(rows))
<1>1. CASE rows = <<>>
  <2>1. AnswerOfSet(rows) = Plain(EmptyText) /\ EmptyText \in Texts
    BY <1>1, Zenon DEF AnswerOfSet, Texts
  <2> QED BY <2>1, Results, Zenon
<1>2. CASE Len(rows) = 1 /\ Cardinality(DOMAIN rows[1]) = 1
  <2> DEFINE c == CHOOSE x \in DOMAIN rows[1] : TRUE
  <2> HIDE DEF c
  <2>1. rows[1] \in RowsRead /\ rows # <<>>
    BY <1>2
  <2>2. PICK C \in (SUBSET Columns) \ {{}} : rows[1] \in [C -> Texts]
    BY <2>1 DEF RowsRead
  <2>3. DOMAIN rows[1] = C /\ C # {}
    BY <2>2
  <2>4. c \in C
    BY <2>3, Zenon DEF c
  <2>5. AnswerOfSet(rows) = Plain(rows[1][c])
    BY <1>2, <2>1, Zenon DEF AnswerOfSet, c
  <2>6. rows[1][c] \in Texts
    BY <2>2, <2>4
  <2> QED BY <2>5, <2>6, Results, Zenon
<1>3. CASE rows # <<>> /\ ~(Len(rows) = 1 /\ Cardinality(DOMAIN rows[1]) = 1)
  <2>1. AnswerOfSet(rows) = Rows(rows)
    BY <1>3, Zenon DEF AnswerOfSet
  <2> QED BY <2>1, Results, Zenon
<1> QED BY <1>1, <1>2, <1>3, Zenon

(* What is returned for result sets is a result.                           *)
LEMMA AnswerType ==
    ASSUME NEW sets \in Seq(Seq(RowsRead)), sets # <<>>
    PROVE  IsResult(Answer(sets))
<1>1. CASE Len(sets) = 1
  <2>1. sets[1] \in Seq(RowsRead)
    BY <1>1
  <2>2. Answer(sets) = AnswerOfSet(sets[1])
    BY <1>1 DEF Answer
  <2> QED BY <2>1, <2>2, AnswerOfSetType, Zenon
<1>2. CASE Len(sets) # 1
  <2>1. Answer(sets) = Sets(sets)
    BY <1>2 DEF Answer
  <2> QED BY <2>1, Results, Zenon
<1> QED BY <1>1, <1>2

(* Formatting a statement yields a statement.                              *)
LEMMA FormattedType ==
    ASSUME NEW s \in Seq(Lines)
    PROVE  Formatted(s) \in Seq(Lines)
<1> DEFINE comments == {i \in DOMAIN s : s[i] = "comment"}
           kept     == {i \in DOMAIN s : \A j \in comments : i <= j}
           n        == Cardinality(kept)
<1> DEFINE size == Len(s)
<1>0. size \in Nat /\ kept \subseteq 1..size
  OBVIOUS
<1> HIDE DEF size, kept
<1>1. IsFiniteSet(1..size) /\ Cardinality(1..size) = size
  BY <1>0, FS_Interval
<1>2. n \in Nat /\ n <= size
  BY <1>0, <1>1, FS_Subset, FS_CardinalityType
<1> HIDE DEF n
<1>3. SubSeq(s, 1, n) \in Seq(Lines)
  BY <1>2 DEF size
<1> QED BY <1>3 DEF Formatted, n, kept

-----------------------------------------------------------------------------
(* The inductive invariant.  Reading(p): what has been read so far is what *)
(* was sent so far.  Answered(p): what is to be returned is what was sent. *)
Ready(p) == pc[p] = "ready" => /\ allResult[p] = <<>> /\ records[p] = <<>>
                               /\ ~broken[p]

Reading(p) == pc[p] = "rows" =>
    LET i == Len(allResult[p]) + 1
    IN  /\ ~broken[p]
        /\ i <= Len(reply[p])
        /\ allResult[p] = AllRecorded(SubSeq(reply[p], 1, i - 1))
        /\ Len(records[p]) <= Len(reply[p][i])
        /\ records[p] = Recorded(SubSeq(reply[p][i], 1, Len(records[p])))

Answered(p) == pc[p] = "answer" =>
    /\ broken[p] \/ allResult[p] = AllRecorded(reply[p])
    /\ \E i \in DOMAIN reply[p] : \E n \in 0..Len(reply[p][i]) :
          allResult[p] = ReadUpTo(reply[p], i, n)

Executing(p) == pc[p] = "exec" => ~IsSelect(submitted[p])

CallerInv(p) == Ready(p) /\ Reading(p) /\ Answered(p) /\ Executing(p) /\ Faithful(p)

IInv == /\ TypeOK
        /\ IsFiniteSet(held)
        /\ ConnectionsReturned
        /\ \A p \in Callers : CallerInv(p)

(* Everything of one caller is as before.                                  *)
Same(q) == /\ pc'[q] = pc[q] /\ submitted'[q] = submitted[q]
           /\ reply'[q] = reply[q] /\ allResult'[q] = allResult[q]
           /\ records'[q] = records[q] /\ broken'[q] = broken[q]
           /\ result'[q] = result[q]

LEMMA SameKeeps == ASSUME NEW q, CallerInv(q), Same(q) PROVE CallerInv(q)'
<1>1. Ready(q)' /\ Executing(q)'
  BY Zenon DEF CallerInv, Same, Ready, Executing
<1>2. Reading(q)'
  BY Zenon DEF CallerInv, Same, Reading
<1>3. Answered(q)'
  BY Zenon DEF CallerInv, Same, Answered
<1>4. Faithful(q)'
  BY Zenon DEF CallerInv, Same, Faithful
<1> QED BY <1>1, <1>2, <1>3, <1>4, Zenon DEF CallerInv

(* Only p's facts need be shown after a step of p.                         *)
LEMMA OneCaller ==
    ASSUME IInv, NEW p \in Callers, CallerInv(p)',
           \A q \in Callers \ {p} : Same(q)
    PROVE  \A q \in Callers : CallerInv(q)'
<1> TAKE q \in Callers
<1>1. CASE q = p
  BY <1>1
<1>2. CASE q # p
  BY <1>2, SameKeeps DEF IInv
<1> QED BY <1>1, <1>2

(* Returning a result, whichever way.                                      *)
LEMMA ReturnKeeps ==
    ASSUME IInv, NEW p \in Callers, NEW r, Return(p, r), IsResult(r),
           \/ r = Error
           \/ ~IsSelect(submitted[p])
           \/ /\ broken[p] \/ r = Answer(AllRecorded(reply[p]))
              /\ \E i \in DOMAIN reply[p] : \E n \in 0..Len(reply[p][i]) :
                    r = Answer(ReadUpTo(reply[p], i, n))
    PROVE  IInv'
<1> USE DEF IInv, TypeOK
<1>1. /\ pc'[p] = "idle" /\ result'[p] = r
      /\ submitted' = submitted /\ reply' = reply /\ broken' = broken
  BY DEF Return
<1>2. TypeOK'
  <2>1. DOMAIN result' = Callers /\ \A q \in Callers : IsResult(result[q])'
    BY DEF Return, IsResult
  <2> QED BY <2>1 DEF Return
<1>3. IsFiniteSet(held)' /\ ConnectionsReturned'
  <2>1. held' = held \ {p} /\ held' \subseteq held
    BY DEF Return
  <2>2. IsFiniteSet(held') /\ Cardinality(held') <= Cardinality(held)
    BY <2>1, FS_Subset
  <2>3. Cardinality(held') \in Nat /\ Cardinality(held) \in Nat
    BY <2>2, FS_CardinalityType
  <2>4. Cardinality(held') <= Conns
    BY <2>2, <2>3, ConnsAssumption DEF ConnectionsReturned
  <2>5. \A q \in held' : pc'[q] \in {"exec", "rows"}
    BY <2>1 DEF Return, ConnectionsReturned
  <2> QED BY <2>2, <2>4, <2>5 DEF ConnectionsReturned
<1>4. CallerInv(p)'
  <2>1. Ready(p)' /\ Reading(p)' /\ Answered(p)' /\ Executing(p)'
    BY <1>1 DEF Ready, Reading, Answered, Executing
  <2>2. Faithful(p)'
    BY <1>1, Zenon DEF Faithful
  <2> QED BY <2>1, <2>2 DEF CallerInv
<1>5. \A q \in Callers \ {p} : Same(q)
  BY DEF Return, Same
<1>6. \A q \in Callers : CallerInv(q)'
  BY <1>4, <1>5, OneCaller
<1> QED BY <1>2, <1>3, <1>6

(* Taking a connection that is there.                                      *)
LEMMA AcquireKeeps ==
    ASSUME IInv, NEW p \in Callers, pc[p] = "ready", Granted,
           held' = held \cup {p}, NEW where \in {"exec", "rows"},
           pc' = [pc EXCEPT ![p] = where]
    PROVE  IsFiniteSet(held)' /\ ConnectionsReturned'
<1>1. p \notin held
  BY DEF IInv, ConnectionsReturned
<1>2. IsFiniteSet(held') /\ Cardinality(held') = Cardinality(held) + 1
  BY <1>1, FS_AddElement DEF IInv
<1>3. Cardinality(held) \in Nat /\ Cardinality(held) < Conns
  BY FS_CardinalityType DEF IInv, Granted
<1>4. Cardinality(held') <= Conns
  BY <1>2, <1>3, ConnsAssumption
<1>5. \A q \in held' : pc'[q] \in {"exec", "rows"}
  BY DEF IInv, TypeOK, ConnectionsReturned
<1> QED BY <1>2, <1>4, <1>5 DEF ConnectionsReturned

(* Giving it back when the rows are read.                                  *)
LEMMA ReleaseKeeps ==
    ASSUME IInv, NEW p \in Callers, held' = held \ {p},
           pc' = [pc EXCEPT ![p] = "answer"]
    PROVE  IsFiniteSet(held)' /\ ConnectionsReturned'
<1>1. held' \subseteq held
  OBVIOUS
<1>2. IsFiniteSet(held') /\ Cardinality(held') <= Cardinality(held)
  BY <1>1, FS_Subset DEF IInv
<1>3. Cardinality(held') \in Nat /\ Cardinality(held) \in Nat
  BY <1>2, FS_CardinalityType DEF IInv
<1>4. Cardinality(held') <= Conns
  BY <1>2, <1>3, ConnsAssumption DEF IInv, ConnectionsReturned
<1>5. \A q \in held' : pc'[q] \in {"exec", "rows"}
  BY DEF IInv, TypeOK, ConnectionsReturned
<1> QED BY <1>2, <1>4, <1>5 DEF ConnectionsReturned

-----------------------------------------------------------------------------
(* The initial state.                                                      *)
LEMMA InitInv == Init => IInv
<1> SUFFICES ASSUME Init PROVE IInv
  OBVIOUS
<1>2. TypeOK
  <2>1. DOMAIN result = Callers /\ \A p \in Callers : IsResult(result[p])
    BY Results DEF Init
  <2> QED BY <2>1 DEF Init, TypeOK
<1>3. IsFiniteSet(held) /\ ConnectionsReturned
  BY FS_EmptySet, ConnsAssumption DEF Init, ConnectionsReturned
<1>4. \A p \in Callers : CallerInv(p)
  BY DEF Init, CallerInv, Ready, Reading, Answered, Executing, Faithful
<1> QED BY <1>2, <1>3, <1>4 DEF IInv

(* A call begins.                                                          *)
LEMMA CallKeeps == ASSUME IInv, NEW p \in Callers, NEW s \in Statements, Call(p, s)
                   PROVE  IInv'
<1> USE DEF IInv, TypeOK
<1>1. s \in Seq(Lines)
  BY StatementsAssumption
<1>2. Formatted(s) \in Seq(Lines)
  BY <1>1, FormattedType
<1>3. TypeOK'
  <2>1. DOMAIN result' = Callers /\ \A q \in Callers : IsResult(result'[q])
    BY Results DEF Call
  <2> QED BY <1>1, <1>2, <2>1 DEF Call
<1>4. IsFiniteSet(held)' /\ ConnectionsReturned'
  BY DEF Call, ConnectionsReturned
<1>5. CallerInv(p)'
  BY DEF Call, CallerInv, Ready, Reading, Answered, Executing, Faithful
<1>6. \A q \in Callers \ {p} : Same(q)
  BY DEF Call, Same
<1>7. \A q \in Callers : CallerInv(q)'
  BY <1>5, <1>6, OneCaller
<1> QED BY <1>3, <1>4, <1>7

(* A statement is executed.                                                *)
LEMMA ExecKeeps == ASSUME IInv, NEW p \in Callers, Exec(p) PROVE IInv'
<1> USE DEF IInv, TypeOK
<1>1. TypeOK'
  BY DEF Exec
<1>2. IsFiniteSet(held)' /\ ConnectionsReturned'
  BY AcquireKeeps DEF Exec
<1>3. CallerInv(p)'
  BY DEF Exec, CallerInv, Ready, Reading, Answered, Executing, Faithful
<1>4. \A q \in Callers \ {p} : Same(q)
  BY DEF Exec, Same
<1>5. \A q \in Callers : CallerInv(q)'
  BY <1>3, <1>4, OneCaller
<1> QED BY <1>1, <1>2, <1>5

(* A query is sent; nothing of it has been read.                           *)
LEMMA QueryKeeps ==
    ASSUME IInv, NEW p \in Callers, NEW r \in Replies, Query(p, r) PROVE IInv'
<1> USE DEF IInv, TypeOK
<1>0. r \in Seq(Seq(RowsSent)) /\ r # <<>>
  BY RepliesAssumption
<1>1. TypeOK'
  BY <1>0 DEF Query
<1>2. IsFiniteSet(held)' /\ ConnectionsReturned'
  BY AcquireKeeps DEF Query
<1>3. CallerInv(p)'
  <2>1. /\ pc'[p] = "rows" /\ reply'[p] = r /\ broken'[p] = FALSE
        /\ allResult'[p] = <<>> /\ records'[p] = <<>>
    BY DEF Query, CallerInv, Ready
  <2>2. SubSeq(r, 1, 0) = <<>> /\ 1 <= Len(r) /\ r[1] \in Seq(RowsSent)
    BY <1>0
  <2>3. SubSeq(r[1], 1, 0) = <<>>
    BY <2>2
  <2>4. AllRecorded(<<>>) = <<>> /\ Recorded(<<>>) = <<>>
    BY DEF AllRecorded, Recorded
  <2>5. /\ Len(allResult'[p]) + 1 = 1 /\ 1 - 1 = 0 /\ Len(records'[p]) = 0
        /\ Len(r[1]) >= 0
    BY <2>1, <2>2
  <2>6. /\ allResult'[p] = AllRecorded(SubSeq(reply'[p], 1, 0))
        /\ records'[p] = Recorded(SubSeq(reply'[p][1], 1, 0))
    BY <2>1, <2>2, <2>3, <2>4, Zenon
  <2>7. Reading(p)'
    BY <2>1, <2>2, <2>5, <2>6 DEF Reading
  <2>8. Ready(p)' /\ Answered(p)' /\ Executing(p)' /\ Faithful(p)'
    BY <2>1 DEF Ready, Answered, Executing, Faithful
  <2> QED BY <2>7, <2>8 DEF CallerInv
<1>4. \A q \in Callers \ {p} : Same(q)
  BY DEF Query, Same
<1>5. \A q \in Callers : CallerInv(q)'
  BY <1>3, <1>4, OneCaller
<1> QED BY <1>1, <1>2, <1>5

(* While p reads: the set it reads, and what it has read of it.            *)
LEMMA WhileReading ==
    ASSUME IInv, NEW p \in Callers, pc[p] = "rows"
    PROVE  /\ Len(allResult[p]) \in 0..(Len(reply[p]) - 1)
           /\ Current(p) \in Seq(RowsSent)
           /\ allResult[p] = AllRecorded(SubSeq(reply[p], 1, Len(allResult[p])))
           /\ Len(records[p]) \in 0..Len(Current(p))
           /\ records[p] = Recorded(SubSeq(Current(p), 1, Len(records[p])))
<1> DEFINE n == Len(allResult[p])
           m == Len(records[p])
<1>1. /\ allResult[p] \in Seq(Seq(RowsRead)) /\ records[p] \in Seq(RowsRead)
      /\ reply[p] \in Seq(Seq(RowsSent))
  BY DEF IInv, TypeOK
<1>2. n \in Nat /\ m \in Nat /\ Len(reply[p]) \in Nat
  BY <1>1
<1>3. /\ n + 1 <= Len(reply[p])
      /\ allResult[p] = AllRecorded(SubSeq(reply[p], 1, (n + 1) - 1))
      /\ m <= Len(Current(p))
      /\ records[p] = Recorded(SubSeq(Current(p), 1, m))
  BY DEF IInv, CallerInv, Reading, Current
<1>4. (n + 1) - 1 = n
  BY <1>2
<1>5. Current(p) \in Seq(RowsSent)
  BY <1>1, <1>2, <1>3 DEF Current
<1> QED BY <1>2, <1>3, <1>4, <1>5

(* One more row is read.                                                   *)
LEMMA NextRowKeeps == ASSUME IInv, NEW p \in Callers, NextRow(p) PROVE IInv'
<1> USE DEF IInv, TypeOK
<1> DEFINE m == Len(records[p])
<1>0. pc[p] = "rows" /\ m < Len(Current(p))
  BY DEF NextRow
<1>1. m \in 0..(Len(Current(p)) - 1)
  BY <1>0, WhileReading
<1>2. /\ Current(p) \in Seq(RowsSent) /\ Current(p)[m + 1] \in RowsSent
      /\ records[p] = Recorded(SubSeq(Current(p), 1, m))
  BY <1>0, <1>1, WhileReading
<1>3. records'[p] = Append(records[p], Record(Current(p)[m + 1]))
  BY DEF NextRow
<1>4. records'[p] = Recorded(SubSeq(Current(p), 1, m + 1))
  BY <1>1, <1>2, <1>3, OneMoreRow
<1>5. Record(Current(p)[m + 1]) \in RowsRead
  BY <1>2, RecordType
<1>6. TypeOK'
  <2>1. records' \in [Callers -> Seq(RowsRead)]
    BY <1>5 DEF NextRow
  <2> QED BY <2>1 DEF NextRow
<1>7. IsFiniteSet(held)' /\ ConnectionsReturned'
  BY DEF NextRow, ConnectionsReturned
<1>8. CallerInv(p)'
  <2>1. Len(records'[p]) = m + 1
    BY <1>3
  <2>2. Reading(p)'
    BY <1>0, <1>1, <1>4, <2>1 DEF NextRow, CallerInv, Reading, Current
  <2>3. Ready(p)' /\ Answered(p)' /\ Executing(p)' /\ Faithful(p)'
    BY <1>0 DEF NextRow, Ready, Answered, Executing, Faithful
  <2> QED BY <2>2, <2>3 DEF CallerInv
<1>9. \A q \in Callers \ {p} : Same(q)
  BY DEF NextRow, Same
<1>10. \A q \in Callers : CallerInv(q)'
  BY <1>8, <1>9, OneCaller
<1> QED BY <1>6, <1>7, <1>10

(* A result set ends, all of its rows read; perhaps it was the last.       *)
LEMMA EndOfSetKeeps == ASSUME IInv, NEW p \in Callers, EndOfSet(p) PROVE IInv'
<1> USE DEF IInv, TypeOK
<1> DEFINE n == Len(allResult[p])
<1>0. pc[p] = "rows" /\ Len(records[p]) = Len(Current(p))
  BY DEF EndOfSet
<1>1. /\ n \in 0..(Len(reply[p]) - 1)
      /\ reply[p] \in Seq(Seq(RowsSent)) /\ Current(p) \in Seq(RowsSent)
      /\ Current(p) = reply[p][n + 1]
  BY <1>0, WhileReading DEF Current
<1>2. records[p] = Recorded(Current(p))
  <2>1. SubSeq(Current(p), 1, Len(Current(p))) = Current(p)
    BY <1>1
  <2> QED BY <1>0, <2>1, WhileReading
<1>3. /\ allResult'[p] = Append(allResult[p], records[p])
      /\ records'[p] = <<>> /\ broken' = broken /\ reply' = reply
      /\ Len(allResult'[p]) = n + 1
  BY DEF EndOfSet
<1>4. allResult'[p] = AllRecorded(SubSeq(reply[p], 1, n + 1))
  BY <1>0, <1>1, <1>2, <1>3, OneMoreSet, WhileReading
<1>5. TypeOK'
  <2>1. /\ allResult' \in [Callers -> Seq(Seq(RowsRead))]
        /\ records' \in [Callers -> Seq(RowsRead)]
    BY DEF EndOfSet
  <2> QED BY <2>1 DEF EndOfSet
<1>6. \A q \in Callers \ {p} : Same(q)
  BY DEF EndOfSet, Same
<1>7. CASE n + 1 = Len(reply[p])
  <2>1. pc' = [pc EXCEPT ![p] = "answer"] /\ held' = held \ {p}
    BY <1>3, <1>7 DEF EndOfSet
  <2>2. IsFiniteSet(held)' /\ ConnectionsReturned'
    BY <2>1, ReleaseKeeps
  <2>3. allResult'[p] = AllRecorded(reply[p])
    <3>1. SubSeq(reply[p], 1, Len(reply[p])) = reply[p]
      BY <1>1
    <3> QED BY <3>1, <1>4, <1>7
  <2>4. allResult'[p] = ReadUpTo(reply[p], n + 1, Len(Current(p)))
    <3>1. (n + 1) - 1 = n /\ SubSeq(Current(p), 1, Len(Current(p))) = Current(p)
      BY <1>1
    <3>2. allResult[p] = AllRecorded(SubSeq(reply[p], 1, n))
      BY <1>0, WhileReading
    <3> QED BY <3>1, <3>2, <1>1, <1>2, <1>3, Zenon DEF ReadUpTo
  <2>5. n + 1 \in DOMAIN reply[p] /\ Len(Current(p)) \in 0..Len(reply[p][n + 1])
    BY <1>1
  <2>6. Answered(p)'
    BY <1>3, <2>3, <2>4, <2>5, Zenon DEF Answered
  <2>7. pc'[p] = "answer"
    BY <2>1
  <2>8. Ready(p)' /\ Reading(p)' /\ Executing(p)' /\ Faithful(p)'
    BY <2>7 DEF Ready, Reading, Executing, Faithful
  <2>9. \A q \in Callers : CallerInv(q)'
    BY <2>6, <2>8, <1>6, OneCaller DEF CallerInv
  <2> QED BY <1>5, <2>2, <2>9
<1>8. CASE n + 1 # Len(reply[p])
  <2>1. pc' = pc /\ held' = held
    BY <1>3, <1>8 DEF EndOfSet
  <2>2. IsFiniteSet(held)' /\ ConnectionsReturned'
    BY <2>1 DEF ConnectionsReturned
  <2>3. (n + 1) + 1 <= Len(reply[p]) /\ ((n + 1) + 1) - 1 = n + 1
    BY <1>1, <1>8
  <2>4. /\ Len(records'[p]) = 0 /\ Recorded(<<>>) = <<>>
        /\ reply[p][(n + 1) + 1] \in Seq(RowsSent)
    BY <1>1, <1>3, <2>3 DEF Recorded
  <2>5. /\ SubSeq(reply[p][(n + 1) + 1], 1, 0) = <<>>
        /\ 0 <= Len(reply[p][(n + 1) + 1])
    BY <2>4
  <2>6. ~broken[p]
    BY <1>0 DEF CallerInv, Reading
  <2>7. Reading(p)'
    BY <1>3, <1>4, <2>3, <2>4, <2>5, <2>6, Zenon DEF Reading
  <2>8. Ready(p)' /\ Answered(p)' /\ Executing(p)' /\ Faithful(p)'
    BY <1>0, <2>1 DEF Ready, Answered, Executing, Faithful
  <2>9. \A q \in Callers : CallerInv(q)'
    BY <2>7, <2>8, <1>6, OneCaller DEF CallerInv
  <2> QED BY <1>5, <2>2, <2>9
<1> QED BY <1>7, <1>8

(* The database breaks off in the middle of a set.                         *)
LEMMA BreakOffKeeps == ASSUME IInv, NEW p \in Callers, BreakOff(p) PROVE IInv'
<1> USE DEF IInv, TypeOK
<1> DEFINE n == Len(allResult[p])
           m == Len(records[p])
<1>0. pc[p] = "rows" /\ pc' = [pc EXCEPT ![p] = "answer"] /\ held' = held \ {p}
  BY DEF BreakOff
<1>1. /\ n \in 0..(Len(reply[p]) - 1) /\ Current(p) = reply[p][n + 1]
      /\ allResult[p] = AllRecorded(SubSeq(reply[p], 1, n))
      /\ m \in 0..Len(Current(p))
      /\ records[p] = Recorded(SubSeq(Current(p), 1, m))
  BY <1>0, WhileReading DEF Current
<1>2. /\ allResult'[p] = Append(allResult[p], records[p])
      /\ broken'[p] = TRUE /\ reply' = reply /\ pc'[p] = "answer"
  BY DEF BreakOff
<1>3. TypeOK'
  <2>1. /\ allResult' \in [Callers -> Seq(Seq(RowsRead))]
        /\ records' \in [Callers -> Seq(RowsRead)]
    BY DEF BreakOff
  <2> QED BY <2>1 DEF BreakOff
<1>4. IsFiniteSet(held)' /\ ConnectionsReturned'
  BY <1>0, ReleaseKeeps
<1>5. n + 1 \in DOMAIN reply[p] /\ m \in 0..Len(reply[p][n + 1]) /\ (n + 1) - 1 = n
  BY <1>1
<1>6. allResult'[p] = ReadUpTo(reply[p], n + 1, m)
  BY <1>1, <1>2, <1>5, Zenon DEF ReadUpTo
<1>7. Answered(p)'
  BY <1>2, <1>5, <1>6, Zenon DEF Answered
<1>8. Ready(p)' /\ Reading(p)' /\ Executing(p)' /\ Faithful(p)'
  BY <1>2 DEF Ready, Reading, Executing, Faithful
<1>9. \A q \in Callers \ {p} : Same(q)
  BY DEF BreakOff, Same
<1>10. \A q \in Callers : CallerInv(q)'
  BY <1>7, <1>8, <1>9, OneCaller DEF CallerInv
<1> QED BY <1>3, <1>4, <1>10

(* The answer is returned.                                                 *)
LEMMA ReturnAnswerKeeps ==
    ASSUME IInv, NEW p \in Callers, ReturnAnswer(p) PROVE IInv'
<1> DEFINE r == Answer(allResult[p])
<1>1. pc[p] = "answer" /\ Return(p, r)
  BY DEF ReturnAnswer
<1>2. PICK i \in DOMAIN reply[p] : \E n \in 0..Len(reply[p][i]) :
          allResult[p] = ReadUpTo(reply[p], i, n)
  BY <1>1, Zenon DEF IInv, CallerInv, Answered
<1>3. PICK n \in 0..Len(reply[p][i]) : allResult[p] = ReadUpTo(reply[p], i, n)
  BY <1>2
<1>4. broken[p] \/ allResult[p] = AllRecorded(reply[p])
  BY <1>1 DEF IInv, CallerInv, Answered
<1>5. /\ broken[p] \/ r = Answer(AllRecorded(reply[p]))
      /\ \E k \in DOMAIN reply[p] : \E l \in 0..Len(reply[p][k]) :
            r = Answer(ReadUpTo(reply[p], k, l))
  BY <1>3, <1>4, Zenon
<1>6. IsResult(r)
  <2>1. /\ allResult[p] \in Seq(Seq(RowsRead))
        /\ reply[p] \in Seq(Seq(RowsSent))
    BY DEF IInv, TypeOK
  <2>2. i \in Nat /\ i >= 1 /\ i <= Len(reply[p]) /\ Len(reply[p]) \in Nat
    BY <2>1
  <2>3. SubSeq(reply[p], 1, i - 1) \in Seq(Seq(RowsSent))
    BY <2>1, <2>2
  <2>4. AllRecorded(SubSeq(reply[p], 1, i - 1)) \in Seq(Seq(RowsRead))
    BY <2>3, AllRecordedType
  <2>5. Len(Append(AllRecorded(SubSeq(reply[p], 1, i - 1)),
                   Recorded(SubSeq(reply[p][i], 1, n)))) > 0
    BY <2>4
  <2>6. Len(allResult[p]) > 0
    BY <1>3, <2>5, Zenon DEF ReadUpTo
  <2>7. allResult[p] # <<>>
    BY <2>6
  <2> QED BY <2>1, <2>7, AnswerType
<1> QED BY <1>1, <1>5, <1>6, ReturnKeeps

(* Every step of a caller keeps the invariant.                             *)
LEMMA StepKeeps == ASSUME IInv, NEW p \in Callers, Step(p) PROVE IInv'
<1>1. CASE Refused(p) \/ ExecFails(p) \/ ScanFails(p) \/ CloseFails(p)
  <2>1. Return(p, Error)
    BY <1>1 DEF Refused, ExecFails, ScanFails, CloseFails
  <2> QED BY <2>1, Results, ReturnKeeps
<1>2. CASE Exec(p)
  BY <1>2, ExecKeeps
<1>3. ASSUME NEW id \in Numbers, NEW affected \in Numbers, Executed(p, id, affected)
      PROVE  IInv'
  <2>1. PICK t \in Numbers : Return(p, Plain(t))
    BY <1>3 DEF Executed
  <2>2. IsResult(Plain(t))
    BY Results
  <2>3. ~IsSelect(submitted[p])
    BY <1>3 DEF Executed, IInv, CallerInv, Executing
  <2> QED BY <2>1, <2>2, <2>3, ReturnKeeps
<1>4. ASSUME NEW r \in Replies, Query(p, r) PROVE IInv'
  BY <1>4, QueryKeeps
<1>5. CASE NextRow(p)
  BY <1>5, NextRowKeeps
<1>6. CASE EndOfSet(p)
  BY <1>6, EndOfSetKeeps
<1>7. CASE BreakOff(p)
  BY <1>7, BreakOffKeeps
<1>8. CASE ReturnAnswer(p)
  BY <1>8, ReturnAnswerKeeps
<1> QED BY <1>1, <1>2, <1>3, <1>4, <1>5, <1>6, <1>7, <1>8, Zenon DEF Step, Own, Served

(* A step that changes nothing keeps it too.                               *)
LEMMA StutterKeeps == IInv /\ UNCHANGED vars => IInv'
<1> SUFFICES ASSUME IInv, UNCHANGED vars PROVE IInv'
  OBVIOUS
<1>1. TypeOK' /\ IsFiniteSet(held)' /\ ConnectionsReturned'
  BY DEF IInv, vars, TypeOK, ConnectionsReturned
<1>2. \A q \in Callers : Same(q)
  BY DEF vars, Same
<1>3. \A q \in Callers : CallerInv(q)'
  BY <1>2, SameKeeps DEF IInv
<1> QED BY <1>1, <1>3 DEF IInv

(* The invariant holds in every state the callers reach, however many they *)
(* are and whatever the database sends them.                               *)
THEOREM Invariance == Spec => []IInv
<1>1. ASSUME IInv, [Next]_vars PROVE IInv'
  <2>1. CASE Next
    <3>1. PICK p \in Callers : Step(p) \/ \E s \in Statements : Call(p, s)
      BY <2>1, Zenon DEF Next
    <3> QED BY <1>1, <3>1, StepKeeps, CallKeeps, Zenon
  <2>2. CASE UNCHANGED vars
    BY <1>1, <2>2, StutterKeeps
  <2> QED BY <1>1, <2>1, <2>2
<1> QED BY InitInv, <1>1, PTL DEF Spec

(* The state of dbProvider keeps its types.                                *)
THEOREM TypeCorrect == Spec => []TypeOK
<1>1. IInv => TypeOK
  BY DEF IInv
<1> QED BY <1>1, Invariance, PTL

(* No way out of a call keeps its connection, and no more are in use than  *)
(* the database grants.                                                    *)
THEOREM ConnectionsReturnedHolds == Spec => []ConnectionsReturned
<1>1. IInv => ConnectionsReturned
  BY DEF IInv
<1> QED BY <1>1, Invariance, PTL

(* What a query returns is every row sent, in order, or everything sent    *)
(* until the database broke off.                                           *)
THEOREM AnswerFaithfulHolds == Spec => []AnswerFaithful
<1>1. IInv => AnswerFaithful
  BY DEF IInv, CallerInv, AnswerFaithful
<1> QED BY <1>1, Invariance, PTL
=============================================================================
