----------------------------- MODULE DataProofs -----------------------------
(***************************************************************************)
(* What templates do to data in one call: tables are turned around, and    *)
(* values get other types.                                                 *)
(***************************************************************************)
EXTENDS ColumnRow, Conversion, TLAPS

-----------------------------------------------------------------------------
(***************************************************************************)
(* Turning tables around, for any names, values and sizes of tables.       *)
(***************************************************************************)
(* What RowsOf makes of columns is rows.                                   *)
LEMMA RowsOfType ==
    ASSUME NEW t, IsTable(t), t.shape = "columns", NEW first \in DOMAIN t.c
    PROVE  /\ RowsOf(t.c, first) \in Seq(RowMaps)
           /\ IsTable(Rows(RowsOf(t.c, first)))
<1> DEFINE row(i) == [k \in {n \in DOMAIN t.c : i <= Len(t.c[n])} |-> t.c[k][i]]
<1>1. /\ DOMAIN t.c \subseteq Names
      /\ \A k \in DOMAIN t.c : t.c[k] \in Seq(Vals)
  BY DEF IsTable, NullTable, OtherJson
<1>2. ASSUME NEW i \in 1..Len(t.c[first]) PROVE row(i) \in RowMaps
  <2> DEFINE S == {n \in DOMAIN t.c : i <= Len(t.c[n])}
  <2>1. S \in SUBSET Names
    BY <1>1
  <2>2. ASSUME NEW k \in S PROVE t.c[k][i] \in Vals
    <3>1. /\ t.c[k] \in Seq(Vals) /\ i \in 1..Len(t.c[k])
      BY <1>1
    <3> QED BY <3>1
  <2>3. row(i) \in [S -> Vals]
    BY <2>2
  <2> QED BY <2>1, <2>3 DEF RowMaps
<1>3. RowsOf(t.c, first) = [i \in 1..Len(t.c[first]) |-> row(i)]
  BY DEF RowsOf
<1>4. Len(t.c[first]) \in Nat
  BY <1>1
<1> HIDE DEF row
<1>5. RowsOf(t.c, first) \in Seq(RowMaps)
  BY <1>2, <1>3, <1>4
<1> QED BY <1>5 DEF IsTable, Rows

(* What ColumnsOf makes of rows is columns.                                *)
LEMMA ColumnsOfType ==
    ASSUME NEW r, r \in Seq(RowMaps)
    PROVE  /\ IsTable(Columns(ColumnsOf(r)))
           /\ ColumnNames(r) \subseteq Names
<1>1. ASSUME NEW i \in DOMAIN r
      PROVE  /\ DOMAIN r[i] \subseteq Names
             /\ \A k \in DOMAIN r[i] : r[i][k] \in Vals
  <2>1. r[i] \in RowMaps
    OBVIOUS
  <2> QED BY <2>1 DEF RowMaps
<1>2. ColumnNames(r) \subseteq Names
  BY <1>1 DEF ColumnNames
<1> DEFINE column(k) == [i \in DOMAIN r |-> IF k \in DOMAIN r[i] THEN r[i][k] ELSE Null]
<1>3. ASSUME NEW k PROVE column(k) \in Seq(Vals)
  <2>1. \A i \in DOMAIN r : (IF k \in DOMAIN r[i] THEN r[i][k] ELSE Null) \in Vals
    BY <1>1, NullAssumption
  <2>2. DOMAIN r = 1..Len(r) /\ Len(r) \in Nat
    OBVIOUS
  <2>3. column(k) \in [1..Len(r) -> Vals]
    BY <2>1, <2>2
  <2> QED BY <2>2, <2>3
<1>4. ColumnsOf(r) = [k \in ColumnNames(r) |-> column(k)]
  BY DEF ColumnsOf
<1> HIDE DEF column
<1> DEFINE c == ColumnsOf(r)
<1>5. /\ c = [k \in DOMAIN c |-> c[k]] /\ DOMAIN c \subseteq Names
      /\ \A k \in DOMAIN c : c[k] \in Seq(Vals)
  BY <1>2, <1>3, <1>4
<1> HIDE DEF c
<1>6. IsTable(Columns(c))
  BY <1>5 DEF IsTable, Columns
<1> QED BY <1>2, <1>6 DEF c

(* What the two functions return is a table, or they panic.                *)
LEMMA OutcomeType ==
    ASSUME NEW t, IsTable(t)
    PROVE  /\ \A out \in Column2Row(t) : out # Panic => IsTable(out)
           /\ Row2Column(t) # Panic => IsTable(Row2Column(t))
<1>1. ASSUME NEW out \in Column2Row(t), out # Panic PROVE IsTable(out)
  <2>1. CASE out = NullTable
    BY <2>1 DEF IsTable
  <2>2. CASE out # NullTable
    <3>1. t.shape = "columns" /\ \E first \in DOMAIN t.c : out = Rows(RowsOf(t.c, first))
      BY <1>1, <2>2 DEF Column2Row
    <3> QED BY <3>1, RowsOfType
  <2> QED BY <2>1, <2>2
<1>2. ASSUME Row2Column(t) # Panic PROVE IsTable(Row2Column(t))
  <2>1. CASE t = NullTable
    <3>1. <<>> \in Seq(RowMaps)
      OBVIOUS
    <3>2. IsTable(Columns(ColumnsOf(<<>>)))
      BY <3>1, ColumnsOfType
    <3>3. NullTable.shape # "rows"
      BY DEF NullTable
    <3>4. Row2Column(NullTable) = Columns(ColumnsOf(<<>>))
      BY <3>3, Zenon DEF Row2Column
    <3> QED BY <2>1, <3>2, <3>4
  <2>2. CASE t # NullTable /\ t.shape = "rows"
    <3>1. t.r \in Seq(RowMaps)
      BY <2>2 DEF IsTable, NullTable, OtherJson
    <3> QED BY <2>2, <3>1, ColumnsOfType DEF Row2Column
  <2>3. CASE t # NullTable /\ t.shape # "rows"
    BY <1>2, <2>3 DEF Row2Column
  <2> QED BY <2>1, <2>2, <2>3
<1> QED BY <1>1, <1>2

(* What other templates set is a table.                                    *)
LEMMA InputsAreTables ==
    \A t \in Tables : IsTable(t)
<1>1. ASSUME NEW S PROVE ShortSeqs(S) \subseteq Seq(S)
  BY MaxRowsAssumption DEF ShortSeqs
<1>2. ASSUME NEW S \in SUBSET Names, NEW c \in [S -> ShortSeqs(Vals)]
      PROVE  IsTable(Columns(c))
  <2>1. /\ c = [k \in DOMAIN c |-> c[k]] /\ DOMAIN c \subseteq Names
        /\ \A k \in DOMAIN c : c[k] \in Seq(Vals)
    BY <1>1
  <2> QED BY <2>1 DEF IsTable, Columns
<1>3. ASSUME NEW r \in ShortSeqs(RowMaps) PROVE IsTable(Rows(r))
  BY <1>1 DEF IsTable, Rows
<1> QED BY <1>2, <1>3 DEF Tables, IsTable

(* The calls, and how the latest two and the place are related: each call  *)
(* turned what the one before left.                                        *)
TurnedTo(l, v) ==
    /\ IsNil(l.from) => l.ok /\ v = l.from
    /\ ~IsNil(l.from) =>
          \E out : /\ l.op = "column2Row" => out \in Column2Row(l.from.table)
                   /\ l.op = "row2Column" =>
                         out = IF l.from.form = "structure" THEN Panic
                               ELSE Row2Column(l.from.table)
                   /\ l.ok = (out # Panic)
                   /\ v = IF out = Panic THEN l.from
                          ELSE [form |-> l.from.form, table |-> out]

Turning(l) == l.op \in {"column2Row", "row2Column"}

Chain == /\ Turning(last) => TurnedTo(last, place)
         /\ Turning(prev) => Turning(last) /\ TurnedTo(prev, last.from)

TableIInv == TableTypeOK /\ Chain

(* One turn, whatever its outcome, keeps the types and the chain.          *)
LEMMA TurnKeeps ==
    ASSUME TableIInv, NEW op \in {"column2Row", "row2Column"}, NEW out,
           op = "column2Row" => out \in Column2Row(place.table),
           op = "row2Column" => out = IF place.form = "structure" THEN Panic
                                      ELSE Row2Column(place.table),
           Turn(op, out)
    PROVE  TableIInv'
<1> USE DEF TableIInv
<1>1. IsTable(place.table) /\ place.form \in Forms
  BY DEF TableTypeOK, IsPlace, Turn, IsNil
<1>2. out # Panic => IsTable(out)
  BY <1>1, OutcomeType
<1>3. IsPlace(place)'
  <2>1. CASE out = Panic
    BY <2>1 DEF Turn, TableTypeOK
  <2>2. CASE out # Panic
    BY <1>1, <1>2, <2>2 DEF Turn, IsPlace
  <2> QED BY <2>1, <2>2
<1>4. last' = [op |-> op, from |-> place, ok |-> out # Panic] /\ prev' = last
  BY DEF Turn
<1>5. IsCall(last)' /\ IsCall(prev)'
  BY <1>4 DEF TableTypeOK, IsCall
<1>6. TurnedTo(last', place')
  BY <1>4 DEF Turn, TurnedTo
<1>7. Turning(prev') => Turning(last') /\ TurnedTo(prev', last'.from)
  BY <1>4 DEF Chain, Turning
<1> QED BY <1>3, <1>5, <1>6, <1>7 DEF TableTypeOK, Chain

(* So does a call that finds nothing to turn.                              *)
LEMMA SkipKeeps ==
    ASSUME TableIInv, NEW op \in {"column2Row", "row2Column"}, Skip(op)
    PROVE  TableIInv'
<1> USE DEF TableIInv
<1>1. /\ last' = [op |-> op, from |-> place, ok |-> TRUE] /\ prev' = last
      /\ place' = place /\ IsNil(place)
  BY DEF Skip
<1>2. TableTypeOK'
  BY <1>1 DEF TableTypeOK, IsCall
<1>3. TurnedTo(last', place')
  BY <1>1 DEF TurnedTo
<1>4. Turning(prev') => Turning(last') /\ TurnedTo(prev', last'.from)
  BY <1>1 DEF Chain, Turning
<1> QED BY <1>2, <1>3, <1>4 DEF Chain

(* Types and chain hold in every state.                                    *)
THEOREM TableInvariance == TableSpec => []TableIInv
<1>1. TableInit => TableIInv
  BY DEF TableInit, TableIInv, TableTypeOK, Chain, Turning, NoCall, Unset, IsPlace, IsCall, IsTable, Forms
<1>2. TableIInv /\ [TableNext]_tableVars => TableIInv'
  <2> SUFFICES ASSUME TableIInv, [TableNext]_tableVars PROVE TableIInv'
    OBVIOUS
  <2>1. ASSUME NEW form \in Forms, NEW t \in Tables, SetTable(form, t) PROVE TableIInv'
    <3>1. IsTable(t)
      BY InputsAreTables
    <3>2. IsPlace(place)'
      BY <2>1, <3>1 DEF SetTable, IsPlace
    <3>3. IsPlace(Unset) /\ Unset = NoCall.from
      BY DEF IsPlace, Unset, IsTable, NoCall
    <3>4. /\ last' = [op |-> "set", from |-> Unset, ok |-> TRUE] /\ prev' = NoCall
      BY <2>1 DEF SetTable, NoCall
    <3>5. IsCall(last)' /\ IsCall(prev)'
      BY <3>3, <3>4 DEF IsCall, NoCall
    <3> QED BY <3>2, <3>4, <3>5 DEF TableIInv, TableTypeOK, Chain, Turning, NoCall
  <2>2. CASE GetSetColumn2Row
    BY <2>2, TurnKeeps, SkipKeeps DEF GetSetColumn2Row
  <2>3. CASE GetSetRow2Column
    BY <2>3, TurnKeeps, SkipKeeps DEF GetSetRow2Column
  <2>4. CASE UNCHANGED tableVars
    BY <2>4 DEF tableVars, TableIInv, TableTypeOK, Chain
  <2> QED BY <2>1, <2>2, <2>3, <2>4 DEF TableNext
<1> QED BY <1>1, <1>2, PTL DEF TableSpec

(* Types hold, for any names, values and number of rows.                   *)
THEOREM TableTypes == TableSpec => []TableTypeOK
<1>1. TableIInv => TableTypeOK
  BY DEF TableIInv
<1> QED BY <1>1, TableInvariance, PTL

(* Whatever column is met first, those of one length fit.                  *)
LEMMA RectangularInRange ==
    ASSUME NEW t, IsTable(t), Rectangular(t)
    PROVE  /\ Panic \notin Column2Row(t)
           /\ DOMAIN t.c # {} =>
                 \A out \in Column2Row(t) :
                    \E first \in DOMAIN t.c : out = Rows(RowsOf(t.c, first))
<1>1. t.shape = "columns" /\ t # NullTable
  BY DEF Rectangular, NullTable
<1>2. \A k \in DOMAIN t.c : Len(t.c[k]) \in Nat
  BY <1>1 DEF IsTable, NullTable, OtherJson
<1>3. \A first \in DOMAIN t.c : ~OutOfRange(t.c, first)
  BY <1>2 DEF OutOfRange, Rectangular
<1> QED BY <1>1, <1>3 DEF Column2Row, Rows, Panic, NullTable

(* Columns of one length are always turned, in whatever order the map is   *)
(* walked.                                                                 *)
THEOREM RectangularTurnsHolds == TableSpec => []RectangularTurns
<1>1. TableIInv => RectangularTurns
  <2> SUFFICES ASSUME TableIInv, last.op = "column2Row", ~last.ok
               PROVE  ~Rectangular(last.from.table)
    BY DEF RectangularTurns
  <2>1. TurnedTo(last, place) /\ IsTable(last.from.table)
    BY DEF TableIInv, Chain, Turning, TableTypeOK, IsCall, IsPlace
  <2>2. Panic \in Column2Row(last.from.table)
    BY <2>1 DEF TurnedTo, TableIInv, TableTypeOK, IsCall
  <2> QED BY <2>1, <2>2, RectangularInRange
<1> QED BY <1>1, TableInvariance, PTL

(* Turning columns into rows leaves every cell what it was.                *)
LEMMA Column2RowKeepsCells ==
    ASSUME NEW t, IsTable(t), NEW out \in Column2Row(t), out # Panic, NEW i, NEW k
    PROVE  Cell(out, i, k) = Cell(t, i, k)
<1>1. CASE t.shape # "columns" \/ DOMAIN t.c = {}
  <2>1. out = NullTable
    BY <1>1 DEF Column2Row
  <2>2. t.shape # "rows"
    BY DEF Column2Row, NullTable
  <2> QED BY <1>1, <2>1, <2>2 DEF Cell, NullTable
<1>2. CASE t.shape = "columns" /\ DOMAIN t.c # {}
  <2>1. PICK first \in DOMAIN t.c : /\ out = Rows(RowsOf(t.c, first))
                                   /\ ~OutOfRange(t.c, first)
    BY <1>2 DEF Column2Row, NullTable
  <2>2. \A n \in DOMAIN t.c : /\ DOMAIN t.c[n] = 1..Len(t.c[n])
                               /\ Len(t.c[n]) \in Nat
    BY <1>2 DEF IsTable, NullTable, OtherJson
  <2>3. \A n \in DOMAIN t.c : Len(t.c[n]) <= Len(t.c[first])
    BY <2>1, <2>2 DEF OutOfRange
  <2>4. /\ out.shape = "rows" /\ out.r = RowsOf(t.c, first)
        /\ DOMAIN out.r = 1..Len(t.c[first])
    BY <2>1 DEF Rows, RowsOf
  <2>5. ASSUME NEW j \in DOMAIN out.r
        PROVE  out.r[j] = [n \in {m \in DOMAIN t.c : j <= Len(t.c[m])} |-> t.c[n][j]]
    BY <2>4 DEF RowsOf
  <2>6. CASE k \in DOMAIN t.c /\ i \in DOMAIN t.c[k]
    <3>1. i \in DOMAIN out.r /\ i <= Len(t.c[k])
      BY <2>2, <2>3, <2>4, <2>6
    <3>2. k \in DOMAIN out.r[i] /\ out.r[i][k] = t.c[k][i]
      BY <2>5, <2>6, <3>1
    <3> QED BY <1>2, <2>4, <2>6, <3>1, <3>2 DEF Cell
  <2>7. CASE ~(k \in DOMAIN t.c /\ i \in DOMAIN t.c[k])
    <3>1. ASSUME i \in DOMAIN out.r, k \in DOMAIN out.r[i] PROVE FALSE
      <4>1. k \in DOMAIN t.c /\ i <= Len(t.c[k])
        BY <2>5, <3>1
      <4>2. i \in 1..Len(t.c[first])
        BY <2>4, <3>1
      <4> QED BY <2>2, <2>7, <4>1, <4>2
    <3> QED BY <1>2, <2>4, <2>7, <3>1 DEF Cell
  <2> QED BY <2>6, <2>7
<1> QED BY <1>1, <1>2

(* So does turning rows into columns.                                      *)
LEMMA Row2ColumnKeepsCells ==
    ASSUME NEW t, IsTable(t), Row2Column(t) # Panic, NEW i, NEW k
    PROVE  Cell(Row2Column(t), i, k) = Cell(t, i, k)
<1> DEFINE r == IF t = NullTable THEN <<>> ELSE t.r
<1>1. /\ Row2Column(t) = Columns(ColumnsOf(r))
      /\ t = NullTable \/ t.shape = "rows"
  <2>1. CASE t = NullTable
    <3>1. NullTable.shape # "rows"
      BY DEF NullTable
    <3> QED BY <2>1, <3>1, Zenon DEF Row2Column
  <2>2. CASE t # NullTable /\ t.shape = "rows"
    BY <2>2, Zenon DEF Row2Column
  <2>3. CASE t # NullTable /\ t.shape # "rows"
    BY <2>3, Zenon DEF Row2Column
  <2> QED BY <2>1, <2>2, <2>3
<1>2. Cell(t, i, k) = IF i \in DOMAIN r /\ k \in DOMAIN r[i] THEN r[i][k] ELSE Null
  BY <1>1 DEF Cell, NullTable
<1> DEFINE c == ColumnsOf(r)
<1>3. /\ DOMAIN c = ColumnNames(r)
      /\ \A n \in DOMAIN c :
            c[n] = [j \in DOMAIN r |-> IF n \in DOMAIN r[j] THEN r[j][n] ELSE Null]
  BY DEF ColumnsOf
<1>4. i \in DOMAIN r /\ k \in DOMAIN r[i] => k \in ColumnNames(r)
  BY DEF ColumnNames
<1> HIDE DEF r, c
<1>5. Cell(Columns(c), i, k) = IF k \in DOMAIN c /\ i \in DOMAIN c[k] THEN c[k][i] ELSE Null
  BY DEF Cell, Columns
<1>6. Cell(Columns(c), i, k) = IF i \in DOMAIN r /\ k \in DOMAIN r[i] THEN r[i][k] ELSE Null
  BY <1>3, <1>4, <1>5
<1> QED BY <1>1, <1>2, <1>6 DEF c

(* No call moves or loses a value.                                         *)
THEOREM CellsKeptHolds == TableSpec => CellsKept
<1> DEFINE Keeps ==
      last'.op \in {"column2Row", "row2Column"} /\ last'.ok =>
          \A i \in Positions(place.table) \cup Positions(place'.table), k \in Names :
             Cell(place'.table, i, k) = Cell(place.table, i, k)
<1>1. TableIInv /\ [TableNext]_tableVars => [Keeps]_tableVars
  <2> SUFFICES ASSUME TableIInv, TableNext PROVE Keeps
    OBVIOUS
  <2>1. IsTable(place.table)
    BY DEF TableIInv, TableTypeOK, IsPlace
  <2>2. ASSUME NEW form \in Forms, NEW t \in Tables, SetTable(form, t) PROVE Keeps
    BY <2>2 DEF SetTable, NoCall
  <2>3. ASSUME NEW op, Skip(op) PROVE Keeps
    BY <2>3 DEF Skip
  <2>4. ASSUME NEW op, NEW out, Turn(op, out), last'.ok PROVE out # Panic /\ place'.table = out
    BY <2>4 DEF Turn
  <2>5. CASE GetSetColumn2Row
    BY <2>1, <2>3, <2>4, <2>5, Column2RowKeepsCells DEF GetSetColumn2Row
  <2>6. CASE GetSetRow2Column
    BY <2>1, <2>3, <2>4, <2>6, Row2ColumnKeepsCells DEF GetSetRow2Column
  <2> QED BY <2>2, <2>5, <2>6 DEF TableNext
<1> QED BY <1>1, TableInvariance, PTL DEF TableSpec, CellsKept

(* The columns of the rows of rectangular columns are those columns.       *)
LEMMA BackAgain ==
    ASSUME NEW t, IsTable(t), Rectangular(t), Positions(t) # {}, NEW first \in DOMAIN t.c
    PROVE  ColumnsOf(RowsOf(t.c, first)) = t.c
<1> DEFINE c == t.c
           L == Len(c[first])
           r == RowsOf(c, first)
<1>1. /\ t.shape = "columns" /\ c = [k \in DOMAIN c |-> c[k]]
      /\ \A k \in DOMAIN c : c[k] \in Seq(Vals)
  BY DEF Rectangular, IsTable, NullTable, OtherJson
<1>2. \A k \in DOMAIN c : DOMAIN c[k] = 1..L /\ L \in Nat
  BY <1>1 DEF Rectangular
<1>3. L \in Nat /\ L # 0
  <2>1. PICK k \in DOMAIN c : DOMAIN c[k] # {}
    BY <1>1 DEF Positions
  <2> QED BY <1>2, <2>1
<1>4. DOMAIN r = 1..L
  BY <1>3 DEF RowsOf
<1>5. ASSUME NEW i \in 1..L PROVE DOMAIN r[i] = DOMAIN c /\ \A k \in DOMAIN c : r[i][k] = c[k][i]
  <2>1. r[i] = [k \in {n \in DOMAIN c : i <= Len(c[n])} |-> c[k][i]]
    BY DEF RowsOf
  <2>2. {n \in DOMAIN c : i <= Len(c[n])} = DOMAIN c
    BY <1>1, <1>3 DEF Rectangular
  <2> QED BY <2>1, <2>2
<1> HIDE DEF c, L, r
<1>6. ColumnNames(r) = DOMAIN c
  <2>1. 1 \in DOMAIN r
    BY <1>3, <1>4
  <2> QED BY <2>1, <1>4, <1>5 DEF ColumnNames
<1>7. ASSUME NEW k \in DOMAIN c
      PROVE  [i \in DOMAIN r |-> IF k \in DOMAIN r[i] THEN r[i][k] ELSE Null] = c[k]
  <2>1. c[k] = [i \in 1..L |-> c[k][i]]
    BY <1>1, <1>2
  <2> QED BY <1>4, <1>5, <2>1
<1>8. ColumnsOf(r) = c
  BY <1>1, <1>6, <1>7 DEF ColumnsOf
<1> QED BY <1>8 DEF r, c

(* A text of rectangular columns survives being turned there and back.     *)
THEOREM ThereAndBackHolds == TableSpec => []ThereAndBack
<1>1. TableIInv => ThereAndBack
  <2> DEFINE t == prev.from.table
  <2> SUFFICES ASSUME TableIInv, prev.op = "column2Row", last.op = "row2Column",
                      prev.from.form = "text", Rectangular(t), Positions(t) # {}
               PROVE  last.ok /\ place = prev.from
    BY DEF ThereAndBack
  <2>1. /\ IsTable(t) /\ prev.from = [form |-> "text", table |-> t]
        /\ t.shape = "columns" /\ t = Columns(t.c)
    BY DEF TableIInv, TableTypeOK, IsCall, IsPlace, Rectangular, IsTable, NullTable, OtherJson
  <2>2. DOMAIN t.c # {}
    BY <2>1 DEF Positions
  <2>3. TurnedTo(prev, last.from) /\ TurnedTo(last, place)
    BY DEF TableIInv, Chain, Turning
  <2>4. ~IsNil(prev.from)
    BY <2>1 DEF IsNil
  <2>5. PICK first \in DOMAIN t.c :
           last.from = [form |-> "text", table |-> Rows(RowsOf(t.c, first))]
    BY <2>1, <2>2, <2>3, <2>4, RectangularInRange DEF TurnedTo, Rows, Panic
  <2> DEFINE r == RowsOf(t.c, first)
  <2>6. ~IsNil(last.from) /\ last.from.form # "structure"
    BY <2>5 DEF IsNil
  <2>7. Row2Column(Rows(r)) = Columns(ColumnsOf(r)) /\ Row2Column(Rows(r)) # Panic
    BY DEF Row2Column, Rows, NullTable, Columns, Panic
  <2>8. ColumnsOf(r) = t.c
    BY <2>1, BackAgain
  <2>9. last.ok /\ place = [form |-> "text", table |-> Columns(ColumnsOf(r))]
    <3>1. last.from.form = "text" /\ last.from.table = Rows(r)
      BY <2>5
    <3>2. \E out : /\ out = Row2Column(Rows(r))
                   /\ last.ok = (out # Panic)
                   /\ place = IF out = Panic THEN last.from ELSE [form |-> "text", table |-> out]
      BY <2>3, <2>6, <3>1 DEF TurnedTo
    <3> QED BY <2>7, <3>2
  <2> QED BY <2>1, <2>8, <2>9
<1> QED BY <1>1, TableInvariance, PTL

-----------------------------------------------------------------------------
(***************************************************************************)
(* Conversions, for every set of keys and of inputs, and wherever float64  *)
(* ceases to have all integers.                                            *)
(***************************************************************************)
(* A value is of one of five types, each with its field.                   *)
LEMMA GoValueCases ==
    ASSUME NEW v \in GoValues
    PROVE  \/ v = Nil
           \/ v.type = "int" /\ v.n \in Int
           \/ v.type = "float64" /\ v.h \in Int /\ Rounded(v.h) = v.h
           \/ v.type = "bool" /\ v.b \in BOOLEAN
           \/ v.type = "string" /\ v.c \in Contents /\ v.blanks \in BOOLEAN
  BY DEF GoValues

(* A float64 is at most one away, and none up to Exact halves.             *)
LEMMA RoundedNear ==
    ASSUME NEW h \in Int
    PROVE  /\ Rounded(h) \in Int /\ Magnitude(Rounded(h) - h) <= 2
           /\ Magnitude(h) <= Exact => Rounded(h) = h
<1>1. Exact \in Nat /\ Magnitude(h) \in Int
  BY ExactAssumption DEF Magnitude
<1> DEFINE To(s) == IF 2 * (h % s) < s \/ (2 * (h % s) = s /\ (h \div s) % 2 = 0)
                    THEN (h \div s) * s ELSE (h \div s + 1) * s
<1>2. To(1) = h
  <2>1. h % 1 = 0 /\ h \div 1 = h
    OBVIOUS
  <2> QED BY <2>1
<1>3. To(2) \in Int /\ Magnitude(To(2) - h) <= 2
  BY DEF Magnitude
<1>4. To(4) \in Int /\ Magnitude(To(4) - h) <= 2
  BY DEF Magnitude
<1>5. CASE Magnitude(h) <= Exact
  <2>1. Rounded(h) = To(1)
    BY <1>1, <1>5 DEF Rounded
  <2>2. Magnitude(To(1) - h) = 0
    BY <1>2 DEF Magnitude
  <2> HIDE DEF To
  <2> QED BY <1>2, <2>1, <2>2
<1>6. CASE Magnitude(h) > Exact /\ Magnitude(h) <= 2 * Exact
  <2>1. Rounded(h) = To(2)
    BY <1>1, <1>6 DEF Rounded
  <2> HIDE DEF To
  <2> QED BY <1>1, <1>3, <1>6, <2>1
<1>7. CASE Magnitude(h) > 2 * Exact
  <2>1. Rounded(h) = To(4)
    BY <1>1, <1>7 DEF Rounded
  <2> HIDE DEF To
  <2> QED BY <1>1, <1>4, <1>7, <2>1
<1> QED BY <1>1, <1>5, <1>6, <1>7

(* A float64 is rounded to itself.                                         *)
LEMMA RoundedOnce ==
    ASSUME NEW h \in Int
    PROVE  /\ Rounded(Rounded(h)) = Rounded(h)
           /\ Rounded(h) = h /\ h % 2 = 1 => Magnitude(h) <= Exact
<1>1. Exact \in Nat /\ Exact % 4 = 0
  BY ExactAssumption
<1> DEFINE To(k, s) == IF 2 * (k % s) < s \/ (2 * (k % s) = s /\ (k \div s) % 2 = 0)
                       THEN (k \div s) * s ELSE (k \div s + 1) * s
<1>2. ASSUME NEW k \in Int
      PROVE  /\ To(k, 1) = k
             /\ To(k, 2) \in Int /\ To(k, 2) % 2 = 0 /\ (k % 2 = 0 => To(k, 2) = k)
             /\ To(k, 4) \in Int /\ To(k, 4) % 4 = 0 /\ (k % 4 = 0 => To(k, 4) = k)
             /\ Magnitude(k) <= 2 * Exact => Magnitude(To(k, 2)) <= 2 * Exact
             /\ Magnitude(k) <= Exact => Rounded(k) = To(k, 1)
             /\ Magnitude(k) > Exact /\ Magnitude(k) <= 2 * Exact => Rounded(k) = To(k, 2)
             /\ Magnitude(k) > 2 * Exact => Rounded(k) = To(k, 4)
  <2>1. k % 1 = 0 /\ k \div 1 = k
    OBVIOUS
  <2>2. To(k, 1) = k
    BY <2>1
  <2>3. To(k, 2) \in Int /\ To(k, 2) % 2 = 0 /\ (k % 2 = 0 => To(k, 2) = k)
    OBVIOUS
  <2>4. To(k, 4) \in Int /\ To(k, 4) % 4 = 0 /\ (k % 4 = 0 => To(k, 4) = k)
    OBVIOUS
  <2>5. Magnitude(k) <= 2 * Exact => Magnitude(To(k, 2)) <= 2 * Exact
    BY <1>1 DEF Magnitude
  <2>6. Magnitude(k) <= Exact => Rounded(k) = To(k, 1)
    BY <1>1 DEF Rounded, Magnitude
  <2>7. Magnitude(k) > Exact /\ Magnitude(k) <= 2 * Exact => Rounded(k) = To(k, 2)
    BY <1>1 DEF Rounded, Magnitude
  <2>8. Magnitude(k) > 2 * Exact => Rounded(k) = To(k, 4)
    BY <1>1 DEF Rounded, Magnitude
  <2> QED BY <2>2, <2>3, <2>4, <2>5, <2>6, <2>7, <2>8
<1> HIDE DEF To
<1>3. \A k \in Int : k % 4 = 0 => Rounded(k) = k
  <2> SUFFICES ASSUME NEW k \in Int, k % 4 = 0 PROVE Rounded(k) = k
    OBVIOUS
  <2>1. k % 2 = 0 /\ To(k, 1) = k /\ To(k, 2) = k /\ To(k, 4) = k
    <3>1. k % 2 = 0
      OBVIOUS
    <3> QED BY <1>2, <3>1
  <2>2. Rounded(k) \in {To(k, 1), To(k, 2), To(k, 4)}
    <3>1. Magnitude(k) \in Int
      BY DEF Magnitude
    <3>2. \/ Magnitude(k) <= Exact
          \/ Magnitude(k) > Exact /\ Magnitude(k) <= 2 * Exact
          \/ Magnitude(k) > 2 * Exact
      BY <1>1, <3>1
    <3> QED BY <1>2, <3>2
  <2> QED BY <2>1, <2>2
<1>4. \A k \in Int : k % 2 = 0 /\ Magnitude(k) <= 2 * Exact => Rounded(k) = k
  <2> SUFFICES ASSUME NEW k \in Int, k % 2 = 0, Magnitude(k) <= 2 * Exact PROVE Rounded(k) = k
    OBVIOUS
  <2>1. Magnitude(k) \in Int
    BY DEF Magnitude
  <2>2. Magnitude(k) <= Exact \/ Magnitude(k) > Exact
    BY <1>1, <2>1
  <2> QED BY <1>2, <2>2
<1>5. Magnitude(h) \in Int /\ (h % 4 = 0 => h % 2 = 0)
  BY DEF Magnitude
<1>6. CASE Magnitude(h) <= Exact
  BY <1>2, <1>6
<1>7. CASE Magnitude(h) > Exact /\ Magnitude(h) <= 2 * Exact
  <2>1. Rounded(h) = To(h, 2) /\ To(h, 2) % 2 = 0 /\ To(h, 2) \in Int
        /\ Magnitude(To(h, 2)) <= 2 * Exact
    BY <1>2, <1>7
  <2> QED BY <1>4, <2>1
<1>8. CASE Magnitude(h) > 2 * Exact
  <2>1. Rounded(h) = To(h, 4) /\ To(h, 4) % 4 = 0 /\ To(h, 4) \in Int
    BY <1>2, <1>8
  <2>2. Rounded(h) = h => h % 2 # 1
    BY <1>5, <2>1
  <2> QED BY <1>3, <2>1, <2>2
<1> QED BY <1>1, <1>5, <1>6, <1>7, <1>8

(* What the constructors make are values.                                  *)
LEMMA Made ==
    /\ Nil \in GoValues /\ Nothing \in Contents /\ Word \in Contents
    /\ \A n \in Int : IntOf(n) \in GoValues /\ Digits(n) \in Contents
    /\ Float(0) \in GoValues
    /\ \A h \in Int : Float(Rounded(h)) \in GoValues /\ Point(h) \in Contents
    /\ \A b \in BOOLEAN : Bool(b) \in GoValues /\ Truth(b) \in Contents
    /\ \A c \in Contents : Text(c) \in GoValues /\ Padded(c) \in GoValues
<1>1. Float(0) \in GoValues
  <2>1. Magnitude(0) <= Exact
    BY ExactAssumption DEF Magnitude
  <2>2. Rounded(0) = 0
    BY <2>1, RoundedNear
  <2> QED BY <2>2 DEF Float, GoValues
<1>2. ASSUME NEW h \in Int PROVE Float(Rounded(h)) \in GoValues
  <2>1. Rounded(h) \in {k \in Int : Rounded(k) = k}
    BY RoundedNear, RoundedOnce
  <2>2. \A x \in {k \in Int : Rounded(k) = k} : Float(x) \in GoValues
    BY DEF Float, GoValues
  <2> QED BY <2>1, <2>2
<1>3. /\ Nil \in GoValues /\ Nothing \in Contents /\ Word \in Contents
      /\ \A n \in Int : IntOf(n) \in GoValues /\ Digits(n) \in Contents
      /\ \A h \in Int : Point(h) \in Contents
      /\ \A b \in BOOLEAN : Bool(b) \in GoValues /\ Truth(b) \in Contents
      /\ \A c \in Contents : Text(c) \in GoValues /\ Padded(c) \in GoValues
  BY DEF GoValues, Contents, IntOf, Float, Bool, Digits, Point, Truth, Text, Padded
<1> QED BY <1>1, <1>2, <1>3

(* new is the number that v means, up to the rounding of what has a point. *)
Near(new, v) ==
    \/ new = Meant(v)
    \/ /\ IsText(v) /\ v.c.says = "point"
       /\ Magnitude(Meant(v)) > Exact /\ Magnitude(new - Meant(v)) <= 2

LEMMA TruncatedIsWhole ==
    ASSUME NEW h \in Int
    PROVE  /\ Truncated(h) \in Int
           /\ Magnitude(2 * Truncated(h)) <= Magnitude(h)
           /\ Magnitude(2 * Truncated(h) - h) < 2
  BY DEF Truncated, Magnitude

-----------------------------------------------------------------------------
Texts == [type : {"string"}, c : Contents, blanks : BOOLEAN]

LEMMA TextsAreValues == Texts \subseteq GoValues /\ \A v \in GoValues : v.type = "string" => v \in Texts
  BY DEF Texts, GoValues, Nil

LEMMA MadeTexts == \A c \in Contents : Text(c) \in Texts /\ Padded(c) \in Texts
  BY DEF Texts, Text, Padded

(* The text of a number says which.                                        *)
LEMMA StrvalType ==
    ASSUME NEW v \in GoValues, v # Nil
    PROVE  Strval(v) \in Texts
<1>1. CASE v.type = "int" /\ v.n \in Int
  <2>1. Strval(v) = Text(Digits(v.n))
    BY <1>1 DEF Strval, IsText
  <2> QED BY <1>1, <2>1, Made, MadeTexts
<1>2. CASE v.type = "float64" /\ v.h \in Int
  <2>1. Strval(v) = Text(Digits(v.h \div 2)) \/ Strval(v) = Text(Point(v.h))
    BY <1>2 DEF Strval, IsText
  <2>2. v.h \div 2 \in Int
    BY <1>2
  <2> QED BY <1>2, <2>1, <2>2, Made, MadeTexts
<1>3. CASE v.type = "bool" /\ v.b \in BOOLEAN
  <2>1. Strval(v) = Text(Truth(v.b))
    BY <1>3 DEF Strval, IsText
  <2> QED BY <1>3, <2>1, Made, MadeTexts
<1>4. CASE v.type = "string"
  BY <1>4, TextsAreValues DEF Strval, IsText
<1> QED BY <1>1, <1>2, <1>3, <1>4, GoValueCases

LEMMA StrvalMeaning ==
    ASSUME NEW v \in GoValues, v.type = "float64"
    PROVE  /\ ~Strval(v).blanks /\ Strval(v).c.says \in {"digits", "point"}
           /\ Meant(Strval(v)) = v.h /\ Strval(v).type = "string"
           /\ Strval(v).c.says = "point" => ~(Magnitude(v.h) > Exact)
<1>1. v.h \in Int /\ Rounded(v.h) = v.h
  BY DEF GoValues, Nil
<1>2. CASE v.h % 2 = 0
  <2>1. Strval(v) = Text(Digits(v.h \div 2))
    BY <1>2 DEF Strval, IsText
  <2>2. 2 * (v.h \div 2) = v.h
    BY <1>1, <1>2
  <2> QED BY <2>1, <2>2 DEF Text, Digits, Meant, IsText
<1>3. CASE v.h % 2 # 0
  <2>1. v.h % 2 = 1
    BY <1>1, <1>3
  <2>2. Strval(v) = Text(Point(v.h))
    BY <2>1 DEF Strval, IsText
  <2>3. ~(Magnitude(v.h) > Exact)
    <3>1. Magnitude(v.h) <= Exact
      BY <1>1, <2>1, RoundedOnce
    <3> QED BY <1>1, <3>1, ExactAssumption DEF Magnitude
  <2> QED BY <2>2, <2>3 DEF Text, Point, Meant, IsText
<1> QED BY <1>2, <1>3

-----------------------------------------------------------------------------
(* strconv: what parses is the number the text says.                       *)
LEMMA AtoiMeaning ==
    ASSUME NEW s \in Texts
    PROVE  /\ Atoi(s).val \in GoValues /\ Atoi(s).result \in {"ok", "notInt"}
           /\ Atoi(s).result = "ok" <=> s.c.says = "digits" /\ ~s.blanks
           /\ Atoi(s).result = "ok" => Atoi(s).val = IntOf(s.c.n) /\ s.c.n \in Int
<1>1. s.c \in Contents
  BY DEF Texts
<1>2. s.c.says = "digits" => s.c.n \in Int
  BY <1>1 DEF Contents, Nothing, Word
<1> QED BY <1>2, Made DEF Atoi, Ok, Panicked

LEMMA ParseFloatMeaning ==
    ASSUME NEW s \in Texts
    PROVE  /\ ParseFloat(s).val \in GoValues /\ ParseFloat(s).result \in {"ok", "notFloat"}
           /\ s.c.says = "point" /\ ~s.blanks
                 => ParseFloat(s).result = "ok" /\ ParseFloat(s).val = Float(Rounded(s.c.h)) /\ s.c.h \in Int
<1>1. s.c \in Contents
  BY DEF Texts
<1>2. /\ s.c.says = "digits" => s.c.n \in Int /\ Rounded(2 * s.c.n) \in Int
      /\ s.c.says = "point" => s.c.h \in Int /\ Rounded(s.c.h) \in Int
  BY <1>1, RoundedNear DEF Contents, Nothing, Word
<1>3. /\ s.c.says = "digits" => Float(Rounded(2 * s.c.n)) \in GoValues
      /\ s.c.says = "point" => Float(Rounded(s.c.h)) \in GoValues
  <2>1. \A n \in Int : 2 * n \in Int
    OBVIOUS
  <2> QED BY <1>2, <2>1, Made
<1> QED BY <1>2, <1>3, Made DEF ParseFloat, Ok, Panicked

LEMMA ParseBoolType ==
    ASSUME NEW s \in Texts
    PROVE  ParseBool(s).val \in GoValues /\ ParseBool(s).result \in {"ok", "notBool"}
<1>1. s.c \in Contents
  BY DEF Texts
<1>2. s.c.says = "truth" => s.c.b \in BOOLEAN
  BY <1>1 DEF Contents, Nothing, Word
<1>3. (s.c.n = 1) \in BOOLEAN
  OBVIOUS
<1> QED BY <1>2, <1>3, Made DEF ParseBool, Ok, Panicked

-----------------------------------------------------------------------------
LEMMA ConvertedType ==
    ASSUME NEW v \in GoValues, NEW type \in Types
    PROVE  /\ ConvertType(type, v).val \in GoValues
           /\ ConvertType(type, v).result \in Results
           /\ type = "string" => ConvertType(type, v).result = "ok" /\ ConvertType(type, v).val \in Texts
<1>1. CASE v = Nil
  <2>1. ConvertType(type, v) = Ok(Zero(type))
    BY <1>1 DEF ConvertType
  <2>2. /\ Zero("int") = IntOf(0) /\ Zero("int64") = IntOf(0) /\ Zero("float64") = Float(0)
        /\ Zero("bool") = Bool(FALSE) /\ Zero("string") = Text(Nothing)
    BY DEF Zero
  <2>3. Zero(type) \in GoValues /\ (type = "string" => Zero(type) \in Texts)
    <3>1. IntOf(0) \in GoValues /\ Float(0) \in GoValues /\ Bool(FALSE) \in GoValues
      <4>1. IntOf(0) \in GoValues /\ Bool(FALSE) \in GoValues
        BY DEF IntOf, Bool, GoValues
      <4> QED BY <4>1, Made
    <3>2. Text(Nothing) \in Texts
      BY Made, MadeTexts
    <3> QED BY <2>2, <3>1, <3>2, TextsAreValues DEF Types
  <2> QED BY <2>1, <2>3 DEF Ok, Results
<1>2. CASE v # Nil /\ type \in {"int", "int64"}
  <2>1. CASE v.type = "int"
    BY <1>2, <2>1 DEF ConvertType, Ok, Results
  <2>2. CASE v.type = "float64"
    <3>1. v.h \in Int
      BY <2>2 DEF GoValues, Nil
    <3> QED BY <1>2, <2>2, <3>1, TruncatedIsWhole, Made DEF ConvertType, Ok, Results
  <2>3. CASE v.type \notin {"int", "float64"}
    <3>1. ConvertType(type, v) = Atoi(Strval(v))
      BY <1>2, <2>3 DEF ConvertType
    <3> QED BY <1>2, <3>1, StrvalType, AtoiMeaning DEF Results
  <2> QED BY <2>1, <2>2, <2>3
<1>3. CASE v # Nil /\ type = "float64"
  <2>1. CASE v.type = "int"
    <3>1. v.n \in Int /\ 2 * v.n \in Int
      BY <2>1 DEF GoValues, Nil
    <3>2. ConvertType(type, v) = Ok(Float(Rounded(2 * v.n)))
      BY <1>3, <2>1 DEF ConvertType
    <3>3. Float(Rounded(2 * v.n)) \in GoValues
      BY <3>1, Made
    <3> QED BY <1>3, <3>2, <3>3 DEF Ok, Results
  <2>2. CASE v.type = "float64"
    BY <1>3, <2>2 DEF ConvertType, Ok, Results
  <2>3. CASE v.type \notin {"int", "float64"}
    <3>1. ConvertType(type, v) = ParseFloat(Strval(v))
      BY <1>3, <2>3 DEF ConvertType
    <3> QED BY <1>3, <3>1, StrvalType, ParseFloatMeaning DEF Results
  <2> QED BY <2>1, <2>2, <2>3
<1>4. CASE v # Nil /\ type = "bool"
  <2>1. CASE v.type = "bool"
    BY <1>4, <2>1 DEF ConvertType, Ok, Results
  <2>2. CASE v.type # "bool"
    <3>1. ConvertType(type, v) = ParseBool(Strval(v))
      BY <1>4, <2>2 DEF ConvertType
    <3> QED BY <1>4, <3>1, StrvalType, ParseBoolType DEF Results
  <2> QED BY <2>1, <2>2
<1>5. CASE v # Nil /\ type = "string"
  <2>1. CASE v.type = "int"
    <3>1. v.n \in Int
      BY <2>1 DEF GoValues, Nil
    <3>2. CharacterOf(v.n) \in Texts
      BY <3>1, Made, MadeTexts DEF CharacterOf
    <3> QED BY <1>5, <2>1, <3>2, TextsAreValues DEF ConvertType, Ok, Results
  <2>2. CASE v.type # "int"
    <3>1. ConvertType(type, v) = Ok(Strval(v))
      BY <1>5, <2>2 DEF ConvertType
    <3> QED BY <1>5, <3>1, StrvalType, TextsAreValues DEF Ok, Results
  <2> QED BY <2>1, <2>2
<1> QED BY <1>1, <1>2, <1>3, <1>4, <1>5 DEF Types

(* The number in a text, of either function.                               *)
LEMMA NumberMeaning ==
    ASSUME NEW s \in Texts, NEW out \in {NumberOrZero(s), NumberWithOutEmptyStr(s)}
    PROVE  /\ out.val \in GoValues /\ out.result \in Results
           /\ out.result = "ok" => Near(Meant(out.val), s)
           /\ s.c.says \in {"digits", "point"} => out.result = "ok"
<1>1. s.c \in Contents /\ Text(s.c) \in Texts
  BY MadeTexts DEF Texts
<1>2. Text(s.c).c = s.c /\ ~Text(s.c).blanks /\ Text(s.c).type = "string" /\ s.type = "string"
  BY DEF Text, Texts
<1>3. CASE out = NumberWithOutEmptyStr(s)
  <2>1. CASE s.c = Nothing
    BY <1>2, <1>3, <2>1, Made DEF NumberWithOutEmptyStr, Panicked, Results, Nothing
  <2>2. CASE s.c # Nothing /\ s.c.says = "point"
    <3>1. out = ParseFloat(Text(s.c))
      BY <1>2, <1>3, <2>2 DEF NumberWithOutEmptyStr
    <3>2. out.result = "ok" /\ out.val = Float(Rounded(s.c.h)) /\ s.c.h \in Int
      BY <1>1, <1>2, <2>2, <3>1, ParseFloatMeaning
    <3>3. Rounded(s.c.h) \in Int
      BY <3>2, RoundedNear
    <3>4. Meant(out.val) = Rounded(s.c.h) /\ Meant(s) = s.c.h
      BY <1>2, <2>2, <3>2 DEF IsText, Meant, Float
    <3>5. Near(Rounded(s.c.h), s)
      <4>1. CASE Magnitude(s.c.h) <= Exact
        BY <3>2, <3>4, <4>1, RoundedNear DEF Near
      <4>2. CASE ~(Magnitude(s.c.h) <= Exact)
        <5>1. Magnitude(s.c.h) > Exact
          BY <3>2, <4>2, ExactAssumption DEF Magnitude
        <5>2. Magnitude(Rounded(s.c.h) - s.c.h) <= 2
          BY <3>2, RoundedNear
        <5> QED BY <1>2, <2>2, <3>4, <5>1, <5>2 DEF Near, IsText
      <4> QED BY <4>1, <4>2
    <3> QED BY <3>2, <3>3, <3>4, <3>5, Made DEF Results
  <2>3. CASE s.c # Nothing /\ s.c.says # "point"
    <3>1. out = Atoi(Text(s.c))
      BY <1>2, <1>3, <2>3 DEF NumberWithOutEmptyStr
    <3>2. /\ out.val \in GoValues /\ out.result \in {"ok", "notInt"}
          /\ out.result = "ok" <=> s.c.says = "digits"
          /\ out.result = "ok" => out.val = IntOf(s.c.n)
      BY <1>1, <1>2, <3>1, AtoiMeaning
    <3> QED BY <1>2, <2>3, <3>2 DEF IsText, Meant, IntOf, Results, Near
  <2> QED BY <2>1, <2>2, <2>3
<1>4. CASE out = NumberOrZero(s)
  <2>1. CASE s = Text(Nothing)
    <3>1. out = Ok(IntOf(0))
      BY <1>4, <2>1 DEF NumberOrZero
    <3>2. s.type = "string" /\ s.c.says = "nothing"
      BY <2>1 DEF Text, Nothing
    <3> QED BY <3>1, <3>2, Made DEF Ok, IsText, Meant, IntOf, Results, Near
  <2>2. CASE s # Text(Nothing)
    BY <1>3, <1>4, <2>2 DEF NumberOrZero
  <2> QED BY <2>1, <2>2
<1> QED BY <1>3, <1>4

-----------------------------------------------------------------------------
(* What is read is a Go value, what is stored is what its key can hold.    *)
LEMMA ReadType ==
    ASSUME ConvTypeOK, NEW k \in Keys
    PROVE  Read(k) \in GoValues
<1>1. store[k] \in GoValues \cup Numbers
  BY DEF ConvTypeOK, Keys
<1>2. CASE store[k].type = "number"
  <2>1. store[k].h \in Int
    BY <1>1, <1>2 DEF GoValues, Numbers, Nil
  <2> QED BY <1>2, <2>1, RoundedNear, RoundedOnce, Made DEF Read
<1>3. CASE store[k].type # "number"
  BY <1>1, <1>3 DEF Read, Numbers
<1> QED BY <1>2, <1>3

LEMMA StoredType ==
    ASSUME NEW k \in Keys, NEW v \in GoValues
    PROVE  /\ k \in Plain => Stored(k, v) \in GoValues
           /\ k \notin Plain => /\ Stored(k, v) \in GoValues \cup Numbers
                                /\ Stored(k, v).type \notin {"int", "float64"}
<1>1. CASE k \in Plain
  BY <1>1 DEF Stored
<1>2. CASE k \notin Plain /\ v.type \in {"int", "float64"}
  <2>1. v.type = "int" => 2 * v.n \in Int /\ Stored(k, v) = Number(2 * v.n)
    BY <1>2 DEF Stored, GoValues, Nil
  <2>2. v.type = "float64" => v.h \in Int /\ Stored(k, v) = Number(v.h)
    BY <1>2 DEF Stored, GoValues, Nil
  <2>3. \A h \in Int : Number(h) \in Numbers /\ Number(h).type = "number"
    BY DEF Number, Numbers
  <2> QED BY <1>2, <2>1, <2>2, <2>3
<1>3. CASE k \notin Plain /\ v.type = "nil"
  <2>1. Stored(k, v) = Text(Nothing)
    BY <1>3 DEF Stored
  <2>2. Text(Nothing) \in GoValues /\ Text(Nothing).type = "string"
    BY Made DEF Text
  <2> QED BY <1>3, <2>1, <2>2
<1>4. CASE k \notin Plain /\ v.type \notin {"nil", "int", "float64"}
  BY <1>4 DEF Stored
<1> QED BY <1>1, <1>2, <1>3, <1>4

LEMMA StoredMeaning ==
    ASSUME NEW k \in Keys, NEW v \in GoValues, v.type \in {"int", "float64"}
    PROVE  Meant(Stored(k, v)) = Meant(v)
<1>1. CASE k \in Plain
  BY <1>1 DEF Stored
<1>2. CASE k \notin Plain /\ v.type = "int"
  BY <1>2 DEF Stored, Meant, Number, IsText
<1>3. CASE k \notin Plain /\ v.type = "float64"
  BY <1>3 DEF Stored, Meant, Number, IsText
<1> QED BY <1>1, <1>2, <1>3

-----------------------------------------------------------------------------
LEMMA FinishType ==
    ASSUME ConvTypeOK, NEW op, NEW to \in Keys, NEW old \in GoValues, NEW outcome,
           outcome.result \in Results, outcome.val \in GoValues,
           Finish(op, to, old, outcome)
    PROVE  ConvTypeOK'
<1>1. latest'.result \in Results /\ latest'.old \in GoValues /\ latest'.new \in GoValues
  BY DEF Finish
<1>2. CASE outcome.result = "ok"
  <2>1. store' = [store EXCEPT ![to] = Stored(to, outcome.val)]
    BY <1>2 DEF Finish
  <2>2. DOMAIN store' = Keys /\ store'[to] = Stored(to, outcome.val)
        /\ \A k \in Keys \ {to} : store'[k] = store[k]
    BY <2>1 DEF ConvTypeOK
  <2>3. /\ to \in Plain => Stored(to, outcome.val) \in GoValues
        /\ to \notin Plain => /\ Stored(to, outcome.val) \in GoValues \cup Numbers
                              /\ Stored(to, outcome.val).type \notin {"int", "float64"}
    BY StoredType
  <2> QED BY <1>1, <2>2, <2>3, KeysAssumption DEF ConvTypeOK, Keys
<1>3. CASE outcome.result # "ok"
  BY <1>1, <1>3 DEF Finish, ConvTypeOK
<1> QED BY <1>2, <1>3

LEMMA OkType == \A v \in GoValues : Ok(v).result \in Results /\ Ok(v).val \in GoValues
  BY DEF Ok, Results

LEMMA ConvTypeStep == ConvTypeOK /\ [ConvNext]_convVars => ConvTypeOK'
<1> SUFFICES ASSUME ConvTypeOK, [ConvNext]_convVars PROVE ConvTypeOK'
  OBVIOUS
<1>1. ASSUME NEW k \in Keys, NEW v \in Inputs, SetValue(k, v) PROVE ConvTypeOK'
  BY <1>1, InputsAssumption, Made, OkType, FinishType DEF SetValue
<1>2. ASSUME NEW to \in Keys, NEW from \in Keys, GetSetValue(to, from) PROVE ConvTypeOK'
  BY <1>2, ReadType, OkType, FinishType DEF GetSetValue
<1>3. ASSUME NEW to \in Keys, NEW from \in Keys, GetSetValueInt(to, from) PROVE ConvTypeOK'
  <2>1. "int" \in Types
    BY DEF Types
  <2> QED BY <1>3, <2>1, ReadType, ConvertedType, FinishType DEF GetSetValueInt
<1>4. ASSUME NEW to \in Keys, NEW from \in Keys,
             GetSetValueNumber(to, from) \/ GetSetValueNumberWithOutEmptyStr(to, from)
      PROVE  ConvTypeOK'
  <2> DEFINE s == ConvertType("string", Read(from)).val
  <2>1. s \in Texts
    BY ReadType, ConvertedType DEF Types
  <2>2. \A out \in {NumberOrZero(s), NumberWithOutEmptyStr(s)} :
           out.val \in GoValues /\ out.result \in Results
    BY <2>1, NumberMeaning
  <2> QED BY <1>4, <2>2, ReadType, FinishType
          DEF GetSetValueNumber, GetSetValueNumberWithOutEmptyStr
<1>5. ASSUME NEW type \in Types, NEW from \in Keys, GetValue(type, from) PROVE ConvTypeOK'
  <2>1. /\ Read(from) \in GoValues
        /\ ConvertType(type, Read(from)).val \in GoValues
        /\ ConvertType(type, Read(from)).result \in Results
    BY ReadType, ConvertedType
  <2> QED BY <1>5, <2>1 DEF GetValue, ConvTypeOK
<1>6. CASE UNCHANGED convVars
  BY <1>6 DEF convVars, ConvTypeOK
<1> QED BY <1>1, <1>2, <1>3, <1>4, <1>5, <1>6 DEF ConvNext

(* Plain keys hold Go values, dotted ones what JSON has.                   *)
THEOREM ConvTypes == ConvSpec => []ConvTypeOK
<1>1. ConvInit => ConvTypeOK
  BY Made DEF ConvInit, ConvTypeOK, Keys, Results, Nil
<1> QED BY <1>1, ConvTypeStep, PTL DEF ConvSpec

-----------------------------------------------------------------------------
(* getSetNumber: what is parsed from the text of a value means the value.  *)
LEMMA NumberOfText ==
    ASSUME NEW v \in GoValues, NEW s, s = ConvertType("string", v).val,
           NEW out \in {NumberOrZero(s), NumberWithOutEmptyStr(s)}
    PROVE  /\ out.result = "ok" => out.val.type \in {"int", "float64"}
           /\ out.result = "ok" /\ v.type # "int" => Near(Meant(out.val), v)
           /\ v.type = "float64" => out.result = "ok"
<1>1. s \in Texts
  BY ConvertedType DEF Types
<1>2. out.result = "ok" => out.val.type \in {"int", "float64"}
  <2>1. \A t \in Texts : /\ Atoi(t).result = "ok" => Atoi(t).val.type = "int"
                         /\ ParseFloat(t).result = "ok" => ParseFloat(t).val.type = "float64"
    BY DEF Atoi, ParseFloat, Ok, Panicked, IntOf, Float
  <2>2. Text(s.c) \in Texts
    BY <1>1, MadeTexts DEF Texts
  <2>3. LET o == NumberWithOutEmptyStr(s) IN o.result = "ok" => o.val.type \in {"int", "float64"}
    BY <2>1, <2>2 DEF NumberWithOutEmptyStr, Panicked
  <2> QED BY <2>3 DEF NumberOrZero, Ok, IntOf
<1>3. CASE v = Nil
  <2>1. s = Text(Nothing)
    BY <1>3 DEF ConvertType, Zero, Ok
  <2>2. Meant(s) = 0 /\ Meant(v) = 0 /\ v.type = "nil"
    BY <1>3, <2>1 DEF Meant, Text, Nothing, Nil, IsText
  <2>3. s.c.says # "point"
    BY <2>1 DEF Text, Nothing
  <2> QED BY <1>1, <1>2, <1>3, <2>2, <2>3, NumberMeaning DEF Near, Nil
<1>4. CASE v.type = "int"
  BY <1>2, <1>4
<1>5. CASE v # Nil /\ v.type # "int"
  <2>1. s = Strval(v)
    BY <1>5 DEF ConvertType, Ok
  <2>2. CASE v.type = "float64"
    <3>1. Meant(s) = v.h /\ Meant(v) = v.h /\ s.c.says \in {"digits", "point"}
      BY <2>1, <2>2, StrvalMeaning DEF Meant, IsText
    <3>2. out.result = "ok" /\ Near(Meant(out.val), s)
      BY <1>1, <3>1, NumberMeaning
    <3>3. s.c.says = "point" => ~(Magnitude(v.h) > Exact)
      BY <2>1, <2>2, StrvalMeaning
    <3>4. Meant(out.val) = Meant(s)
      BY <3>1, <3>2, <3>3 DEF Near
    <3> QED BY <1>2, <3>1, <3>2, <3>4 DEF Near
  <2>3. CASE v.type = "string"
    <3>1. s = v
      BY <2>1, <2>3 DEF Strval, IsText
    <3> QED BY <1>1, <1>2, <2>3, <3>1, NumberMeaning
  <2>4. CASE v.type = "bool"
    <3>1. s = Text(Truth(v.b))
      BY <2>1, <2>4 DEF Strval, IsText
    <3>2. s.c.says = "truth" /\ s # Text(Nothing) /\ s.c # Nothing /\ Text(s.c).c = s.c
      BY <3>1 DEF Text, Truth, Nothing
    <3>3. out = Atoi(Text(s.c)) /\ Text(s.c) \in Texts
      BY <1>1, <3>2, MadeTexts DEF NumberOrZero, NumberWithOutEmptyStr, Texts
    <3>4. out.result # "ok"
      BY <3>2, <3>3, AtoiMeaning
    <3> QED BY <2>4, <3>4
  <2> QED BY <1>5, <2>2, <2>3, <2>4, GoValueCases
<1> QED BY <1>3, <1>4, <1>5

(* getSetValueInt: the whole part, and whether it is zero.                 *)
LEMMA IntOfValue ==
    ASSUME NEW v \in GoValues, NEW out, out = ConvertType("int", v)
    PROVE  /\ out.result = "ok" => /\ out.val.type = "int" /\ Meant(out.val) \in Int /\ Meant(v) \in Int
                                   /\ Magnitude(Meant(out.val)) <= Magnitude(Meant(v))
                                   /\ Magnitude(Meant(out.val) - Meant(v)) < 2
           /\ v.type = "float64" => out.result = "ok"
           /\ out.result = "ok" /\ IsText(v) /\ out.val.n >= 0
              /\ (out.val.n = 0 => v.c.plain) => ToBool(out.val) = ToBool(v)
<1>1. CASE v = Nil
  <2>1. out = Ok(IntOf(0))
    BY <1>1 DEF ConvertType, Zero
  <2>2. Meant(v) = 0 /\ Meant(IntOf(0)) = 0 /\ v.type = "nil"
    BY <1>1 DEF Meant, Nil, IntOf, IsText
  <2> QED BY <2>1, <2>2 DEF Ok, IntOf, Magnitude, IsText
<1>2. CASE v.type = "int"
  <2>1. v.n \in Int /\ out = Ok(v)
    BY <1>2 DEF GoValues, Nil, ConvertType
  <2>2. Meant(v) = 2 * v.n /\ Meant(v) \in Int
    BY <1>2, <2>1 DEF Meant, IsText
  <2>3. out.val = v
    BY <2>1 DEF Ok
  <2> QED BY <1>2, <2>2, <2>3 DEF Magnitude, IsText
<1>3. CASE v.type = "float64"
  <2>1. v.h \in Int /\ out = Ok(IntOf(Truncated(v.h)))
    BY <1>3 DEF GoValues, Nil, ConvertType
  <2>2. Meant(v) = v.h /\ Meant(IntOf(Truncated(v.h))) = 2 * Truncated(v.h)
    BY <1>3 DEF Meant, IntOf, IsText
  <2>3. out.result = "ok" /\ out.val = IntOf(Truncated(v.h)) /\ out.val.type = "int"
    BY <2>1 DEF Ok, IntOf
  <2> QED BY <1>3, <2>1, <2>2, <2>3, TruncatedIsWhole DEF IsText
<1>4. CASE v.type = "string"
  <2>1. out = Atoi(v)
    BY <1>4 DEF ConvertType, Strval, IsText, Nil
  <2>2. v \in Texts
    BY <1>4, TextsAreValues
  <2>3. out.result = "ok" => v.c.says = "digits" /\ out.val = IntOf(v.c.n) /\ v.c.n \in Int
    BY <2>1, <2>2, AtoiMeaning
  <2>4. out.result = "ok" => Meant(v) = 2 * v.c.n /\ Meant(out.val) = 2 * v.c.n
    BY <1>4, <2>3 DEF Meant, IntOf, IsText
  <2>5. out.result = "ok" /\ out.val.n >= 0 /\ (out.val.n = 0 => v.c.plain)
           => ToBool(out.val) = ToBool(v)
    <3> SUFFICES ASSUME out.result = "ok", out.val.n >= 0, out.val.n = 0 => v.c.plain
                 PROVE  ToBool(out.val) = ToBool(v)
      OBVIOUS
    <3>1. out.val.n = v.c.n /\ out.val.type = "int" /\ v.c.n \in Int
      BY <2>3 DEF IntOf
    <3>2. ToBool(out.val) = (v.c.n > 0)
      BY <3>1 DEF ToBool, IsText
    <3>3. ToBool(v) = (v \notin {Text(Nothing), Text(Truth(FALSE)), Text(Digits(0))})
      BY <1>4 DEF ToBool, IsText
    <3>4. v \in {Text(Nothing), Text(Truth(FALSE)), Text(Digits(0))} <=> v.c.n = 0
      <4>1. v.c.says = "digits" /\ ~v.blanks /\ v.c \in Contents
        BY <2>1, <2>2, AtoiMeaning DEF Texts
      <4>2. v.c.n = 0 => v.c = Digits(0)
        <5>1. v.c.plain \in BOOLEAN /\ v.c = [says |-> "digits", n |-> v.c.n, plain |-> v.c.plain]
          BY <4>1 DEF Contents, Nothing, Word
        <5> QED BY <3>1, <5>1 DEF Digits
      <4>3. v = Text(v.c)
        BY <2>2, <4>1 DEF Texts, Text
      <4>4. /\ Text(Nothing).c.says = "nothing" /\ Text(Truth(FALSE)).c.says = "truth"
            /\ Text(Digits(0)).c.n = 0
        BY DEF Text, Nothing, Truth, Digits
      <4>5. v.c.n = 0 => v = Text(Digits(0))
        BY <4>2, <4>3
      <4>6. v # Text(Nothing) /\ v # Text(Truth(FALSE))
        BY <4>1, <4>4
      <4>7. v = Text(Digits(0)) => v.c.n = 0
        BY <4>4
      <4> QED BY <4>5, <4>6, <4>7
    <3>5. CASE v.c.n = 0
      <4>1. (v.c.n > 0) = FALSE
        BY <3>5
      <4>2. ToBool(out.val) = FALSE
        BY <3>2, <4>1
      <4>3. ToBool(v) = FALSE
        BY <3>3, <3>4, <3>5
      <4> QED BY <4>2, <4>3
    <3>6. CASE v.c.n # 0
      <4>1. v.c.n > 0
        BY <3>1, <3>6
      <4>2. ToBool(out.val) = TRUE
        BY <3>2, <4>1
      <4>3. ToBool(v) = TRUE
        BY <3>3, <3>4, <3>6
      <4> QED BY <4>2, <4>3
    <3> QED BY <3>5, <3>6
  <2>6. out.val.type = "int" \/ out.result # "ok"
    BY <2>3 DEF IntOf
  <2> QED BY <1>4, <2>3, <2>4, <2>5, <2>6 DEF Magnitude
<1>5. CASE v.type = "bool"
  <2>1. out = Atoi(Text(Truth(v.b)))
    BY <1>5 DEF ConvertType, Strval, IsText, Nil
  <2>2. out.result # "ok"
    BY <2>1 DEF Atoi, Text, Truth, Panicked
  <2> QED BY <1>5, <2>2
<1> QED BY <1>1, <1>2, <1>3, <1>4, <1>5, GoValueCases

(* What getSetNumber and getSetValueInt store means what they read.        *)
THEOREM MeaningKeptHolds == ConvSpec => MeaningKept
<1> DEFINE Kept == NumberKept /\ WholePartKept /\ StaysNumber /\ TruthKept
<1>1. ConvTypeOK /\ [ConvNext]_convVars => [Kept]_convVars
  <2> SUFFICES ASSUME ConvTypeOK, ConvNext PROVE Kept
    OBVIOUS
  <2>1. ASSUME NEW to \in Keys, NEW from \in Keys,
               GetSetValueNumber(to, from) \/ GetSetValueNumberWithOutEmptyStr(to, from)
        PROVE  Kept
    <3> DEFINE v == Read(from)
               s == ConvertType("string", v).val
    <3>1. PICK out \in {NumberOrZero(s), NumberWithOutEmptyStr(s)} : Finish("getSetNumber", to, v, out)
      BY <2>1 DEF GetSetValueNumber, GetSetValueNumberWithOutEmptyStr
    <3>2. /\ latest'.op = "getSetNumber" /\ latest'.to = to /\ latest'.result = out.result
          /\ latest'.old = v /\ latest'.new = out.val
          /\ out.result = "ok" => store'[to] = Stored(to, out.val)
      BY <3>1 DEF Finish, ConvTypeOK
    <3>3. v \in GoValues /\ s \in Texts
      BY ReadType, ConvertedType DEF Types
    <3> HIDE DEF v
    <3>4. /\ out.result = "ok" => out.val.type \in {"int", "float64"}
          /\ out.result = "ok" /\ v.type # "int" => Near(Meant(out.val), v)
          /\ v.type = "float64" => out.result = "ok"
      BY <3>3, NumberOfText
    <3>5. out.val \in GoValues
      BY <3>3, NumberMeaning
    <3>6. out.result = "ok" => Meant(store'[to]) = Meant(out.val)
      BY <3>2, <3>4, <3>5, StoredMeaning
    <3>7. NumberKept
      BY <3>2, <3>4, <3>6 DEF NumberKept, Near
    <3> QED BY <3>2, <3>4, <3>7 DEF WholePartKept, StaysNumber, TruthKept
  <2>2. ASSUME NEW to \in Keys, NEW from \in Keys, GetSetValueInt(to, from)
        PROVE  Kept
    <3> DEFINE v == Read(from)
               out == ConvertType("int", v)
    <3>1. /\ latest'.op = "getSetInt" /\ latest'.to = to /\ latest'.result = out.result
          /\ latest'.old = v /\ latest'.new = out.val
          /\ out.result = "ok" => store'[to] = Stored(to, out.val)
      BY <2>2 DEF GetSetValueInt, Finish, ConvTypeOK
    <3>2. v \in GoValues /\ out.val \in GoValues
      BY ReadType, ConvertedType DEF Types
    <3> HIDE DEF v
    <3>3. /\ out.result = "ok" => /\ out.val.type = "int" /\ Meant(out.val) \in Int /\ Meant(v) \in Int
                                  /\ Magnitude(Meant(out.val)) <= Magnitude(Meant(v))
                                  /\ Magnitude(Meant(out.val) - Meant(v)) < 2
          /\ v.type = "float64" => out.result = "ok"
          /\ out.result = "ok" /\ IsText(v) /\ out.val.n >= 0
             /\ (out.val.n = 0 => v.c.plain) => ToBool(out.val) = ToBool(v)
      BY <3>2, IntOfValue
    <3> HIDE DEF out
    <3>4. out.result = "ok" => Meant(store'[to]) = Meant(out.val)
      BY <3>1, <3>2, <3>3, StoredMeaning
    <3>5. out.result = "ok" /\ to \in Plain => store'[to] = out.val
      BY <3>1 DEF Stored
    <3> QED BY <3>1, <3>3, <3>4, <3>5 DEF NumberKept, WholePartKept, StaysNumber, TruthKept
  <2>3. ASSUME latest'.op \notin {"getSetNumber", "getSetInt"}
        PROVE  Kept
    BY <2>3 DEF NumberKept, WholePartKept, StaysNumber, TruthKept
  <2>4. ASSUME NEW k \in Keys, NEW v \in Inputs, SetValue(k, v) PROVE Kept
    BY <2>3, <2>4 DEF SetValue, Finish
  <2>5. ASSUME NEW to \in Keys, NEW from \in Keys, GetSetValue(to, from) PROVE Kept
    BY <2>3, <2>5 DEF GetSetValue, Finish
  <2>6. ASSUME NEW type \in Types, NEW from \in Keys, GetValue(type, from) PROVE Kept
    BY <2>3, <2>6 DEF GetValue
  <2> HIDE DEF Kept
  <2> QED BY <2>1, <2>2, <2>4, <2>5, <2>6 DEF ConvNext
<1> QED BY <1>1, ConvTypes, PTL DEF ConvSpec, MeaningKept
=============================================================================
