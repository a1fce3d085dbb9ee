------------------------------ MODULE ColumnRow ------------------------------
(***************************************************************************)
(* Turning a table around: Column2Row and Row2Column, and the template     *)
(* functions getSetColumn2Row and getSetRow2Column that do it to a place   *)
(* of the volume (a dotted key, see Volume).  The place holds a table as a *)
(* structure or as its JSON text; a table is given by columns (name to     *)
(* list) or by rows (list of objects).                                     *)
(***************************************************************************)
EXTENDS Naturals, Sequences

CONSTANTS Names,  \* names of columns
          Vals,   \* values in the tables
          Null,   \* the JSON null among them
          MaxRows \* bound: rows of the tables that are set

ASSUME NullAssumption == Null \in Vals
ASSUME MaxRowsAssumption == MaxRows \in Nat

VARIABLES place, \* what the volume holds there
          last,  \* history: the latest call, what it found and whether it succeeded
          prev   \* history: the call before, since the place was last set

tableVars == <<place, last, prev>>

Columns(c) == [shape |-> "columns", c |-> c]
Rows(r)    == [shape |-> "rows", r |-> r]
NullTable  == [shape |-> "null"]
OtherJson  == [shape |-> "other"]
Panic      == [shape |-> "panic"]

RowMaps == UNION {[S -> Vals] : S \in SUBSET Names}

ShortSeqs(S) == UNION {[1..n -> S] : n \in 0..MaxRows}
Tables == {Columns(c) : c \in UNION {[S -> ShortSeqs(Vals)] : S \in SUBSET Names}}
            \cup {Rows(r) : r \in ShortSeqs(RowMaps)} \cup {NullTable, OtherJson}

Unset == [form |-> "unset", table |-> NullTable]
Forms == {"text", "structure"}

IsTable(t) ==
    \/ t.shape = "columns" /\ t = Columns(t.c)
       /\ t.c = [k \in DOMAIN t.c |-> t.c[k]] /\ DOMAIN t.c \subseteq Names
       /\ \A k \in DOMAIN t.c : t.c[k] \in Seq(Vals)
    \/ t.shape = "rows" /\ t = Rows(t.r) /\ t.r \in Seq(RowMaps)
    \/ t \in {NullTable, OtherJson}

IsPlace(v) == /\ v = [form |-> v.form, table |-> v.table]
              /\ v.form \in Forms \cup {"unset"} /\ IsTable(v.table)
IsCall(l)  == /\ l.op \in {"none", "set", "column2Row", "row2Column"}
              /\ l.ok \in BOOLEAN /\ IsPlace(l.from)

TableTypeOK == IsPlace(place) /\ IsCall(last) /\ IsCall(prev)

NoCall == [op |-> "none", from |-> Unset, ok |-> TRUE]

TableInit == place = Unset /\ last = NoCall /\ prev = NoCall

-----------------------------------------------------------------------------
(* Column2Row sizes the rows by the column it meets first, and Go meets    *)
(* the keys of a map in any order.                                         *)
RowsOf(c, first) ==
    [i \in 1..Len(c[first]) |-> [k \in {n \in DOMAIN c : i <= Len(c[n])} |-> c[k][i]]]

(* Mutant: off by one.                                                     *)
OutOfRangeOff(c, first) == \E k \in DOMAIN c : Len(c[k]) >= Len(c[first]) /\ k # first

OutOfRange(c, first) == \E k \in DOMAIN c : Len(c[k]) > Len(c[first])

(* What Column2Row may return.                                             *)
Column2Row(t) ==
    CASE t = NullTable -> {NullTable}
      [] t.shape = "columns" /\ DOMAIN t.c = {} -> {NullTable}
      [] t.shape = "columns" /\ DOMAIN t.c # {} ->
            {IF OutOfRange(t.c, first) THEN Panic ELSE Rows(RowsOf(t.c, first)) : first \in DOMAIN t.c}
      [] OTHER -> {Panic}

ColumnNames(r) == UNION {DOMAIN r[i] : i \in DOMAIN r}

(* Mutant: values are appended, a row without the name leaves no gap.      *)
ColumnsOfAppended(r) ==
    [k \in ColumnNames(r) |->
        LET having == SelectSeq(r, LAMBDA row : k \in DOMAIN row)
        IN  [i \in DOMAIN having |-> having[i][k]]]

(* The columns of rows; a row without the name leaves null.                *)
ColumnsOf(r) ==
    [k \in ColumnNames(r) |->
        [i \in DOMAIN r |-> IF k \in DOMAIN r[i] THEN r[i][k] ELSE Null]]

Row2Column(t) == CASE t = NullTable -> Columns(ColumnsOf(<<>>))
                   [] t.shape = "rows" -> Columns(ColumnsOf(t.r))
                   [] OTHER -> Panic

-----------------------------------------------------------------------------
(* Nil is all that is read where nothing is, and of a null.                *)
IsNil(v) == v.form = "unset" \/ v = [form |-> "structure", table |-> NullTable]

(* The call finds nil and leaves it.                                       *)
Skip(op) == /\ IsNil(place)
            /\ last' = [op |-> op, from |-> place, ok |-> TRUE]
            /\ prev' = last
            /\ UNCHANGED place

(* Mutant: what is there after a failure is set all the same.              *)
TurnAlways(op, out) ==
    /\ ~IsNil(place)
    /\ last' = [op |-> op, from |-> place, ok |-> out # Panic]
    /\ prev' = last
    /\ place' = [form |-> place.form, table |-> out]

(* The call puts out where it found a table, unless it panics.             *)
Turn(op, out) ==
    /\ ~IsNil(place)
    /\ last' = [op |-> op, from |-> place, ok |-> out # Panic]
    /\ prev' = last
    /\ place' = IF out = Panic THEN place ELSE [form |-> place.form, table |-> out]

(* A place that another template sets begins a new history.                *)
SetTable(form, t) == /\ place' = [form |-> form, table |-> t]
                     /\ last' = [NoCall EXCEPT !.op = "set"]
                     /\ prev' = NoCall

GetSetColumn2Row == \/ Skip("column2Row")
                    \/ \E out \in Column2Row(place.table) : Turn("column2Row", out)

(* The structure is read back from the text into a list of objects, which  *)
(* columns are not.                                                        *)
GetSetRow2Column ==
    \/ Skip("row2Column")
    \/ Turn("row2Column", IF place.form = "structure" THEN Panic ELSE Row2Column(place.table))

TableNext == \/ \E form \in Forms, t \in Tables : SetTable(form, t)
             \/ GetSetColumn2Row
             \/ GetSetRow2Column

TableSpec == TableInit /\ [][TableNext]_tableVars

-----------------------------------------------------------------------------
Cell(t, i, k) ==
    CASE t.shape = "columns" /\ k \in DOMAIN t.c /\ i \in DOMAIN t.c[k] -> t.c[k][i]
      [] t.shape = "rows" /\ i \in DOMAIN t.r /\ k \in DOMAIN t.r[i] -> t.r[i][k]
      [] OTHER -> Null

Positions(t) == CASE t.shape = "columns" -> UNION {DOMAIN t.c[k] : k \in DOMAIN t.c}
                  [] t.shape = "rows" -> DOMAIN t.r
                  [] OTHER -> {}

(* Turning a table around moves no value and loses none: ragged columns    *)
(* either panic or lose nothing, in whatever order the map is walked, and  *)
(* rows that lack a name get a null.                                       *)
CellsKept ==
    [][last'.op \in {"column2Row", "row2Column"} /\ last'.ok =>
          \A i \in Positions(place.table) \cup Positions(place'.table), k \in Names :
             Cell(place'.table, i, k) = Cell(place.table, i, k)]_tableVars

Rectangular(t) == /\ t.shape = "columns"
                  /\ \A k, l \in DOMAIN t.c : Len(t.c[k]) = Len(t.c[l])

(* Columns of one length can always be turned, in whatever order.          *)
RectangularTurns ==
    last.op = "column2Row" /\ ~last.ok => ~Rectangular(last.from.table)

(* A text of columns of one length, with at least one row, comes back the  *)
(* same when it is turned to rows and back.                                *)
ThereAndBack ==
    /\ prev.op = "column2Row" /\ last.op = "row2Column"
    /\ prev.from.form = "text"
    /\ Rectangular(prev.from.table) /\ Positions(prev.from.table) # {}
    => last.ok /\ place = prev.from
=============================================================================
