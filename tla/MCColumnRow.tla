---------------------------- MODULE MCColumnRow ----------------------------
(* Two names, two rows, a value and null: ragged and empty columns, rows   *)
(* that lack names.                                                        *)
EXTENDS ColumnRow
=============================================================================
