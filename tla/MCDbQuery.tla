------------------------------ MODULE MCDbQuery ------------------------------
(* Two goroutines; a query, an update and a select behind a comment;       *)
(* replies of no row, one value, NULL, two rows, and two result sets.      *)
EXTENDS DbQuery

CONSTANTS price, stock, yes, null

One == [c \in {price} |-> yes]
Nul == [c \in {price} |-> null]
Two == [c \in {price, stock} |-> yes]

TheReplies == {<<<<>>>>, <<<<One>>>>, <<<<Nul>>>>, <<<<Two, Nul>>>>, <<<<One>>, <<>>, <<Two>>>>}

TheStatements == {<<"select">>,
                  <<"update">>,
                  <<"select", "comment", "select">>, <<"comment", "select">>}
=============================================================================
