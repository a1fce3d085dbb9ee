---------------------------- MODULE MCCurlRequest ----------------------------
(* A POST that leaves its time to the configuration; a GET that asks for   *)
(* less or more time than any; one that asks for more than a Duration can  *)
(* hold, and has a key; and requests that go nowhere.                      *)
EXTENDS CurlRequest

Raw == [blank |-> FALSE, target |-> "url", method |-> "POST", body |-> 1,
        declared |-> NoLength, keyed |-> FALSE, asks |-> 0]

MCRaws == {Raw,
           [Raw EXCEPT !.method = "GET", !.asks = 1],
           [Raw EXCEPT !.asks = 5, !.keyed = TRUE],
           [Raw EXCEPT !.target = "path"],
           [Raw EXCEPT !.declared = 2]}
=============================================================================
