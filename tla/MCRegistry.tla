----------------------------- MODULE MCRegistry -----------------------------
(* d/a.tpl, d/b.tpl and d/d/a.tpl, each of which may define both a and   *)
(* b, be empty, or not parse; they are asked for by d, ./d, d/d and a dot. *)
EXTENDS Registry, TLC

TheFiles == <<[dirs |-> <<"d">>, base |-> "a"], [dirs |-> <<"d">>, base |-> "b"],
              [dirs |-> <<"d", "d">>, base |-> "a"]>>

TheRoots == {[dot |-> TRUE, dirs |-> <<>>], [dot |-> FALSE, dirs |-> <<"d">>],
             [dot |-> TRUE, dirs |-> <<"d">>], [dot |-> FALSE, dirs |-> <<"d", "d">>]}

NoDefs == [n \in {} |-> Empty]

TheContents == {[main |-> "text", defs |-> NoDefs, bad |-> FALSE],
                [main |-> Empty, defs |-> "b" :> "more", bad |-> FALSE],
                [main |-> "other", defs |-> "b" :> Empty, bad |-> FALSE],
                [main |-> Empty, defs |-> "a" :> "more", bad |-> FALSE],
                [main |-> "text", defs |-> "a" :> "more", bad |-> FALSE],
                [main |-> "text", defs |-> NoDefs, bad |-> TRUE]}
=============================================================================
