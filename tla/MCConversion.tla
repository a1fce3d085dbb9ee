---------------------------- MODULE MCConversion ----------------------------
(* A value of every type: 12 and 53 are the codes of a blank and of a      *)
(* digit; 67, 32.5 and 65.5 are no float64 of this instance; -3 halves are *)
(* -1.5, and a zero and a truth value are written in two ways.             *)
EXTENDS Conversion

TheInputs == {Nil, IntOf(0), IntOf(12), IntOf(53), IntOf(67), Float(-3), Float(2), Bool(TRUE),
              Text(Nothing), Padded(Nothing), Text(Word), Padded(Digits(7)), Text(Truth(FALSE)),
              Text(Otherwise(Truth(FALSE)))}
             \cup {Text(Digits(n)) : n \in {-2, 0, 1, 67}} \cup {Text(Otherwise(Digits(0)))}
             \cup {Text(Point(h)) : h \in {0, 5, 65, 131}}
=============================================================================
