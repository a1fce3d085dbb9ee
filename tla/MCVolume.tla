------------------------------ MODULE MCVolume ------------------------------
(* Three calls on one root with a name, two indexes and # below it.        *)
EXTENDS Volume

CONSTANT a

ThePaths == {<<>>, <<a>>, <<1>>, <<Each>>, <<a, a>>, <<a, 1>>,
             <<0, a>>, <<1, a>>, <<Each, a>>}

OneTree == Obj(a :> Num(1))

TheInputs == {Nil, Num(1), Text("x"), OneTree, Json(Obj(a :> Num(2))),
              Arr(<<Num(1), Num(2)>>), Json(Json(Arr(<<Num(1), OneTree>>)))}
=============================================================================
