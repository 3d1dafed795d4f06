------------------------------ MODULE MCTxPath ------------------------------
(* Small instances of TxPath for TLC. *)
EXTENDS TxPath

CONSTANTS f1, f2, f3, l1, l2, l3, c1, c2

ThreeFrames == {f1, f2, f3}
ThreeNbls   == {l1, l2, l3}
TwoNbls     == {l1, l2}
TwoCalls    == {c1, c2}
OneByOne  == (l1 :> <<f1>>) @@ (l2 :> <<f2>>) @@ (l3 :> <<f3>>)
TwoInOne  == (l1 :> <<f1, f2>>) @@ (l2 :> <<f3>>)
TwoThenOne == (c1 :> <<l1, l2>>) @@ (c2 :> <<l3>>)
OneEach    == (c1 :> <<l1>>) @@ (c2 :> <<l2>>)
NoStops == {}
NoNbls == {}
OnlyL2 == {l2}
Drained == {"drained"}
Resets  == {"reset"}
AllStops == StopKinds
=============================================================================
