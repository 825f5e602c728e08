--------------------------- MODULE MCTrainingSet ---------------------------
(* Small trades at the stop, the entry and the target of an intent, and    *)
(* one that closes two or three bars, and one worth less than a unit.      *)
EXTENDS TrainingSet

TapeTrades == {<<5, 1>>, <<90, 1>>, <<100, 1>>, <<110, 1>>, <<100, 5>>}
=============================================================================
