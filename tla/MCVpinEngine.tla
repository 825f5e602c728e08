---------------------------- MODULE MCVpinEngine ----------------------------
EXTENDS VpinEngine

Volumes == {<<3, 0>>, <<0, 2>>, <<1, 1>>}

(* Bars of three imbalances at two prices.  The unit is 2, so a bar of 3   *)
(* overshoots it and a window of them saturates the VPIN.                  *)
MCBars == {[buy |-> v[1], sell |-> v[2], close |-> p] : v \in Volumes, p \in {1, 2}}
=============================================================================
