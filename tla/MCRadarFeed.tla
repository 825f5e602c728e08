----------------------------- MODULE MCRadarFeed -----------------------------
EXTENDS RadarFeed, TLC

CONSTANTS c1, c2, s1, s2

(* Two connections of one symbol each. *)
MCConnOf == s1 :> c1 @@ s2 :> c2

(* Enough trades of one symbol for a bar, a gap and another bar.  The      *)
(* other connection only comes and goes, and resets the shared engine.     *)
MCMaxTrades == s1 :> 3 @@ s2 :> 0
=============================================================================
