----------------------------- MODULE MCL2Resync -----------------------------
EXTENDS CrossAssetSnapshot

CONSTANTS c1, c2, s1, s2, top

(* Two shards of one symbol each. *)
MCShardOf == s1 :> c1 @@ s2 :> c2

(* One symbol is traded, two deltas that overflow a ring of one; the      *)
(* other's shard loses its connection.                                     *)
MCMaxUpdates == s1 :> 3 @@ s2 :> 1

(* Two outages and a REST failure of the symbol that is traded.            *)
MCMaxDrops == c1 :> 2 @@ c2 :> 1
MCMaxFailures == s1 :> 1 @@ s2 :> 0

(* An update of the best level, which the next removes. *)
MCLevel == 2 :> top @@ 3 :> top
=============================================================================
