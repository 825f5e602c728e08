--------------------------- MODULE MCOperatorGate ---------------------------
EXTENDS OperatorGate

(* A quiet heartbeat, one that elevates, one that locks, and one that      *)
(* brings a good decision.                                                 *)
MCBeats ==
  {[reaction |-> NoSample, clicks |-> 0, bad |-> 0, good |-> 1],
   [reaction |-> NoSample, clicks |-> 1, bad |-> 2, good |-> 0],
   [reaction |-> 2, clicks |-> 1, bad |-> 2, good |-> 0]}
=============================================================================
