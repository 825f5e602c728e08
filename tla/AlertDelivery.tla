---------------------------- MODULE AlertDelivery ----------------------------
(***************************************************************************)
(* What the outbox promises the operator, without its table, its workers   *)
(* or its faults: an alert is accepted once, may then be shown any number  *)
(* of times, and is settled only after it was shown at least once; nothing *)
(* is shown before it is accepted or after it is settled.                  *)
(***************************************************************************)
EXTENDS Naturals

CONSTANT Alerts

VARIABLES stage,   \* what the system owes the operator for each alert
          shown    \* how many copies reached the operator's chat

vars == <<stage, shown>>

Stages == {"new", "owed", "settled", "refused"}

Init == /\ stage = [a \in Alerts |-> "new"]
        /\ shown = [a \in Alerts |-> 0]

Accept(a) == /\ stage[a] = "new"
             /\ stage' = [stage EXCEPT ![a] = "owed"]
             /\ UNCHANGED shown

Refuse(a) == /\ stage[a] = "new"
             /\ stage' = [stage EXCEPT ![a] = "refused"]
             /\ UNCHANGED shown

Show(a) == /\ stage[a] = "owed"
           /\ shown' = [shown EXCEPT ![a] = @ + 1]
           /\ UNCHANGED stage

Settle(a) == /\ stage[a] = "owed"
             /\ shown[a] > 0
             /\ stage' = [stage EXCEPT ![a] = "settled"]
             /\ UNCHANGED shown

Next == \E a \in Alerts : Accept(a) \/ Refuse(a) \/ Show(a) \/ Settle(a)

Spec == Init /\ [][Next]_vars
=============================================================================
