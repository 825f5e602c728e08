--------------------------- MODULE TripleBarrier ---------------------------
(***************************************************************************)
(* TripleBarrierLabeler: an open intent is resolved by the first closed    *)
(* bar that reaches its stop (label -1, which wins over the target), its   *)
(* target (+1), or the number of bars it may be held (0).  A new intent    *)
(* takes the slot of the oldest when none is free.  Exit prices, profit    *)
(* and excursions are only recorded by the code and left out.              *)
(***************************************************************************)
EXTENDS DollarBars, Sequences

CONSTANTS
  MaxOpen,      \* max_open, 64 in the code
  Tp, Sl,       \* tp_bps and sl_bps of the intents
  MaxBars       \* max_bars of the intents

ASSUME LabelerAssumption == MaxOpen \in Nat \ {0} /\ Tp \in Nat /\ Sl \in Nat /\ MaxBars \in Nat

Free == [id |-> -1]
NewLabeler == [slots |-> [i \in 1..MaxOpen |-> Free], next |-> 0]
OpenSlots(l) == {i \in 1..MaxOpen : l.slots[i] # Free}
Least(S) == CHOOSE i \in S : \A j \in S : i <= j

Target(entry, side) == (entry * (10000 + side * Tp)) \div 10000
Stop(entry, side) == (entry * (10000 - side * Sl)) \div 10000

(* _evict_oldest: the lowest entry bar, the first slot among equals.       *)
OldestSlot(l) ==
  Least({i \in OpenSlots(l) : \A j \in OpenSlots(l) : l.slots[i].entryBar <= l.slots[j].entryBar})

Full(l) == OpenSlots(l) = 1..MaxOpen
SlotFor(l) == IF Full(l) THEN OldestSlot(l) ELSE Least(1..MaxOpen \ OpenSlots(l))

(* register_intent with an entry at this price, when e has closed its bars *)
Registered(l, e, entry, side) ==
  [slots |-> [l.slots EXCEPT ![SlotFor(l)] =
     [id |-> l.next, side |-> side, entry |-> entry, entryBar |-> e.count]],
   next |-> l.next + 1]

HitsTarget(s, row) ==
  IF s.side > 0 THEN row.high >= Target(s.entry, 1) ELSE row.low <= Target(s.entry, -1)
HitsStop(s, row) ==
  IF s.side > 0 THEN row.low <= Stop(s.entry, 1) ELSE row.high >= Stop(s.entry, -1)
HeldLongEnough(s, bar) == bar - s.entryBar >= MaxBars

(* Mutant: the target wins. *)
LabelOptimistic(s, row) ==
  IF HitsTarget(s, row) THEN 1 ELSE IF HitsStop(s, row) THEN -1 ELSE 0
Label(s, row) ==
  IF HitsStop(s, row) THEN -1 ELSE IF HitsTarget(s, row) THEN 1 ELSE 0

(* The k-th of a set of slots. *)
NthSlot(S, k) == CHOOSE i \in S : Cardinality({j \in S : j < i}) = k - 1

(* _scan_barriers: labels in the order of the slots, then these are free.  *)
Resolves(s, row, bar) == HitsStop(s, row) \/ HitsTarget(s, row) \/ HeldLongEnough(s, bar)
Scanned(l, row, bar) ==
  LET hit == {i \in OpenSlots(l) : Resolves(l.slots[i], row, bar)}
  IN [slots |-> [i \in 1..MaxOpen |-> IF i \in hit THEN Free ELSE l.slots[i]],
      labels |-> [k \in 1..Cardinality(hit) |->
                   LET s == l.slots[NthSlot(hit, k)]
                   IN [intent |-> s, bar |-> bar, label |-> Label(s, row)]]]

(* One bar of on_bars_closed, if the ring still has it, after those before. *)
AfterBar(acc, e, bar) ==
  LET scan == Scanned(acc.l, BarRow(e, bar), bar)
  IN IF bar \notin Available(e) THEN acc
     ELSE [l |-> [acc.l EXCEPT !.slots = scan.slots], labels |-> acc.labels \o scan.labels]

(* on_bars_closed, for n bars from the first one on. *)
AfterBars(l, e, first, n) ==
  LET after[k \in 0..n] ==
        IF k = 0 THEN [l |-> l, labels |-> <<>>] ELSE AfterBar(after[k - 1], e, first + k - 1)
  IN after[n]
=============================================================================
