-------------------------- MODULE SchrodingerLedger --------------------------
(***************************************************************************)
(* The conservative position tracker: a confirmed position per symbol and  *)
(* the orders in purgatory, dispatched but not yet settled.  Every price   *)
(* is 1, so an exposure is a quantity; the audit trail, the generation and *)
(* the attempt counter of an order are left out: nothing reads them.       *)
(***************************************************************************)
EXTENDS Integers, FiniteSetsExt

CONSTANTS Orders, Symbols, SymbolOf, SideOf, QtyOf, MaxExposure

ASSUME LedgerAssumption ==
  /\ IsFiniteSet(Orders)
  /\ SymbolOf \in [Orders -> Symbols] /\ SideOf \in [Orders -> {"BUY", "SELL"}]
  /\ QtyOf \in [Orders -> Nat \ {0}] /\ MaxExposure \in Nat

LedgerType == [confirmed: [Symbols -> Nat], purgatory: SUBSET Orders]

EmptyLedger == [confirmed |-> [s \in Symbols |-> 0], purgatory |-> {}]

TotalQty(os) == MapThenSumSet(LAMBDA o : QtyOf[o], os)

InPurgatory(l, s) == {o \in l.purgatory : SymbolOf[o] = s}

(* record_dispatch: before the request leaves.                             *)
Dispatched(l, o) == [l EXCEPT !.purgatory = @ \cup {o}]

Removed(l, o) == [l EXCEPT !.purgatory = @ \ {o}]

(* Mutant: the latest fill replaces the position. *)
MergedOver(l, o, qty) ==
  [l EXCEPT !.confirmed[SymbolOf[o]] = IF SideOf[o] = "BUY" THEN qty ELSE 0]

(* _merge_confirmed: a BUY adds; a SELL reduces, to zero at most.          *)
Merged(l, o, qty) ==
  [l EXCEPT !.confirmed[SymbolOf[o]] =
     IF SideOf[o] = "BUY" THEN @ + qty ELSE Max({0, @ - qty})]

(* Mutant: an order settled already is filled again. *)
FilledAgain(l, o, qty) == Merged(Removed(l, o), o, qty)

(* confirm_fill: the first fill settles the whole order; one of an order   *)
(* not in purgatory changes nothing.                                       *)
Filled(l, o, qty) == IF o \in l.purgatory THEN Merged(Removed(l, o), o, qty) ELSE l

(* reconcile_order: what the exchange's status says of an order.           *)
Reconciled(l, o, status, qty) ==
  IF o \notin l.purgatory THEN l
  ELSE CASE status \in {"Filled", "PartiallyFilled"} -> Merged(Removed(l, o), o, qty)
         [] status \in {"Cancelled", "Rejected"} -> Removed(l, o)
         [] OTHER -> l

(* get_shadow_position: everything in purgatory counts as filled.          *)
Shadow(l, s) == l.confirmed[s] + TotalQty(InPurgatory(l, s))

(* What arbitration makes of an order it attributes qty to.                *)
Credited(l, o, qty) == IF qty > 0 THEN Filled(l, o, qty) ELSE Removed(l, o)

(* is_strike_allowed: nothing of this symbol in purgatory, and the total   *)
(* exposure, over all symbols, below the limit.                            *)
StrikeAllowed(l, s) ==
  /\ InPurgatory(l, s) = {}
  /\ MapThenSumSet(LAMBDA t : l.confirmed[t], Symbols) + TotalQty(l.purgatory) < MaxExposure
=============================================================================
