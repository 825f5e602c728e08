------------------------- MODULE ReconnectReconciler -------------------------
(***************************************************************************)
(* Orders through a network partition: the ledger hears of their fate over *)
(* the WebSocket, by REST after a reconnect, or by comparing positions.    *)
(* Each REST call is two steps, the exchange's answer and its arrival, and *)
(* everything else may happen in between.  The exchange and the network    *)
(* are external; reconcile runs as one task, as its module says.           *)
(***************************************************************************)
EXTENDS SchrodingerLedger, Sequences

CONSTANTS
  MaxRetries,   \* attempts of one order query, 10 in the code
  MaxDrops      \* bound: connection losses

ASSUME ReconcilerAssumption == MaxRetries \in Nat \ {0} /\ MaxDrops \in Nat

VARIABLES
  ledger,
  place,      \* where an order is: new, on the wire, working or done at the exchange, lost
  exec,       \* executed quantity
  status,     \* the exchange's orderStatus
  news,       \* order events on the WebSocket
  connected, due, drops,   \* the connection, and whether a reconnect still has to be reconciled
  rec,        \* the reconciliation under way
  early,      \* history: orders settled below what they executed, or still may
  short       \* history: symbols whose position was asked for while it was short

exchangeVars == <<place, exec, status>>
connVars == <<connected, due, drops>>
history == <<early, short>>
vars == <<ledger, exchangeVars, news, connVars, rec, history>>

Idle == [phase |-> "idle", todo |-> {}, tries |-> 0, remaining |-> {}, symbols |-> {},
         asked |-> "none", answer |-> <<>>, failed |-> {}]

Init ==
  /\ ledger = EmptyLedger
  /\ place = [o \in Orders |-> "new"] /\ exec = [o \in Orders |-> 0]
  /\ status = [o \in Orders |-> "New"]
  /\ news = <<>> /\ connected = TRUE /\ due = FALSE /\ drops = 0
  /\ rec = Idle
  /\ early = {}
  /\ short = {}

-----------------------------------------------------------------------------
(* The exchange: an order arrives or is lost, executes in parts, and ends. *)

(* What the WebSocket carries while it is up.                              *)
Report(o, kind, qty) ==
  news' = IF connected THEN Append(news, [order |-> o, kind |-> kind, qty |-> qty]) ELSE news

Arrive(o) ==
  /\ place[o] = "wire"
  /\ \E p \in {"working", "lost"} : place' = [place EXCEPT ![o] = p]
  /\ UNCHANGED <<ledger, exec, status, news, connVars, rec, history>>

Execute(o) ==
  /\ place[o] = "working"
  /\ \E qty \in 1 .. QtyOf[o] - exec[o] :
       LET whole == exec[o] + qty = QtyOf[o]
       IN /\ exec' = [exec EXCEPT ![o] = @ + qty]
          /\ status' = [status EXCEPT ![o] = IF whole THEN "Filled" ELSE "PartiallyFilled"]
          /\ place' = IF whole THEN [place EXCEPT ![o] = "done"] ELSE place
          /\ Report(o, "fill", qty)
  /\ UNCHANGED <<ledger, connVars, rec, history>>

(* A rejection, or the remainder of an immediate-or-cancel order.          *)
Kill(o) ==
  /\ place[o] = "working"
  /\ place' = [place EXCEPT ![o] = "done"]
  /\ \E s \in {"Cancelled"} \cup (IF exec[o] = 0 THEN {"Rejected"} ELSE {}) :
       status' = [status EXCEPT ![o] = s]
  /\ Report(o, "end", 0)
  /\ UNCHANGED <<ledger, exec, connVars, rec, history>>

(* What is on its way when the connection drops is lost.                   *)
Drop ==
  /\ connected /\ drops < MaxDrops
  /\ connected' = FALSE /\ drops' = drops + 1 /\ news' = <<>>
  /\ UNCHANGED <<ledger, exchangeVars, due, rec, history>>

Reconnect ==
  /\ ~connected
  /\ connected' = TRUE /\ due' = TRUE
  /\ UNCHANGED <<ledger, exchangeVars, news, drops, rec, history>>

-----------------------------------------------------------------------------
Unfinished(o) == place[o] \in {"wire", "working"}

(* The ledger becomes l: credits[o] was credited for each order settled.   *)
Settle(l, credits) ==
  /\ ledger' = l
  /\ early' = early \cup
       {o \in ledger.purgatory \ l.purgatory : credits[o] < exec[o] \/ Unfinished(o)}

Nothing == [o \in Orders |-> 0]
Only(o, qty) == [Nothing EXCEPT ![o] = qty]

(* A strike: recorded first, then sent.                                    *)
Dispatch(o) ==
  /\ place[o] = "new"
  /\ StrikeAllowed(ledger, SymbolOf[o])
  /\ ledger' = Dispatched(ledger, o)
  /\ place' = [place EXCEPT ![o] = "wire"]
  /\ UNCHANGED <<exec, status, news, connVars, rec, history>>

(* The WebSocket's next event: confirm_fill or confirm_rejection.          *)
Hear ==
  /\ news # <<>>
  /\ news' = Tail(news)
  /\ LET m == Head(news)
     IN IF m.kind = "fill" THEN Settle(Filled(ledger, m.order, m.qty), Only(m.order, m.qty))
        ELSE Settle(Removed(ledger, m.order), Nothing)
  /\ UNCHANGED <<exchangeVars, connVars, rec, short>>

-----------------------------------------------------------------------------
(* With an empty purgatory reconcile returns at once.                      *)
Start ==
  /\ due /\ rec = Idle
  /\ due' = FALSE
  /\ rec' = IF ledger.purgatory = {} THEN Idle
            ELSE [Idle EXCEPT !.phase = "query", !.todo = ledger.purgatory]
  /\ UNCHANGED <<ledger, exchangeVars, news, connected, drops, history>>

Waiting == rec.asked # "none"
Forget(r) == [r EXCEPT !.asked = "none", !.answer = <<>>]

(* After the last query: the orders still in purgatory of ledger l, those  *)
(* dispatched meanwhile included, are arbitrated by position.              *)
NextQuery(r, l) ==
  IF r.todo # {} THEN r
  ELSE IF l.purgatory = {} THEN [r EXCEPT !.phase = "publish"]
  ELSE [r EXCEPT !.phase = "arbitrate", !.remaining = l.purgatory,
                 !.symbols = {SymbolOf[o] : o \in l.purgatory}]

(* The exchange answers get_order_history; an order it never saw is not in *)
(* the list.                                                               *)
ServeOrder(o) ==
  /\ rec.phase = "query" /\ ~Waiting /\ o \in rec.todo
  /\ rec' = [rec EXCEPT !.asked = o,
               !.answer = IF place[o] \in {"working", "done"} THEN <<status[o], exec[o]>> ELSE <<>>]
  /\ UNCHANGED <<ledger, exchangeVars, news, connVars, history>>

(* An order not found is rolled back; the others are reconciled by status. *)
Answer ==
  /\ rec.phase = "query" /\ Waiting
  /\ LET o == rec.asked
         l == IF rec.answer = <<>> THEN Removed(ledger, o)
              ELSE Reconciled(ledger, o, rec.answer[1], rec.answer[2])
     IN /\ Settle(l, IF rec.answer # <<>> /\ rec.answer[1] \in {"Filled", "PartiallyFilled"}
                     THEN Only(o, rec.answer[2]) ELSE Nothing)
        /\ rec' = NextQuery([Forget(rec) EXCEPT !.todo = @ \ {o}, !.tries = 0], l)
  /\ UNCHANGED <<exchangeVars, news, connVars, short>>

(* Mutant: a failed attempt is not counted. *)
TriedForEver(r, o) == Forget(r)

(* After MaxRetries attempts the order stays in purgatory.                 *)
Tried(r, o) ==
  IF r.tries + 1 < MaxRetries THEN [Forget(r) EXCEPT !.tries = @ + 1]
  ELSE [Forget(r) EXCEPT !.todo = @ \ {o}, !.tries = 0]

QueryFails ==
  /\ rec.phase = "query" /\ Waiting
  /\ rec' = NextQuery(Tried(rec, rec.asked), ledger)
  /\ UNCHANGED <<ledger, exchangeVars, news, connVars, history>>

NetPosition(s) ==
  LET of(side) == {o \in Orders : SymbolOf[o] = s /\ SideOf[o] = side}
      sum(os) == MapThenSumSet(LAMBDA o : exec[o], os)
  IN sum(of("BUY")) - sum(of("SELL"))

Magnitude(n) == IF n < 0 THEN -n ELSE n

(* The exchange answers get_position_info: a size without its sign.        *)
ServePosition(s) ==
  /\ rec.phase = "arbitrate" /\ ~Waiting /\ s \in rec.symbols
  /\ rec' = [rec EXCEPT !.asked = s, !.answer = <<Magnitude(NetPosition(s))>>]
  /\ short' = IF NetPosition(s) < 0 THEN short \cup {s} ELSE short
  /\ UNCHANGED <<ledger, exchangeVars, news, connVars, early>>

(* One symbol less to arbitrate.                                           *)
Arbitrated(r, s) ==
  [Forget(r) EXCEPT !.symbols = @ \ {s},
                    !.phase = IF r.symbols = {s} THEN "publish" ELSE @]

(* What arbitration attributes to an order of a symbol whose position is   *)
(* size: up to all of the excess over what was confirmed before, zero if   *)
(* there is none.                                                          *)
Attributed(o, size) ==
  LET excess == size - ledger.confirmed[SymbolOf[o]]
  IN IF excess > 0 THEN Min({QtyOf[o], excess}) ELSE 0

(* Mutant: a position that matches settles nothing. *)
SubjectsOfDelta(s, size) ==
  IF size = ledger.confirmed[s] THEN {}
  ELSE {o \in rec.remaining : SymbolOf[o] = s} \cap ledger.purgatory

(* The orders arbitration settles: of the list taken at its start, those   *)
(* of the symbol that are in purgatory still.                              *)
Subjects(s, size) == {o \in rec.remaining : SymbolOf[o] = s} \cap ledger.purgatory

(* _position_arbitration, for one symbol.  The confirmed quantity is read  *)
(* once, so each order is measured against the same excess.                *)
Arbitrate ==
  /\ rec.phase = "arbitrate" /\ Waiting
  /\ LET s == rec.asked
         subjects == Subjects(s, rec.answer[1])
         credits == [o \in Orders |-> IF o \in subjects THEN Attributed(o, rec.answer[1]) ELSE 0]
         merge(o, l) == Credited(l, o, credits[o])
     IN /\ Settle(FoldSet(merge, ledger, subjects), credits)
        /\ rec' = Arbitrated(rec, s)
  /\ UNCHANGED <<exchangeVars, news, connVars, short>>

(* The position query raises: the symbol's orders stay in purgatory.       *)
ArbitrationFails ==
  /\ rec.phase = "arbitrate" /\ Waiting
  /\ rec' = [Arbitrated(rec, rec.asked) EXCEPT !.failed = @ \cup {rec.asked}]
  /\ UNCHANGED <<ledger, exchangeVars, news, connVars, history>>

(* RECONCILIATION_COMPLETE is published; if that raises it is logged.      *)
Publish ==
  /\ rec.phase = "publish"
  /\ rec' = Idle
  /\ UNCHANGED <<ledger, exchangeVars, news, connVars, history>>

Rest ==
  \/ Publish
  \/ \E o \in Orders : ServeOrder(o)
  \/ \E s \in Symbols : ServePosition(s)
  \/ Answer \/ QueryFails \/ Arbitrate \/ ArbitrationFails

Next ==
  \/ \E o \in Orders : Arrive(o) \/ Execute(o) \/ Kill(o) \/ Dispatch(o)
  \/ Drop \/ Reconnect \/ Hear \/ Start \/ Rest

(* A REST call returns or raises: the client has a timeout, and the loop   *)
(* goes on after its backoff.                                              *)
Spec == Init /\ [][Next]_vars /\ WF_vars(Rest)

-----------------------------------------------------------------------------
(* The types of the state.                                                 *)
TypeOK ==
  /\ ledger \in LedgerType
  /\ place \in [Orders -> {"new", "wire", "working", "done", "lost"}]
  /\ exec \in [Orders -> Nat] /\ \A o \in Orders : exec[o] <= QtyOf[o]
  /\ status \in [Orders -> {"New", "PartiallyFilled", "Filled", "Cancelled", "Rejected"}]
  /\ \A i \in DOMAIN news : news[i] \in [order: Orders, kind: {"fill", "end"}, qty: Nat]
  /\ connected \in BOOLEAN /\ due \in BOOLEAN /\ drops \in 0 .. MaxDrops
  /\ rec.phase \in {"idle", "query", "arbitrate", "publish"} /\ rec.tries \in 0 .. MaxRetries - 1
  /\ rec.todo \subseteq Orders /\ rec.remaining \subseteq Orders /\ rec.symbols \subseteq Symbols
  /\ early \subseteq Orders /\ short \subseteq Symbols

(* Whatever a fill is heard by, the WebSocket, the order query or the      *)
(* position, late, lost or several of them, it is counted once: no symbol  *)
(* is confirmed above what its BUY orders executed, unless arbitration was *)
(* told the size of a short position.  It reads a size without its sign,   *)
(* and takes the short for an execution of the order it looks for.         *)
ConfirmedIsExecuted ==
  \A s \in Symbols \ short :
    ledger.confirmed[s] <=
      MapThenSumSet(LAMBDA o : exec[o], {o \in Orders : SymbolOf[o] = s /\ SideOf[o] = "BUY"})

(* The shadow covers the position at the exchange, unless an order of the  *)
(* symbol was settled early: for less than it executed, or while it still  *)
(* could.                                                                  *)
ShadowCoversExchange ==
  \A s \in Symbols :
    NetPosition(s) <= Shadow(ledger, s) \/ \E o \in early : SymbolOf[o] = s

(* Arbitration leaves nothing behind: of the orders it set out with, those *)
(* of a symbol whose position was answered are settled, whatever the       *)
(* WebSocket and new strikes did to the ledger while it asked.             *)
ArbitratedIsSettled ==
  rec.phase \in {"arbitrate", "publish"} =>
    \A o \in rec.remaining \cap ledger.purgatory : SymbolOf[o] \in rec.symbols \cup rec.failed

(* A reconciliation comes to an end although any of its queries may fail   *)
(* any number of times.                                                    *)
ReconciliationEnds == rec # Idle ~> rec = Idle
=============================================================================
