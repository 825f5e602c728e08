----------------------------- MODULE DollarBars -----------------------------
(***************************************************************************)
(* ZeroAllocationDollarBarEngine: trades fill a bar up to a dollar volume; *)
(* one trade may close several bars.  Closed bars are rows of a ring.  Of  *)
(* a row this keeps the number and high, low and close; times, volumes,    *)
(* the EMA and the variance are read by nobody here.                       *)
(***************************************************************************)
EXTENDS Integers, FiniteSets

CONSTANTS
  Threshold,   \* dollar_threshold_scaled
  Scale,       \* 100000000 in the code
  Slots        \* capacity of the ring, 10000 in the code

ASSUME BarAssumption ==
  Threshold \in Nat \ {0} /\ Scale \in Nat \ {0} /\ Slots \in Nat \ {0}

(* Slots never written, and the one _close_bar has prepared for the next   *)
(* bar, hold zeros.                                                        *)
ZeroRow == [bar |-> 0, high |-> 0, low |-> 0, close |-> 0]

(* The bar being filled; trades is _trade_count > 0.                       *)
NewEngine ==
  [count |-> 0, acc |-> 0, trades |-> FALSE, high |-> 0, low |-> 0,
   buf |-> [p \in 0..(Slots - 1) |-> ZeroRow]]

HeadSlot(e) == e.count % Slots
DollarValue(price, qty) == (price * qty) \div Scale
Filled(e, price, qty) == e.acc + DollarValue(price, qty)

(* Extremes of the bar in work once it includes a trade at this price.     *)
High(e, price) == IF e.trades /\ e.high > price THEN e.high ELSE price
Low(e, price) == IF e.trades /\ e.low < price THEN e.low ELSE price

(* Bars an accepted trade closes.                                          *)
Closed(e, price, qty) == e.count..(e.count + Filled(e, price, qty) \div Threshold - 1)

(* What _close_bar writes for bar i of them: all but the first are the     *)
(* trade alone.                                                            *)
RowOf(e, price, i) ==
  IF i = e.count
  THEN [bar |-> i, high |-> High(e, price), low |-> Low(e, price), close |-> price]
  ELSE [bar |-> i, high |-> price, low |-> price, close |-> price]

(* The last bar written to slot p, unless p is the slot zeroed last.       *)
Buffer(e, price, closed) ==
  LET count == e.count + Cardinality(closed)
      AtSlot(p) == {i \in closed : i % Slots = p}
  IN [p \in 0..(Slots - 1) |->
       IF closed # {} /\ p = count % Slots THEN ZeroRow
       ELSE IF AtSlot(p) # {}
            THEN RowOf(e, price, CHOOSE i \in AtSlot(p) : \A j \in AtSlot(p) : j <= i)
            ELSE e.buf[p]]

(* ingest_trade, without the listeners.  Mutant: the remainder of a trade  *)
(* that closes a bar is not carried into the next.                         *)
IngestedWithoutRest(e, price, qty) ==
  LET filled == Filled(e, price, qty)
      closed == Closed(e, price, qty)
  IN IF DollarValue(price, qty) <= 0 THEN e
     ELSE [count |-> e.count + Cardinality(closed),
           acc |-> IF closed = {} THEN filled ELSE 0,
           trades |-> closed = {},
           high |-> IF closed = {} THEN High(e, price) ELSE price,
           low |-> IF closed = {} THEN Low(e, price) ELSE price,
           buf |-> Buffer(e, price, closed)]

Ingested(e, price, qty) ==
  LET filled == Filled(e, price, qty)
      closed == Closed(e, price, qty)
  IN IF DollarValue(price, qty) <= 0 THEN e
     ELSE [count |-> e.count + Cardinality(closed),
           acc |-> filled % Threshold,
           trades |-> filled % Threshold > 0,
           high |-> IF closed = {} THEN High(e, price) ELSE price,
           low |-> IF closed = {} THEN Low(e, price) ELSE price,
           buf |-> Buffer(e, price, closed)]

(* get_bar_row: what is out of the window raises IndexError.               *)
Oldest(e) == IF e.count > Slots THEN e.count - Slots ELSE 0
Available(e) == Oldest(e)..(e.count - 1)
BarRow(e, i) == e.buf[(HeadSlot(e) - (e.count - i)) % Slots]
=============================================================================
