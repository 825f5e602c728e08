------------------------------ MODULE VpinEngine ------------------------------
(***************************************************************************)
(* O1VPINEngine of one symbol: two ring buffers of their own sizes, the    *)
(* running sums kept beside them, the decay after a long pause, the        *)
(* periodic rebuild of the sums, and reset_o1, which rewinds the rings and *)
(* zeroes the sums but leaves the arrays as they are.                      *)
(*                                                                         *)
(* Amounts are integers, so a sum is wrong only if the code makes it so;   *)
(* the drift of floating-point sums is left out.  The decay factor is 1/2. *)
(***************************************************************************)
EXTENDS Integers, Sequences, Functions

CONSTANTS
  WindowSize, HistorySize, Unit, ZSquare, Bars,   \* as in SlidingVpin
  RebuildInterval,   \* _rebuild_interval
  MaxResets          \* bound: calls of reset_o1 after the constructor's

ASSUME EngineAssumption ==
  /\ WindowSize \in Nat /\ WindowSize >= 2
  /\ HistorySize \in Nat /\ HistorySize >= WindowSize
  /\ Unit \in Nat \ {0}
  /\ ZSquare \in Nat
  /\ Bars \subseteq [buy : Nat, sell : Nat, close : Nat]
  /\ RebuildInterval \in Nat \ {0}
  /\ MaxResets \in Nat

VARIABLES
  engine,   \* the fields of the engine
  signal,   \* what the last call of process_bar returned
  \* observation only
  resets,   \* calls of reset_o1
  rebased   \* the sums were recomputed from the arrays since the last of them

vars == <<engine, signal, resets, rebased>>

None == "warmup"

Sum(f) == SumFunction(f)

Squares(f) == [i \in DOMAIN f |-> f[i] * f[i]]

Halved(f) == [i \in DOMAIN f |-> f[i] \div 2]

-----------------------------------------------------------------------------
(* The rings.                                                              *)

Rewound(e) ==
  [e EXCEPT !.index = 0, !.filled = FALSE, !.flowSum = 0,
            !.zIndex = 0, !.zCount = 0, !.vpinSum = 0, !.vpinSqSum = 0, !.sinceRebuild = 0]

Fresh ==
  [ flows |-> [i \in 0 .. WindowSize - 1 |-> 0],
    prices |-> [i \in 0 .. WindowSize - 1 |-> 0],
    vpins |-> [i \in 0 .. HistorySize - 1 |-> 0],
    index |-> 0, filled |-> FALSE, flowSum |-> 0,
    zIndex |-> 0, zCount |-> 0, vpinSum |-> 0, vpinSqSum |-> 0,
    sinceRebuild |-> 0 ]

Resummed(e) ==
  [e EXCEPT !.flowSum = Sum(e.flows), !.vpinSum = Sum(e.vpins), !.vpinSqSum = Sum(Squares(e.vpins))]

(* Mutant: the sums fade and the arrays do not. *)
DecayedSumsOnly(e) ==
  [e EXCEPT !.flowSum = @ \div 2, !.vpinSum = @ \div 2, !.vpinSqSum = @ \div 4]

Decayed(e) == Resummed([e EXCEPT !.flows = Halved(@), !.vpins = Halved(@)])

(* The bar overwrites the oldest slot of the window. *)
Stored(e, bar) ==
  LET flow == IF bar.buy > bar.sell THEN bar.buy - bar.sell ELSE bar.sell - bar.buy
  IN [e EXCEPT !.flows[e.index] = flow,
               !.prices[e.index] = bar.close,
               !.flowSum = @ + flow - e.flows[e.index],
               !.index = (@ + 1) % WindowSize,
               !.filled = @ \/ e.index + 1 = WindowSize]

(* Mutant: the slot behind the index is the bar just written. *)
OldestPriceBeforeStep(e) == e.prices[(e.index + WindowSize - 1) % WindowSize]

OldestPrice(e) == e.prices[e.index]

(* The VPIN, clamped to the unit interval. *)
Vpin(e) ==
  LET total == Unit * WindowSize
  IN IF e.flowSum < 0 THEN 0 ELSE IF e.flowSum > total THEN total ELSE e.flowSum

Scored(e) ==
  LET v == Vpin(e)
      old == e.vpins[e.zIndex]
  IN [e EXCEPT !.vpins[e.zIndex] = v,
               !.vpinSum = @ + v - old,
               !.vpinSqSum = @ + v * v - old * old,
               !.zIndex = (@ + 1) % HistorySize,
               !.zCount = IF @ < HistorySize THEN @ + 1 ELSE @]

Rebuilt(e) ==
  IF e.sinceRebuild + 1 >= RebuildInterval
  THEN [Resummed(e) EXCEPT !.sinceRebuild = 0]
  ELSE [e EXCEPT !.sinceRebuild = @ + 1]

(* The z-score of v exceeds the threshold.  The divisor is the number of   *)
(* scores so far; a variance below 1e-12 counts as 1e-12, which any rise   *)
(* exceeds.                                                                *)
Anomaly(e, v) ==
  LET rise == e.zCount * v - e.vpinSum
      spread == e.zCount * e.vpinSqSum - e.vpinSum * e.vpinSum
  IN rise > 0 /\ rise * rise > ZSquare * (IF spread > 0 THEN spread ELSE 0)

Direction(bar) ==
  IF bar.buy > bar.sell THEN "long" ELSE IF bar.buy < bar.sell THEN "short" ELSE "neutral"

Absorbed(bar, oldest) ==
  \/ Direction(bar) = "long" /\ bar.close <= oldest
  \/ Direction(bar) = "short" /\ bar.close >= oldest

-----------------------------------------------------------------------------

Init ==
  /\ engine = Fresh
  /\ signal = None
  /\ resets = 0
  /\ rebased = TRUE

(* process_bar; late if the last call was more than VPIN_TIME_GAP_SEC ago. *)
ProcessBar(bar, late) ==
  LET stored == Stored(IF late THEN Decayed(engine) ELSE engine, bar)
      scored == Scored(stored)
      rebuilds == stored.filled /\ scored.sinceRebuild + 1 >= RebuildInterval
      anomaly == Anomaly(scored, Vpin(stored))
  IN /\ IF stored.filled
        THEN /\ engine' = Rebuilt(scored)
             /\ signal' = [ vpin |-> Vpin(stored),
                            anomaly |-> anomaly,
                            direction |-> IF anomaly THEN Direction(bar) ELSE "neutral",
                            absorption |-> anomaly /\ Absorbed(bar, OldestPrice(stored)) ]
        ELSE engine' = stored /\ signal' = None
     /\ rebased' = (rebased \/ late \/ rebuilds)
     /\ UNCHANGED resets

Reset ==
  /\ resets < MaxResets
  /\ engine' = Rewound(engine)
  /\ resets' = resets + 1
  /\ rebased' = FALSE
  /\ UNCHANGED signal

Next == Reset \/ \E bar \in Bars, late \in BOOLEAN : ProcessBar(bar, late)

Spec == Init /\ [][Next]_vars

-----------------------------------------------------------------------------
(* Properties.                                                             *)

TypeOK ==
  /\ engine.flows \in [0 .. WindowSize - 1 -> Nat]
  /\ engine.prices \in [0 .. WindowSize - 1 -> Nat]
  /\ engine.vpins \in [0 .. HistorySize - 1 -> 0 .. Unit * WindowSize]
  /\ engine.index \in 0 .. WindowSize - 1 /\ engine.zIndex \in 0 .. HistorySize - 1
  /\ engine.filled \in BOOLEAN
  /\ engine.zCount \in 0 .. HistorySize
  /\ engine.flowSum \in Int /\ engine.vpinSum \in Int /\ engine.vpinSqSum \in Int
  /\ engine.sinceRebuild \in 0 .. RebuildInterval - 1
  /\ resets \in 0 .. MaxResets
  /\ rebased \in BOOLEAN

(* The running sums are the sums of the arrays, through laps of both       *)
(* rings, decays and rebuilds in any order (I4).  A reset breaks this, and *)
(* the next decay or rebuild restores it.                                  *)
SumsMatchArrays ==
  rebased => Resummed(engine) = engine

(* The ring read from its oldest entry to its newest. *)
Unrolled(ring, index, n, size) ==
  [i \in 1 .. n |-> ring[(index + size - n + i - 1) % size]]

Window ==
  LET n == IF engine.filled THEN WindowSize ELSE engine.index
      flows == Unrolled(engine.flows, engine.index, n, WindowSize)
      prices == Unrolled(engine.prices, engine.index, n, WindowSize)
  IN [i \in 1 .. n |-> [flow |-> flows[i], price |-> prices[i]]]

Sliding == INSTANCE SlidingVpin WITH
  window <- Window,
  scores <- Unrolled(engine.vpins, engine.zIndex, engine.zCount, HistorySize),
  trusted <- (resets = 0)

(* The engine gives the verdict of the sliding window it stands for, bar   *)
(* by bar: the right bar leaves the window, the price compared with is     *)
(* that of the oldest bar (I1), the scores live in a buffer of their own   *)
(* (I2) and are averaged over those there are (I3), also across decays.    *)
ImplementsSliding == Sliding!Spec
=============================================================================
