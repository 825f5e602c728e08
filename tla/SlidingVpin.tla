----------------------------- MODULE SlidingVpin -----------------------------
(***************************************************************************)
(* What the VPIN engine of a symbol means, without its ring buffers and    *)
(* running sums: the last WindowSize bars are kept, each full window has a *)
(* score, and a score is an anomaly when it lies more than sqrt(ZSquare)   *)
(* standard deviations above the mean of the last HistorySize scores.      *)
(*                                                                         *)
(* A score is the VPIN in units of 1 / (Unit * WindowSize).  A long pause  *)
(* fades flows and scores; here by one half, rounded down.                 *)
(*                                                                         *)
(* Nothing is promised of an engine once it was reset.  The assumptions    *)
(* on the constants are those of VpinEngine.                               *)
(***************************************************************************)
EXTENDS Integers, Sequences, Functions

CONSTANTS
  WindowSize, HistorySize,
  Unit,        \* the engine's volume_threshold, in dollars
  ZSquare,     \* the square of the z-score threshold
  Bars         \* the bars that may be closed, records of buy, sell and close

VARIABLES window,   \* the last bars: their absolute imbalance and price
          scores,   \* the last scores
          signal,   \* the verdict on the last bar
          trusted   \* it was never reset

vars == <<window, scores, signal, trusted>>

Sum(f) == SumFunction(f)

Abs(x) == IF x < 0 THEN -x ELSE x

Last(s, n) == SubSeq(s, IF Len(s) > n THEN Len(s) - n + 1 ELSE 1, Len(s))

Silent == "warmup"

(* What is said of a bar that ends a full window. *)
Verdict(score, anomaly, bar, oldest) ==
  LET flow == bar.buy - bar.sell IN
  [ vpin |-> score,
    anomaly |-> anomaly,
    direction |-> IF ~anomaly \/ flow = 0 THEN "neutral"
                  ELSE IF flow > 0 THEN "long" ELSE "short",
    \* the price did not follow the flow: somebody absorbs it
    absorption |-> /\ anomaly
                   /\ \/ flow > 0 /\ bar.close <= oldest
                      \/ flow < 0 /\ bar.close >= oldest ]

(* score lies above the mean of the scores s by more than the threshold,   *)
(* the variance being the mean of the squared deviations.                  *)
StandsOut(score, s) ==
  LET n == Len(s)
      rise == n * score - Sum(s)
      deviations == [i \in DOMAIN s |-> (n * s[i] - Sum(s)) * (n * s[i] - Sum(s))]
  IN rise > 0 /\ n * rise * rise > ZSquare * Sum(deviations)

Share(flows) == IF Sum(flows) > Unit * WindowSize THEN Unit * WindowSize ELSE Sum(flows)

-----------------------------------------------------------------------------

Init == window = <<>> /\ scores = <<>> /\ signal = Silent /\ trusted = TRUE

(* A bar is closed, late if so much time has passed since the one before   *)
(* that what is remembered has faded.                                      *)
Bar(bar, late) ==
  LET faded(x) == IF late THEN x \div 2 ELSE x
      kept == [i \in DOMAIN window |-> [window[i] EXCEPT !.flow = faded(@)]]
      now == Last(Append(kept, [flow |-> Abs(bar.buy - bar.sell), price |-> bar.close]), WindowSize)
      past == [i \in DOMAIN scores |-> faded(scores[i])]
      score == Share([i \in DOMAIN now |-> now[i].flow])
      seen == Last(Append(past, score), HistorySize)
  IN /\ trusted' = trusted
     /\ window' = now
     /\ IF Len(now) < WindowSize
        THEN scores' = past /\ signal' = Silent
        ELSE scores' = seen /\ signal' = Verdict(score, StandsOut(score, seen), bar, now[1].price)

Reset == trusted' = FALSE

Next == Reset \/ \E bar \in Bars, late \in BOOLEAN : Bar(bar, late)

Spec == Init /\ [][Next]_vars
=============================================================================
