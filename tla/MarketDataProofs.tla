--------------------------- MODULE MarketDataProofs ---------------------------
(***************************************************************************)
(* Theorems about what is made of the market data: VpinEngine, BybitFeed   *)
(* and LiquidityDetectors, each for any values of its constants.           *)
(***************************************************************************)
EXTENDS VpinEngine, BybitFeed, LiquidityDetectors, FiniteSums, SequenceTheorems

-----------------------------------------------------------------------------
(* The fields of the engine.                                               *)

Turns == 0 .. WindowSize - 1
Laps == 0 .. HistorySize - 1
Scores == 0 .. Unit * WindowSize

Engines ==
  [ flows : [Turns -> Nat], prices : [Turns -> Nat], vpins : [Laps -> Scores],
    index : Turns, filled : BOOLEAN, flowSum : Int,
    zIndex : Laps, zCount : 0 .. HistorySize, vpinSum : Int, vpinSqSum : Int,
    sinceRebuild : 0 .. RebuildInterval - 1 ]

(* The sums beside the rings are those of the rings. *)
Match(e) ==
  /\ e.flowSum = Sum(e.flows)
  /\ e.vpinSum = Sum(e.vpins)
  /\ e.vpinSqSum = Sum(Squares(e.vpins))

FlowOf(bar) == IF bar.buy > bar.sell THEN bar.buy - bar.sell ELSE bar.sell - bar.buy

LEMMA Sizes ==
  /\ WindowSize \in Nat /\ HistorySize \in Nat /\ Unit \in Nat /\ RebuildInterval \in Nat
  /\ WindowSize >= 2 /\ HistorySize >= 2 /\ RebuildInterval >= 1
  /\ Unit * WindowSize \in Nat
BY EngineAssumption

(* Once around a ring. *)
LEMMA Wraps ==
  ASSUME NEW n \in Nat \ {0}, NEW k \in 0 .. 2 * n - 1
  PROVE  k % n = IF k < n THEN k ELSE k - n
OBVIOUS

LEMMA NextTurn ==
  ASSUME NEW n \in Nat \ {0}, NEW k \in 0 .. n - 1
  PROVE  /\ (k + 1) % n \in 0 .. n - 1
         /\ (k + 1) % n = IF k + 1 = n THEN 0 ELSE k + 1
<1>1. k + 1 \in 0 .. 2 * n - 1
  OBVIOUS
<1>2. (k + 1) % n = IF k + 1 < n THEN k + 1 ELSE k + 1 - n
  <2>1. \A j \in 0 .. 2 * n - 1 : j % n = IF j < n THEN j ELSE j - n
    BY Wraps
  <2> QED
    BY <1>1, <2>1
<1> DEFINE m == (k + 1) % n
<1> HIDE DEF m
<1>3. m = IF k + 1 < n THEN k + 1 ELSE k + 1 - n
  BY <1>2 DEF m
<1>4. m \in 0 .. n - 1 /\ m = IF k + 1 = n THEN 0 ELSE k + 1
  BY <1>3
<1> QED
  BY <1>4 DEF m

(* The sum of a ring of numbers. *)
LEMMA SumIsFinite ==
  ASSUME NEW f
  PROVE  Sum(f) = SumOf(f, DOMAIN f)
BY DEF Sum, SumFunction, SumFunctionOnSet, FoldFunctionOnSet, SumOf, MapThenSumSet

LEMMA TurnsAreFinite == IsFiniteSet(Turns) /\ IsFiniteSet(Laps)
BY Sizes, FS_Interval DEF Turns, Laps

LEMMA RingSums ==
  ASSUME NEW e \in Engines
  PROVE  /\ Sum(e.flows) \in Nat /\ Sum(e.vpins) \in Nat /\ Sum(Squares(e.vpins)) \in Nat
         /\ Squares(e.vpins) \in [Laps -> Nat] /\ e.vpins \in [Laps -> Nat]
<1>1. e.flows \in [Turns -> Nat] /\ e.vpins \in [Laps -> Scores]
  BY DEF Engines
<1>2. e.vpins \in [Laps -> Nat]
  BY <1>1, Sizes DEF Scores
<1>3. Squares(e.vpins) \in [Laps -> Nat]
  BY <1>2 DEF Squares
<1> HIDE DEF Engines
<1> QED
  BY <1>1, <1>2, <1>3, TurnsAreFinite, SumIsFinite, SumType

(* Recomputing matching sums changes nothing. *)
LEMMA ResummedFields ==
  ASSUME NEW e \in Engines
  PROVE  /\ Resummed(e) \in Engines
         /\ Match(Resummed(e))
         /\ Match(e) <=> Resummed(e) = e
<1>1. Sum(e.flows) \in Int /\ Sum(e.vpins) \in Int /\ Sum(Squares(e.vpins)) \in Int
  BY RingSums
<1> QED
  BY <1>1 DEF Engines, Match, Resummed

LEMMA DecayedFields ==
  ASSUME NEW e \in Engines
  PROVE  /\ Decayed(e) \in Engines
         /\ Match(Decayed(e))
         /\ Decayed(e).flows = Halved(e.flows) /\ Decayed(e).vpins = Halved(e.vpins)
         /\ Decayed(e).prices = e.prices
         /\ Decayed(e).index = e.index /\ Decayed(e).filled = e.filled
         /\ Decayed(e).zIndex = e.zIndex /\ Decayed(e).zCount = e.zCount
<1> DEFINE h == [e EXCEPT !.flows = Halved(@), !.vpins = Halved(@)]
<1>1. \A k \in Nat : k \div 2 \in 0 .. k
  OBVIOUS
<1>2. Halved(e.flows) \in [Turns -> Nat]
  BY <1>1 DEF Halved, Engines
<1>3. Halved(e.vpins) \in [Laps -> Scores]
  BY <1>1, Sizes DEF Halved, Engines, Scores
<1>4. h \in Engines
  BY <1>2, <1>3 DEF Engines
<1>5. /\ h.flows = Halved(e.flows) /\ h.vpins = Halved(e.vpins) /\ h.prices = e.prices
      /\ h.index = e.index /\ h.filled = e.filled /\ h.zIndex = e.zIndex /\ h.zCount = e.zCount
  BY DEF Engines
<1> HIDE DEF h
<1>6. Decayed(e) = Resummed(h)
  BY DEF Decayed, h
<1>7. /\ Resummed(h).flows = h.flows /\ Resummed(h).vpins = h.vpins /\ Resummed(h).prices = h.prices
      /\ Resummed(h).index = h.index /\ Resummed(h).filled = h.filled
      /\ Resummed(h).zIndex = h.zIndex /\ Resummed(h).zCount = h.zCount
  BY <1>4 DEF Resummed, Engines
<1> QED
  BY <1>4, <1>5, <1>6, <1>7, ResummedFields

LEMMA StoredFields ==
  ASSUME NEW e \in Engines, NEW bar \in Bars
  PROVE  /\ Stored(e, bar) \in Engines
         /\ Stored(e, bar).flows = [e.flows EXCEPT ![e.index] = FlowOf(bar)]
         /\ Stored(e, bar).prices = [e.prices EXCEPT ![e.index] = bar.close]
         /\ Stored(e, bar).flowSum = e.flowSum + FlowOf(bar) - e.flows[e.index]
         /\ Stored(e, bar).index = (e.index + 1) % WindowSize
         /\ Stored(e, bar).filled = (e.filled \/ e.index + 1 = WindowSize)
         /\ Stored(e, bar).vpins = e.vpins
         /\ Stored(e, bar).zIndex = e.zIndex /\ Stored(e, bar).zCount = e.zCount
         /\ Stored(e, bar).vpinSum = e.vpinSum /\ Stored(e, bar).vpinSqSum = e.vpinSqSum
         /\ Stored(e, bar).sinceRebuild = e.sinceRebuild
         /\ FlowOf(bar) \in Nat /\ bar.close \in Nat
<1>1. bar.buy \in Nat /\ bar.sell \in Nat /\ bar.close \in Nat
  BY EngineAssumption
<1>2. FlowOf(bar) \in Nat
  BY <1>1 DEF FlowOf
<1>3. e.index \in Turns /\ e.flows \in [Turns -> Nat] /\ e.prices \in [Turns -> Nat]
      /\ e.flowSum \in Int /\ e.filled \in BOOLEAN
  BY DEF Engines
<1>4. (e.index + 1) % WindowSize \in Turns
  BY <1>3, Sizes, NextTurn DEF Turns
<1> DEFINE f == FlowOf(bar)
           i == (e.index + 1) % WindowSize
           full == e.filled \/ e.index + 1 = WindowSize
           sum == e.flowSum + f - e.flows[e.index]
           fl == [e.flows EXCEPT ![e.index] = f]
           pr == [e.prices EXCEPT ![e.index] = bar.close]
<1>5. Stored(e, bar) = [e EXCEPT !.flows = fl, !.prices = pr, !.flowSum = sum,
                                 !.index = i, !.filled = full]
  BY DEF Stored, FlowOf, Engines
<1>6. /\ fl \in [Turns -> Nat] /\ pr \in [Turns -> Nat]
      /\ sum \in Int /\ i \in Turns /\ full \in BOOLEAN
  BY <1>1, <1>2, <1>3, <1>4
<1>7. f \in Nat
  BY <1>2
<1> HIDE DEF f, i, full, sum, fl, pr
<1>8. /\ Stored(e, bar) \in Engines
      /\ Stored(e, bar).flows = fl /\ Stored(e, bar).prices = pr
      /\ Stored(e, bar).flowSum = sum /\ Stored(e, bar).index = i /\ Stored(e, bar).filled = full
      /\ Stored(e, bar).vpins = e.vpins
      /\ Stored(e, bar).zIndex = e.zIndex /\ Stored(e, bar).zCount = e.zCount
      /\ Stored(e, bar).vpinSum = e.vpinSum /\ Stored(e, bar).vpinSqSum = e.vpinSqSum
      /\ Stored(e, bar).sinceRebuild = e.sinceRebuild
  BY <1>5, <1>6 DEF Engines
<1> QED
  BY <1>1, <1>7, <1>8 DEF f, i, full, sum, fl, pr

LEMMA VpinIsScore ==
  ASSUME NEW e \in Engines
  PROVE  Vpin(e) \in Scores
BY Sizes DEF Vpin, Engines, Scores

LEMMA ScoredFields ==
  ASSUME NEW e \in Engines
  PROVE  /\ Scored(e) \in Engines
         /\ Scored(e).vpins = [e.vpins EXCEPT ![e.zIndex] = Vpin(e)]
         /\ Scored(e).vpinSum = e.vpinSum + Vpin(e) - e.vpins[e.zIndex]
         /\ Scored(e).vpinSqSum = e.vpinSqSum + Vpin(e) * Vpin(e)
                                   - e.vpins[e.zIndex] * e.vpins[e.zIndex]
         /\ Scored(e).zIndex = (e.zIndex + 1) % HistorySize
         /\ Scored(e).zCount = IF e.zCount < HistorySize THEN e.zCount + 1 ELSE e.zCount
         /\ Scored(e).flows = e.flows /\ Scored(e).prices = e.prices
         /\ Scored(e).flowSum = e.flowSum
         /\ Scored(e).index = e.index /\ Scored(e).filled = e.filled
         /\ Scored(e).sinceRebuild = e.sinceRebuild
<1> DEFINE v == Vpin(e)
           o == e.vpins[e.zIndex]
<1>1. v \in Scores /\ o \in Scores
  BY VpinIsScore DEF Engines
<1>2. v \in Int /\ o \in Int /\ v * v \in Int /\ o * o \in Int
  BY <1>1, Sizes DEF Scores
<1>3. (e.zIndex + 1) % HistorySize \in Laps
  <2>1. e.zIndex \in Laps
    BY DEF Engines
  <2> QED
    BY <2>1, Sizes, NextTurn DEF Laps
<1>4. (IF e.zCount < HistorySize THEN e.zCount + 1 ELSE e.zCount) \in 0 .. HistorySize
  BY Sizes DEF Engines
<1> DEFINE s1 == e.vpinSum + v - o
           s2 == e.vpinSqSum + v * v - o * o
           i == (e.zIndex + 1) % HistorySize
           n == IF e.zCount < HistorySize THEN e.zCount + 1 ELSE e.zCount
           r == [e.vpins EXCEPT ![e.zIndex] = v]
<1>5. Scored(e) = [e EXCEPT !.vpins = r, !.vpinSum = s1, !.vpinSqSum = s2, !.zIndex = i, !.zCount = n]
  BY DEF Scored, Engines
<1>6. e.vpinSum \in Int /\ e.vpinSqSum \in Int /\ e.vpins \in [Laps -> Scores] /\ e.zIndex \in Laps
  BY DEF Engines
<1>7. /\ r \in [Laps -> Scores] /\ s1 \in Int /\ s2 \in Int
      /\ i \in Laps /\ n \in 0 .. HistorySize
  BY <1>1, <1>2, <1>3, <1>4, <1>6
<1> HIDE DEF v, o, s1, s2, i, n, r
<1>8. /\ Scored(e) \in Engines
      /\ Scored(e).vpins = r /\ Scored(e).vpinSum = s1 /\ Scored(e).vpinSqSum = s2
      /\ Scored(e).zIndex = i /\ Scored(e).zCount = n
      /\ Scored(e).flows = e.flows /\ Scored(e).prices = e.prices
      /\ Scored(e).flowSum = e.flowSum
      /\ Scored(e).index = e.index /\ Scored(e).filled = e.filled
      /\ Scored(e).sinceRebuild = e.sinceRebuild
  BY <1>5, <1>7 DEF Engines
<1> QED
  BY <1>8 DEF v, o, s1, s2, i, n, r

LEMMA RebuiltFields ==
  ASSUME NEW e \in Engines
  PROVE  /\ Rebuilt(e) \in Engines
         /\ Match(e) \/ e.sinceRebuild + 1 >= RebuildInterval => Match(Rebuilt(e))
         /\ Rebuilt(e).flows = e.flows /\ Rebuilt(e).prices = e.prices /\ Rebuilt(e).vpins = e.vpins
         /\ Rebuilt(e).index = e.index /\ Rebuilt(e).filled = e.filled
         /\ Rebuilt(e).zIndex = e.zIndex /\ Rebuilt(e).zCount = e.zCount
<1>1. CASE e.sinceRebuild + 1 >= RebuildInterval
  <2> DEFINE r == Resummed(e)
  <2>1. r \in Engines /\ Match(r)
    BY ResummedFields
  <2>2. /\ r.flows = e.flows /\ r.prices = e.prices /\ r.vpins = e.vpins
        /\ r.index = e.index /\ r.filled = e.filled /\ r.zIndex = e.zIndex /\ r.zCount = e.zCount
    BY DEF Resummed, Engines
  <2>3. Rebuilt(e) = [r EXCEPT !.sinceRebuild = 0]
    BY <1>1 DEF Rebuilt
  <2> HIDE DEF r
  <2>4. 0 \in 0 .. RebuildInterval - 1
    BY Sizes
  <2> QED
    BY <2>1, <2>2, <2>3, <2>4 DEF Engines, Match
<1>2. CASE ~(e.sinceRebuild + 1 >= RebuildInterval)
  <2>1. e.sinceRebuild + 1 \in 0 .. RebuildInterval - 1
    BY <1>2, Sizes DEF Engines
  <2>2. Rebuilt(e) = [e EXCEPT !.sinceRebuild = @ + 1]
    BY <1>2 DEF Rebuilt
  <2> QED
    BY <1>2, <2>1, <2>2 DEF Engines, Match
<1> QED
  BY <1>1, <1>2

-----------------------------------------------------------------------------
(* The running sums.                                                       *)

(* A bar moves the sum of the window with its slot. *)
LEMMA StoredMatches ==
  ASSUME NEW e \in Engines, NEW bar \in Bars, Match(e)
  PROVE  Match(Stored(e, bar))
<1>1. e.flows \in [Turns -> Nat] /\ e.index \in Turns /\ FlowOf(bar) \in Nat
  BY StoredFields DEF Engines
<1>2. SumOf([e.flows EXCEPT ![e.index] = FlowOf(bar)], Turns)
        = SumOf(e.flows, Turns) + FlowOf(bar) - e.flows[e.index]
  BY <1>1, TurnsAreFinite, SumWithOneChanged
<1>3. /\ Sum(e.flows) = SumOf(e.flows, Turns)
      /\ Sum(Stored(e, bar).flows) = SumOf([e.flows EXCEPT ![e.index] = FlowOf(bar)], Turns)
  BY <1>1, SumIsFinite, StoredFields
<1> DEFINE st == Stored(e, bar)
<1>4. st.flowSum = e.flowSum + FlowOf(bar) - e.flows[e.index] /\ st.vpins = e.vpins
      /\ st.vpinSum = e.vpinSum /\ st.vpinSqSum = e.vpinSqSum
  BY StoredFields
<1>5. Sum(st.flows) = SumOf(e.flows, Turns) + FlowOf(bar) - e.flows[e.index]
  BY <1>2, <1>3
<1> HIDE DEF st
<1>6. Match(st)
  BY <1>3, <1>4, <1>5 DEF Match
<1> QED
  BY <1>6 DEF st

(* A score moves the sums of the scores and of their squares with its slot. *)
LEMMA ScoredMatches ==
  ASSUME NEW e \in Engines, Match(e)
  PROVE  Match(Scored(e))
<1> DEFINE v == Vpin(e)
           i == e.zIndex
           sq == Squares(e.vpins)
           sq2 == Squares([e.vpins EXCEPT ![i] = v])
<1>1. e.vpins \in [Laps -> Nat] /\ sq \in [Laps -> Nat] /\ i \in Laps /\ v \in Nat
  BY RingSums, VpinIsScore, Sizes DEF Engines, Scores
<1>2. v * v \in Nat /\ sq[i] = e.vpins[i] * e.vpins[i]
  BY <1>1 DEF Squares
<1> DEFINE w == v * v
<1>3. sq2 = [sq EXCEPT ![i] = w] /\ w \in Nat
  BY <1>1, <1>2 DEF Squares
<1> HIDE DEF v, i, sq, sq2, w
<1>4. SumOf([e.vpins EXCEPT ![i] = v], Laps) = SumOf(e.vpins, Laps) + v - e.vpins[i]
  BY <1>1, TurnsAreFinite, SumWithOneChanged
<1>5. SumOf(sq2, Laps) = SumOf(sq, Laps) + v * v - e.vpins[i] * e.vpins[i]
  <2>1. SumOf([sq EXCEPT ![i] = w], Laps) = SumOf(sq, Laps) + w - sq[i]
    <3>1. sq \in [Laps -> Nat] /\ i \in Laps /\ w \in Nat /\ IsFiniteSet(Laps)
      BY <1>1, <1>3, TurnsAreFinite
    <3> QED
      BY <3>1, SumWithOneChanged
  <2> QED
    BY <1>2, <1>3, <2>1 DEF w
<1>6. /\ Sum(e.vpins) = SumOf(e.vpins, Laps) /\ Sum(sq) = SumOf(sq, Laps)
      /\ Sum([e.vpins EXCEPT ![i] = v]) = SumOf([e.vpins EXCEPT ![i] = v], Laps)
      /\ Sum(sq2) = SumOf(sq2, Laps)
  BY <1>1, <1>3, SumIsFinite
<1>7. Scored(e).vpins = [e.vpins EXCEPT ![i] = v]
  BY ScoredFields DEF v, i
<1>8. Scored(e).vpinSum = e.vpinSum + v - e.vpins[i]
      /\ Scored(e).vpinSqSum = e.vpinSqSum + v * v - e.vpins[i] * e.vpins[i]
      /\ Scored(e).flowSum = e.flowSum /\ Scored(e).flows = e.flows
  BY ScoredFields DEF v, i
<1>9. Squares(Scored(e).vpins) = sq2
  BY <1>7 DEF sq2
<1> QED
  BY <1>4, <1>5, <1>6, <1>7, <1>8, <1>9 DEF Match, sq

(* The scores there are lie in front of slots that hold zeros. *)
ScoresInFront(e) ==
  e.zCount < HistorySize =>
    e.zIndex = e.zCount /\ \A i \in Laps : i >= e.zCount => e.vpins[i] = 0

VpinInv ==
  /\ engine \in Engines
  /\ resets \in 0 .. MaxResets /\ rebased \in BOOLEAN
  /\ rebased => Match(engine)
  /\ resets = 0 => rebased /\ ScoresInFront(engine)

LEMMA FreshEngine == Fresh \in Engines /\ Match(Fresh) /\ ScoresInFront(Fresh)
<1>1. 0 \in Turns /\ 0 \in Laps /\ 0 \in 0 .. HistorySize /\ 0 \in 0 .. RebuildInterval - 1
      /\ 0 \in Scores
  BY Sizes DEF Turns, Laps, Scores
<1>2. Fresh \in Engines
  BY <1>1 DEF Fresh, Engines, Turns, Laps
<1>3. /\ Fresh.flows = [i \in Turns |-> 0] /\ Fresh.vpins = [i \in Laps |-> 0]
      /\ Squares(Fresh.vpins) = [i \in Laps |-> 0]
  BY DEF Fresh, Squares, Turns, Laps
<1>4. Sum(Fresh.flows) = 0 /\ Sum(Fresh.vpins) = 0 /\ Sum(Squares(Fresh.vpins)) = 0
  BY <1>3, TurnsAreFinite, SumIsFinite, SumOfZeros
<1> QED
  BY <1>2, <1>4 DEF Match, Fresh, ScoresInFront, Laps

LEMMA RewoundEngine == ASSUME NEW e \in Engines PROVE Rewound(e) \in Engines
<1>1. 0 \in Turns /\ 0 \in Laps /\ 0 \in 0 .. HistorySize /\ 0 \in 0 .. RebuildInterval - 1
  BY Sizes DEF Turns, Laps
<1>2. \A d \in Engines, i \in Turns, f \in BOOLEAN, x \in Int, z \in Laps :
        [d EXCEPT !.index = i, !.filled = f, !.flowSum = x, !.zIndex = z] \in Engines
  BY DEF Engines
<1>3. \A d \in Engines, c \in 0 .. HistorySize, x, y \in Int, k \in 0 .. RebuildInterval - 1 :
        [d EXCEPT !.zCount = c, !.vpinSum = x, !.vpinSqSum = y, !.sinceRebuild = k] \in Engines
  BY DEF Engines
<1> DEFINE d == [e EXCEPT !.index = 0, !.filled = FALSE, !.flowSum = 0, !.zIndex = 0]
<1>4. Rewound(e) = [d EXCEPT !.zCount = 0, !.vpinSum = 0, !.vpinSqSum = 0, !.sinceRebuild = 0]
  BY Zenon DEF Rewound, Engines
<1>5. FALSE \in BOOLEAN /\ 0 \in Int
  OBVIOUS
<1>6. d \in Engines
  BY <1>1, <1>2, <1>5
<1>7. [d EXCEPT !.zCount = 0, !.vpinSum = 0, !.vpinSqSum = 0, !.sinceRebuild = 0] \in Engines
  <2> HIDE DEF Engines, d
  <2> QED
    BY Zenon, <1>1, <1>3, <1>5, <1>6
<1> QED
  BY Zenon, <1>4, <1>7

(* The engine a bar meets, faded if it is late. *)
Before(late) == IF late THEN Decayed(engine) ELSE engine

LEMMA BeforeFields ==
  ASSUME VpinInv, NEW late \in BOOLEAN
  PROVE  /\ Before(late) \in Engines
         /\ rebased \/ late => Match(Before(late))
         /\ resets = 0 => ScoresInFront(Before(late))
<1>1. CASE ~late
  BY <1>1 DEF VpinInv, Before
<1>2. CASE late
  <2>1. engine \in Engines
    BY DEF VpinInv
  <2>2. 0 \div 2 = 0
    OBVIOUS
  <2>3. ScoresInFront(engine) => ScoresInFront(Decayed(engine))
    <3>1. /\ Decayed(engine).vpins = Halved(engine.vpins)
          /\ Decayed(engine).zIndex = engine.zIndex /\ Decayed(engine).zCount = engine.zCount
          /\ engine.vpins \in [Laps -> Scores]
      BY <2>1, DecayedFields DEF Engines
    <3> QED
      BY <2>2, <3>1 DEF ScoresInFront, Halved
  <2> QED
    BY <1>2, <2>1, <2>3, DecayedFields DEF VpinInv, Before
<1> QED
  BY <1>1, <1>2

(* What a bar makes of the engine. *)
LEMMA BarStep ==
  ASSUME VpinInv, NEW bar \in Bars, NEW late \in BOOLEAN, ProcessBar(bar, late)
  PROVE  LET stored == Stored(Before(late), bar)
             scored == Scored(stored)
         IN /\ stored \in Engines /\ scored \in Engines
            /\ engine' = IF stored.filled THEN Rebuilt(scored) ELSE stored
            /\ engine' \in Engines
            /\ rebased \/ late => Match(stored) /\ Match(scored)
            /\ rebased' => Match(engine')
            /\ resets' = resets
            /\ rebased => rebased'
<1> DEFINE stored == Stored(Before(late), bar)
           scored == Scored(stored)
<1>1. Before(late) \in Engines /\ (rebased \/ late => Match(Before(late)))
  BY BeforeFields
<1>2. stored \in Engines
  BY <1>1, StoredFields
<1>3. scored \in Engines
  BY <1>2, ScoredFields
<1>4. rebased \/ late => Match(stored)
  BY <1>1, StoredMatches
<1>5. rebased \/ late => Match(scored)
  BY <1>2, <1>4, ScoredMatches
<1>6. engine' = (IF stored.filled THEN Rebuilt(scored) ELSE stored)
  BY DEF ProcessBar, Before
<1>7. rebased' = (rebased \/ late \/ (stored.filled /\ scored.sinceRebuild + 1 >= RebuildInterval))
      /\ resets' = resets
  BY DEF ProcessBar, Before
<1> HIDE DEF stored, scored
<1>8. engine' \in Engines
  BY <1>2, <1>3, <1>6, RebuiltFields
<1>9. rebased' => Match(engine')
  BY <1>3, <1>4, <1>5, <1>6, <1>7, RebuiltFields
<1> QED
  BY <1>2, <1>3, <1>4, <1>5, <1>6, <1>7, <1>8, <1>9 DEF stored, scored

(* The scores stay in front until the ring is full. *)
LEMMA ScoresStayInFront ==
  ASSUME NEW e \in Engines, ScoresInFront(e)
  PROVE  ScoresInFront(Scored(e))
<1>1. /\ Scored(e).vpins = [e.vpins EXCEPT ![e.zIndex] = Vpin(e)]
      /\ Scored(e).zIndex = (e.zIndex + 1) % HistorySize
      /\ Scored(e).zCount = IF e.zCount < HistorySize THEN e.zCount + 1 ELSE e.zCount
  BY ScoredFields
<1>2. /\ e.zIndex \in 0 .. HistorySize - 1 /\ e.zCount \in 0 .. HistorySize
      /\ e.vpins \in [Laps -> Scores] /\ e.zIndex \in Laps
  BY DEF Engines, Laps
<1>3. (e.zIndex + 1) % HistorySize = IF e.zIndex + 1 = HistorySize THEN 0 ELSE e.zIndex + 1
  BY <1>2, Sizes, NextTurn
<1> SUFFICES ASSUME Scored(e).zCount < HistorySize
             PROVE  /\ Scored(e).zIndex = Scored(e).zCount
                    /\ \A i \in Laps : i >= Scored(e).zCount => Scored(e).vpins[i] = 0
  BY DEF ScoresInFront
<1>4. e.zCount < HistorySize /\ Scored(e).zCount = e.zCount + 1
  BY <1>1, <1>2, Sizes
<1>5. e.zIndex = e.zCount /\ \A i \in Laps : i >= e.zCount => e.vpins[i] = 0
  BY <1>4 DEF ScoresInFront
<1>6. Scored(e).zIndex = Scored(e).zCount
  BY <1>1, <1>2, <1>3, <1>4, <1>5
<1>7. ASSUME NEW i \in Laps, i >= Scored(e).zCount PROVE Scored(e).vpins[i] = 0
  <2>1. i >= e.zCount /\ i # e.zIndex
    BY <1>2, <1>4, <1>5, <1>7 DEF Laps
  <2> QED
    BY <1>1, <1>2, <1>5, <2>1
<1> QED
  BY <1>6, <1>7

LEMMA VpinStep == VpinInv /\ [Next]_vars => VpinInv'
<1> SUFFICES ASSUME VpinInv, [Next]_vars PROVE VpinInv'
  OBVIOUS
<1>1. CASE Reset
  <2>1. engine' \in Engines
    BY <1>1, RewoundEngine DEF Reset, VpinInv
  <2>2. resets \in 0 .. MaxResets /\ resets' = resets + 1 /\ resets < MaxResets /\ rebased' = FALSE
    BY <1>1 DEF Reset, VpinInv
  <2>3. resets' \in 0 .. MaxResets /\ resets' # 0
    BY <2>2, EngineAssumption
  <2> QED
    BY <2>1, <2>2, <2>3 DEF VpinInv
<1>2. ASSUME NEW bar \in Bars, NEW late \in BOOLEAN, ProcessBar(bar, late) PROVE VpinInv'
  <2> DEFINE stored == Stored(Before(late), bar)
             scored == Scored(stored)
  <2>1. /\ engine' \in Engines /\ (rebased' => Match(engine')) /\ resets' = resets
        /\ rebased => rebased'
    BY <1>2, BarStep
  <2>2. rebased' \in BOOLEAN
    BY <1>2 DEF ProcessBar
  <2>3. ASSUME resets' = 0 PROVE rebased' /\ ScoresInFront(engine')
    <3>1. rebased /\ ScoresInFront(Before(late)) /\ Before(late) \in Engines
      BY <2>1, <2>3, BeforeFields DEF VpinInv
    <3>2. ScoresInFront(stored) /\ stored \in Engines
      BY <3>1, StoredFields DEF ScoresInFront
    <3>3. ScoresInFront(scored) /\ scored \in Engines
      BY <3>2, ScoresStayInFront, ScoredFields
    <3>4. engine' = (IF stored.filled THEN Rebuilt(scored) ELSE stored)
      BY <1>2, BarStep
    <3> HIDE DEF stored, scored
    <3>5. ScoresInFront(Rebuilt(scored))
      BY <3>3, RebuiltFields DEF ScoresInFront
    <3> QED
      BY <2>1, <3>1, <3>2, <3>4, <3>5
  <2> QED
    BY <2>1, <2>2, <2>3 DEF VpinInv
<1>3. CASE UNCHANGED vars
  BY <1>3 DEF vars, VpinInv, Match, ScoresInFront
<1> QED
  BY <1>1, <1>2, <1>3 DEF Next

LEMMA VpinInvHolds == Spec => []VpinInv
<1>1. Init => VpinInv
  BY FreshEngine, EngineAssumption DEF Init, VpinInv
<1> QED
  BY <1>1, VpinStep, PTL DEF Spec

(* The running sums are those of the rings, once they were computed from   *)
(* them after the last reset.                                              *)
THEOREM VpinSumsMatchArrays == Spec => []SumsMatchArrays
<1>1. VpinInv => SumsMatchArrays
  BY ResummedFields DEF VpinInv, SumsMatchArrays
<1> QED
  BY <1>1, VpinInvHolds, PTL

-----------------------------------------------------------------------------
(* The rings read from the oldest entry to the newest.                     *)

(* Where the i-th oldest of n entries lies. *)
LEMMA Place ==
  ASSUME NEW size \in Nat \ {0}, NEW index \in 0 .. size - 1, NEW n \in 0 .. size,
         n < size => index = n, NEW i \in 1 .. n
  PROVE  /\ (index + size - n + i - 1) % size \in 0 .. size - 1
         /\ (index + size - n + i - 1) % size =
              IF n < size THEN i - 1
              ELSE IF index + i - 1 < size THEN index + i - 1 ELSE index + i - 1 - size
<1> DEFINE k == index + size - n + i - 1
           m == k % size
<1>1. k \in 0 .. 2 * size - 1
  OBVIOUS
<1>2. m = IF k < size THEN k ELSE k - size
  <2>1. \A j \in 0 .. 2 * size - 1 : j % size = IF j < size THEN j ELSE j - size
    BY Wraps
  <2> HIDE DEF k
  <2> QED
    BY <1>1, <2>1
<1> HIDE DEF m
<1>3. /\ m \in 0 .. size - 1
      /\ m = IF n < size THEN i - 1
             ELSE IF index + i - 1 < size THEN index + i - 1 ELSE index + i - 1 - size
  BY <1>2
<1> QED
  BY <1>3 DEF m

LEMMA PlacesAre ==
  \A size \in Nat \ {0} : \A index \in 0 .. size - 1 : \A n \in 0 .. size :
    (n < size => index = n) =>
      \A i \in 1 .. n : (index + size - n + i - 1) % size =
                          IF n < size THEN i - 1
                          ELSE IF index + i - 1 < size THEN index + i - 1 ELSE index + i - 1 - size
BY Place

(* Overwriting the slot at the index is appending and dropping the oldest. *)
LEMMA RingPush ==
  ASSUME NEW S, NEW size \in Nat \ {0}, NEW index \in 0 .. size - 1, NEW n \in 0 .. size,
         n < size => index = n, NEW ring \in [0 .. size - 1 -> S], NEW x \in S,
         NEW ring2 \in [0 .. size - 1 -> S],
         \A j \in 0 .. size - 1 : ring2[j] = IF j = index THEN x ELSE ring[j],
         NEW index2, index2 = (index + 1) % size,
         NEW n2, n2 = IF n < size THEN n + 1 ELSE n
  PROVE  Unrolled(ring2, index2, n2, size)
           = Sliding!Last(Append(Unrolled(ring, index, n, size), x), size)
<1> DEFINE u == Unrolled(ring, index, n, size)
           a == Append(u, x)
           left == Unrolled(ring2, index2, n2, size)
           right == Sliding!Last(a, size)
<1>1. index2 \in 0 .. size - 1 /\ index2 = IF index + 1 = size THEN 0 ELSE index + 1
  BY NextTurn
<1>2. n2 \in 0 .. size
  OBVIOUS
<1>3. n2 < size => index2 = n2
  BY <1>1
<1>4. /\ u \in [1 .. n -> S]
      /\ \A i \in 1 .. n : u[i] = ring[IF n < size THEN i - 1
           ELSE IF index + i - 1 < size THEN index + i - 1 ELSE index + i - 1 - size]
  BY Place DEF Unrolled
<1>5. u \in Seq(S) /\ Len(u) = n
  BY <1>4
<1>6. left \in [1 .. n2 -> S]
  BY <1>1, <1>2, <1>3, Place DEF Unrolled
<1>7. \A i \in 1 .. n2 : left[i] = ring2[IF n2 < size THEN i - 1
           ELSE IF index2 + i - 1 < size THEN index2 + i - 1 ELSE index2 + i - 1 - size]
  <2>1. \A i \in 1 .. n2 : (index2 + size - n2 + i - 1) % size =
           IF n2 < size THEN i - 1
           ELSE IF index2 + i - 1 < size THEN index2 + i - 1 ELSE index2 + i - 1 - size
    <3> HIDE DEF left, right, a, u
    <3>1. index2 \in 0 .. size - 1 /\ n2 \in 0 .. size /\ (n2 < size => index2 = n2)
      BY <1>1, <1>2, <1>3
    <3> QED
      BY <3>1, PlacesAre, Zenon
  <2>2. left = [i \in 1 .. n2 |-> ring2[(index2 + size - n2 + i - 1) % size]]
    BY DEF Unrolled
  <2> HIDE DEF left
  <2> QED
    BY <2>1, <2>2
<1> HIDE DEF u, left
<1>8. /\ Len(a) = n + 1 /\ a \in Seq(S)
      /\ \A i \in 1 .. n + 1 : a[i] = IF i = n + 1 THEN x ELSE u[i]
  BY <1>5
<1> HIDE DEF a
<1>9. ASSUME n < size PROVE left = right
  <2>1. right = SubSeq(a, 1, n + 1)
    BY <1>8, <1>9 DEF Sliding!Last
  <2>2. right = [i \in 1 .. n + 1 |-> a[i]]
    BY <1>8, <2>1
  <2>3. ASSUME NEW i \in 1 .. n + 1 PROVE left[i] = a[i]
    <3>1. left[i] = ring2[i - 1]
      BY <1>1, <1>7, <1>9, <2>3
    <3>2. ring2[i - 1] = IF i - 1 = n THEN x ELSE ring[i - 1]
      BY <1>9, <2>3
    <3>3. a[i] = IF i = n + 1 THEN x ELSE u[i]
      BY <1>8
    <3>4. i # n + 1 => u[i] = ring[i - 1]
      BY <1>4, <1>9
    <3> QED
      BY <3>1, <3>2, <3>3, <3>4
  <2> HIDE DEF right
  <2>4. left \in [1 .. n + 1 -> S]
    BY <1>6, <1>9
  <2> QED
    BY <2>2, <2>3, <2>4
<1>10. ASSUME n = size PROVE left = right
  <2>1. right = SubSeq(a, 2, n + 1)
    BY <1>8, <1>10 DEF Sliding!Last
  <2>2. right = [i \in 1 .. n |-> a[i + 1]]
    BY <1>8, <2>1
  <2>3. ASSUME NEW i \in 1 .. n PROVE left[i] = a[i + 1]
    <3> DEFINE q == IF index2 + i - 1 < size THEN index2 + i - 1 ELSE index2 + i - 1 - size
    <3>1. left[i] = ring2[q]
      BY <1>7, <1>10, <2>3
    <3>2. q \in 0 .. size - 1
      BY <1>1, <1>10
    <3>7. ring2[q] = IF q = index THEN x ELSE ring[q]
      <4> HIDE DEF q
      <4> QED
        BY <3>2
    <3>3. a[i + 1] = IF i = n THEN x ELSE u[i + 1]
      <4>1. i + 1 \in 1 .. n + 1 /\ (i + 1 = n + 1 <=> i = n)
        BY <2>3
      <4> QED
        BY <1>8, <4>1
    <3>4. i # n => u[i + 1] = ring[IF index + i < size THEN index + i ELSE index + i - size]
      <4>1. i # n => i + 1 \in 1 .. n /\ index + (i + 1) - 1 = index + i
        OBVIOUS
      <4> QED
        BY <1>4, <1>10, <4>1
    <3>5. q = IF i = n THEN index ELSE IF index + i < size THEN index + i ELSE index + i - size
      BY <1>1, <1>10, <2>3
    <3>6. i # n => q # index
      BY <1>10, <2>3, <3>5
    <3> HIDE DEF q
    <3> QED
      BY <3>1, <3>7, <3>3, <3>4, <3>5, <3>6
  <2> HIDE DEF right
  <2>4. left \in [1 .. n -> S]
    BY <1>6, <1>10
  <2> QED
    BY <2>2, <2>3, <2>4
<1>11. n < size \/ n = size
  OBVIOUS
<1> QED
  BY <1>9, <1>10, <1>11 DEF left, a, u

PlaceOf(index, i, n, size) ==
  IF n < size THEN i - 1 ELSE IF index + i - 1 < size THEN index + i - 1 ELSE index + i - 1 - size

(* No place of a ring is read twice. *)
LEMMA PlacesDiffer ==
  ASSUME NEW size \in Nat \ {0}, NEW index \in 0 .. size - 1, NEW n \in 0 .. size,
         NEW i \in 1 .. n, NEW j \in 1 .. n, PlaceOf(index, i, n, size) = PlaceOf(index, j, n, size)
  PROVE  i = j
<1>1. CASE n < size
  BY <1>1 DEF PlaceOf
<1>2. CASE ~(n < size)
  BY <1>2 DEF PlaceOf
<1> QED
  BY <1>1, <1>2

(* The sum of what is read is that of the ring, if the rest is zeros. *)
LEMMA SumOfRing ==
  ASSUME NEW size \in Nat \ {0}, NEW index \in 0 .. size - 1, NEW n \in 0 .. size,
         n < size => index = n, NEW ring \in [0 .. size - 1 -> Nat],
         \A i \in n .. size - 1 : n < size => ring[i] = 0
  PROVE  SumOf(Unrolled(ring, index, n, size), 1 .. n) = SumOf(ring, 0 .. size - 1)
<1> DEFINE b == [i \in 1 .. n |-> (index + size - n + i - 1) % size]
           V == IF n < size THEN 0 .. n - 1 ELSE 0 .. size - 1
           u == Unrolled(ring, index, n, size)
<1>1. \A i \in 1 .. n : b[i] = IF n < size THEN i - 1
           ELSE IF index + i - 1 < size THEN index + i - 1 ELSE index + i - 1 - size
  BY Place
<1>2. u = [i \in 1 .. n |-> ring[b[i]]]
  BY DEF Unrolled
<1>3. DOMAIN b = 1 .. n /\ b = [i \in 1 .. n |-> b[i]]
  OBVIOUS
<1> HIDE DEF b, u
<1>4. b \in [1 .. n -> V]
  BY <1>1, <1>3
<1>5. \A i, j \in 1 .. n : b[i] = b[j] => i = j
  <2> SUFFICES ASSUME NEW i \in 1 .. n, NEW j \in 1 .. n, b[i] = b[j] PROVE i = j
    OBVIOUS
  <2>1. b[i] = PlaceOf(index, i, n, size) /\ b[j] = PlaceOf(index, j, n, size)
    BY <1>1 DEF PlaceOf
  <2>2. PlaceOf(index, i, n, size) = PlaceOf(index, j, n, size)
    BY <2>1, Zenon
  <2> QED
    BY <2>2, PlacesDiffer
<1>6. \A z \in V : \E i \in 1 .. n : b[i] = z
  <2> SUFFICES ASSUME NEW z \in V PROVE \E i \in 1 .. n : b[i] = z
    OBVIOUS
  <2>1. CASE n < size
    <3>1. z + 1 \in 1 .. n /\ b[z + 1] = z
      BY <1>1, <2>1
    <3> QED
      BY <3>1
  <2>2. CASE n = size /\ z >= index
    <3>1. z - index + 1 \in 1 .. n /\ b[z - index + 1] = z
      BY <1>1, <2>2
    <3> QED
      BY <3>1
  <2>3. CASE n = size /\ z < index
    <3>1. z + size - index + 1 \in 1 .. n /\ b[z + size - index + 1] = z
      BY <1>1, <2>3
    <3> QED
      BY <3>1
  <2> QED
    BY <2>1, <2>2, <2>3
<1>7. IsFiniteSet(1 .. n) /\ IsFiniteSet(0 .. size - 1) /\ IsFiniteSet(V)
  <2>1. \A i, j \in Int : IsFiniteSet(i .. j)
    BY FS_Interval
  <2>2. 1 \in Int /\ n \in Int /\ 0 \in Int /\ size - 1 \in Int /\ n - 1 \in Int
    OBVIOUS
  <2>3. IsFiniteSet(1 .. n) /\ IsFiniteSet(0 .. size - 1) /\ IsFiniteSet(0 .. n - 1)
    BY <2>1, <2>2
  <2> QED
    BY <2>3
<1>8. SumOf(u, 1 .. n) = SumOf(ring, V)
  <2>1. \A z \in V : ring[z] \in Nat
    OBVIOUS
  <2> DEFINE U == 1 .. n
  <2>2. b \in [U -> V] /\ IsFiniteSet(U)
    BY <1>4, <1>7
  <2>3. \A x, y \in U : b[x] = b[y] => x = y
    BY <1>5
  <2>4. \A z \in V : \E x \in U : b[x] = z
    BY <1>6
  <2> HIDE DEF V, U
  <2>5. SumOf([x \in U |-> ring[b[x]]], U) = SumOf(ring, V)
    <3>1. IsFiniteSet(V)
      BY <1>7
    <3> QED
      BY <2>1, <2>2, <2>3, <2>4, <3>1, SumRenamed, Zenon
  <2> QED
    BY <1>2, <2>5 DEF U
<1>9. SumOf(ring, V) = SumOf(ring, 0 .. size - 1)
  <2> DEFINE U == 0 .. size - 1
  <2>1. CASE n < size
    <3> DEFINE P == n .. size - 1
    <3>1. U \ P = V /\ U \cap P = P
      BY <2>1
    <3>2. IsFiniteSet(P) /\ \A z \in P : ring[z] = 0
      BY <1>7, <2>1, <3>1, FS_Subset
    <3>3. \A z \in U : ring[z] \in Nat
      OBVIOUS
    <3> HIDE DEF U, P, V
    <3>4. SumOf(ring, U) = SumOf(ring, U \ P) + SumOf(ring, U \cap P)
      BY <1>7, <3>3, SumOfParts DEF U
    <3>5. SumOf(ring, P) = 0
      BY <3>2, SumOfZeros
    <3>6. SumOf(ring, V) \in Nat
      <4>1. V \subseteq U
        BY <3>1
      <4> QED
        BY <1>7, <3>3, <4>1, SumType
    <3>7. SumOf(ring, U \ P) = SumOf(ring, V) /\ SumOf(ring, U \cap P) = SumOf(ring, P)
      BY Zenon, <3>1
    <3>8. SumOf(ring, U) = SumOf(ring, V)
      BY <3>4, <3>5, <3>6, <3>7
    <3> QED
      BY <3>8 DEF U
  <2>2. CASE n = size
    BY <2>2
  <2> QED
    BY <2>1, <2>2
<1> QED
  BY <1>8, <1>9 DEF u

LEMMA SlidingSum ==
  ASSUME NEW f
  PROVE  Sliding!Sum(f) = SumOf(f, DOMAIN f)
BY DEF Sliding!Sum, Sliding!SumFunction, Sliding!SumFunctionOnSet, Sliding!FoldFunctionOnSet,
       Sliding!MapThenFoldSet, MapThenFoldSet, SumOf, MapThenSumSet

-----------------------------------------------------------------------------
(* The engine implements the sliding window.                               *)

Held(e) == IF e.filled THEN WindowSize ELSE e.index
Bars2(e) == [t \in Turns |-> [flow |-> e.flows[t], price |-> e.prices[t]]]
WindowOf(e) == Unrolled(Bars2(e), e.index, Held(e), WindowSize)
ScoresOf(e) == Unrolled(e.vpins, e.zIndex, e.zCount, HistorySize)

Entries == [flow : Nat, price : Nat]

LEMMA RingShape ==
  ASSUME NEW e \in Engines
  PROVE  /\ Bars2(e) \in [0 .. WindowSize - 1 -> Entries]
         /\ e.index \in 0 .. WindowSize - 1 /\ Held(e) \in 0 .. WindowSize
         /\ Held(e) < WindowSize => e.index = Held(e)
         /\ e.vpins \in [0 .. HistorySize - 1 -> Scores]
         /\ e.zIndex \in 0 .. HistorySize - 1 /\ e.zCount \in 0 .. HistorySize
         /\ WindowSize \in Nat \ {0} /\ HistorySize \in Nat \ {0}
<1>1. /\ e.flows \in [Turns -> Nat] /\ e.prices \in [Turns -> Nat] /\ e.filled \in BOOLEAN
      /\ e.vpins \in [Laps -> Scores] /\ e.index \in Turns /\ e.zIndex \in Laps
      /\ e.zCount \in 0 .. HistorySize
  BY DEF Engines
<1>2. Bars2(e) \in [Turns -> Entries]
  BY <1>1 DEF Bars2, Entries
<1> HIDE DEF Engines
<1>3. Held(e) \in 0 .. WindowSize /\ (Held(e) < WindowSize => e.index = Held(e))
  BY <1>1, Sizes DEF Held, Turns
<1> QED
  BY <1>1, <1>2, <1>3, Sizes DEF Turns, Laps

(* Where the entries of the window and the scores are read. *)
TurnAt(e, i) == (e.index + WindowSize - Held(e) + i - 1) % WindowSize
LapAt(e, i) == (e.zIndex + HistorySize - e.zCount + i - 1) % HistorySize

LEMMA WindowEntries ==
  ASSUME NEW e \in Engines
  PROVE  /\ WindowOf(e) \in [1 .. Held(e) -> Entries]
         /\ \A i \in 1 .. Held(e) :
              /\ TurnAt(e, i) \in Turns
              /\ WindowOf(e)[i] = [flow |-> e.flows[TurnAt(e, i)], price |-> e.prices[TurnAt(e, i)]]
<1>1. \A i \in 1 .. Held(e) : TurnAt(e, i) \in Turns
  BY RingShape, Place DEF Turns, TurnAt
<1>2. WindowOf(e) = [i \in 1 .. Held(e) |-> Bars2(e)[TurnAt(e, i)]]
  BY DEF WindowOf, Unrolled, TurnAt
<1>3. Bars2(e) \in [Turns -> Entries]
  BY RingShape DEF Turns
<1>4. \A t \in Turns : Bars2(e)[t] = [flow |-> e.flows[t], price |-> e.prices[t]]
  BY DEF Bars2
<1> HIDE DEF Engines
<1> QED
  BY <1>1, <1>2, <1>3, <1>4

LEMMA ScoreEntries ==
  ASSUME NEW e \in Engines, ScoresInFront(e)
  PROVE  /\ ScoresOf(e) \in [1 .. e.zCount -> Scores]
         /\ \A i \in 1 .. e.zCount : LapAt(e, i) \in Laps /\ ScoresOf(e)[i] = e.vpins[LapAt(e, i)]
<1>1. e.zCount < HistorySize => e.zIndex = e.zCount
  BY DEF ScoresInFront
<1>2. \A i \in 1 .. e.zCount : LapAt(e, i) \in Laps
  BY <1>1, RingShape, Place DEF Laps, LapAt
<1>3. ScoresOf(e) = [i \in 1 .. e.zCount |-> e.vpins[LapAt(e, i)]]
  BY DEF ScoresOf, Unrolled, LapAt
<1>4. e.vpins \in [Laps -> Scores]
  BY RingShape DEF Laps
<1> HIDE DEF Engines
<1> QED
  BY <1>2, <1>3, <1>4

(* What the refinement calls the window is this. *)
LEMMA WindowRead ==
  ASSUME NEW e \in Engines
  PROVE  [i \in 1 .. Held(e) |->
            [flow |-> Unrolled(e.flows, e.index, Held(e), WindowSize)[i],
             price |-> Unrolled(e.prices, e.index, Held(e), WindowSize)[i]]] = WindowOf(e)
<1> DEFINE w == [i \in 1 .. Held(e) |->
            [flow |-> Unrolled(e.flows, e.index, Held(e), WindowSize)[i],
             price |-> Unrolled(e.prices, e.index, Held(e), WindowSize)[i]]]
<1>1. \A i \in 1 .. Held(e) : w[i] = [flow |-> e.flows[TurnAt(e, i)], price |-> e.prices[TurnAt(e, i)]]
  BY DEF Unrolled, TurnAt
<1>2. DOMAIN w = 1 .. Held(e) /\ w = [i \in 1 .. Held(e) |-> w[i]]
  OBVIOUS
<1> HIDE DEF w
<1>3. w = WindowOf(e)
  BY <1>1, <1>2, WindowEntries
<1> QED
  BY <1>3 DEF w

LEMMA WindowIs ==
  /\ engine \in Engines => Window = WindowOf(engine)
  /\ engine' \in Engines => Window' = WindowOf(engine')
<1>1. ASSUME engine \in Engines PROVE Window = WindowOf(engine)
  BY <1>1, WindowRead DEF Window, Held
<1>2. ASSUME engine' \in Engines PROVE Window' = WindowOf(engine')
  BY <1>2, WindowRead DEF Window, Held
<1> QED
  BY <1>1, <1>2

(* A pause fades what is remembered. *)
Faded(x, late) == IF late THEN x \div 2 ELSE x

LEMMA FadedRings ==
  ASSUME VpinInv, NEW late \in BOOLEAN, resets = 0
  PROVE  LET w == WindowOf(engine)
             s == ScoresOf(engine)
             b == Before(late)
         IN /\ [i \in DOMAIN w |-> [w[i] EXCEPT !.flow = Faded(@, late)]] = WindowOf(b)
            /\ [i \in DOMAIN s |-> Faded(s[i], late)] = ScoresOf(b)
<1> DEFINE w == WindowOf(engine)
           s == ScoresOf(engine)
           b == Before(late)
           fw == [i \in DOMAIN w |-> [w[i] EXCEPT !.flow = Faded(@, late)]]
           fs == [i \in DOMAIN s |-> Faded(s[i], late)]
<1>1. /\ engine \in Engines /\ ScoresInFront(engine) /\ b \in Engines /\ ScoresInFront(b)
  BY BeforeFields DEF VpinInv
<1>2. /\ \A t \in Turns : b.flows[t] = Faded(engine.flows[t], late) /\ b.prices[t] = engine.prices[t]
      /\ \A t \in Laps : b.vpins[t] = Faded(engine.vpins[t], late)
      /\ b.index = engine.index /\ b.filled = engine.filled
      /\ b.zIndex = engine.zIndex /\ b.zCount = engine.zCount
  <2>1. engine.flows \in [Turns -> Nat] /\ engine.vpins \in [Laps -> Scores]
    BY <1>1 DEF Engines
  <2>2. CASE late
    <3>1. b = Decayed(engine)
      BY <2>2 DEF Before
    <3>2. /\ b.flows = Halved(engine.flows) /\ b.vpins = Halved(engine.vpins) /\ b.prices = engine.prices
          /\ b.index = engine.index /\ b.filled = engine.filled
          /\ b.zIndex = engine.zIndex /\ b.zCount = engine.zCount
      BY <1>1, <3>1, DecayedFields
    <3>3. /\ \A t \in Turns : b.flows[t] = engine.flows[t] \div 2
          /\ \A t \in Laps : b.vpins[t] = engine.vpins[t] \div 2
      BY <2>1, <3>2 DEF Halved
    <3> QED
      BY <2>2, <3>2, <3>3 DEF Faded
  <2>3. CASE ~late
    BY <2>3 DEF Before, Faded
  <2> QED
    BY <2>2, <2>3
<1>3. /\ Held(b) = Held(engine)
      /\ \A i : TurnAt(b, i) = TurnAt(engine, i) /\ LapAt(b, i) = LapAt(engine, i)
  BY <1>2 DEF Held, TurnAt, LapAt
<1> HIDE DEF b, w, s
<1>4. /\ WindowOf(b) \in [1 .. Held(b) -> Entries]
      /\ \A i \in 1 .. Held(b) :
           /\ TurnAt(b, i) \in Turns
           /\ WindowOf(b)[i] = [flow |-> b.flows[TurnAt(b, i)], price |-> b.prices[TurnAt(b, i)]]
  BY <1>1, WindowEntries
<1>5. /\ w \in [1 .. Held(engine) -> Entries]
      /\ \A i \in 1 .. Held(engine) :
           /\ w[i] = [flow |-> engine.flows[TurnAt(engine, i)], price |-> engine.prices[TurnAt(engine, i)]]
  BY <1>1, WindowEntries DEF w
<1>6. \A i \in 1 .. Held(engine) : [w[i] EXCEPT !.flow = Faded(@, late)] = WindowOf(b)[i]
  <2> SUFFICES ASSUME NEW i \in 1 .. Held(engine)
               PROVE  [w[i] EXCEPT !.flow = Faded(@, late)] = WindowOf(b)[i]
    OBVIOUS
  <2> DEFINE t == TurnAt(engine, i)
             x == engine.flows[t]
             y == engine.prices[t]
  <2>1. w[i] = [flow |-> x, price |-> y]
    BY <1>5
  <2>2. WindowOf(b)[i] = [flow |-> Faded(x, late), price |-> y]
    BY <1>2, <1>3, <1>4
  <2> HIDE DEF t, x, y
  <2> QED
    BY <2>1, <2>2
<1>7. fw = WindowOf(b)
  BY <1>3, <1>4, <1>5, <1>6
<1>8. /\ ScoresOf(b) \in [1 .. b.zCount -> Scores]
      /\ \A i \in 1 .. b.zCount : LapAt(b, i) \in Laps /\ ScoresOf(b)[i] = b.vpins[LapAt(b, i)]
  BY <1>1, ScoreEntries
<1>9. /\ s \in [1 .. engine.zCount -> Scores]
      /\ \A i \in 1 .. engine.zCount : s[i] = engine.vpins[LapAt(engine, i)]
  BY <1>1, ScoreEntries DEF s
<1>10. fs = ScoresOf(b)
  BY <1>2, <1>3, <1>8, <1>9
<1> QED
  BY <1>7, <1>10 DEF w, s, b

(* The bar enters the window. *)
LEMMA WindowStep ==
  ASSUME NEW e \in Engines, NEW bar \in Bars
  PROVE  LET st == Stored(e, bar)
         IN /\ Sliding!Last(Append(WindowOf(e), [flow |-> FlowOf(bar), price |-> bar.close]), WindowSize)
                 = WindowOf(st)
            /\ WindowOf(st) \in Seq(Entries) /\ Len(WindowOf(st)) = Held(st)
            /\ Held(st) \in Nat /\ (Held(st) < WindowSize <=> ~st.filled)
<1> DEFINE st == Stored(e, bar)
           new == [flow |-> FlowOf(bar), price |-> bar.close]
           more == IF Held(e) < WindowSize THEN Held(e) + 1 ELSE Held(e)
<1>1. new \in Entries
  BY StoredFields DEF Entries
<1>3. st \in Engines /\ st.index = (e.index + 1) % WindowSize
      /\ st.filled = (e.filled \/ e.index + 1 = WindowSize)
  BY StoredFields
<1>4. Bars2(st) = [Bars2(e) EXCEPT ![e.index] = new]
  <2>1. /\ st.flows = [e.flows EXCEPT ![e.index] = FlowOf(bar)]
        /\ st.prices = [e.prices EXCEPT ![e.index] = bar.close]
        /\ e.flows \in [Turns -> Nat] /\ e.prices \in [Turns -> Nat] /\ e.index \in Turns
    BY StoredFields DEF Engines
  <2> HIDE DEF st, Engines
  <2> QED
    BY <2>1 DEF Bars2
<1>5. Held(st) = more
  <2>1. e.index \in 0 .. WindowSize - 1 /\ e.filled \in BOOLEAN
    BY DEF Engines, Turns
  <2>2. (e.index + 1) % WindowSize = IF e.index + 1 = WindowSize THEN 0 ELSE e.index + 1
    BY <2>1, Sizes, NextTurn
  <2>3. st.filled <=> e.filled \/ e.index + 1 = WindowSize
    BY <1>3
  <2>4. st.index = IF e.index + 1 = WindowSize THEN 0 ELSE e.index + 1
    BY <1>3, <2>2
  <2> HIDE DEF st
  <2>5. CASE e.filled
    BY <2>3, <2>5, Sizes DEF Held
  <2>6. CASE ~e.filled
    BY <2>1, <2>3, <2>4, <2>6, Sizes DEF Held
  <2> QED
    BY <2>5, <2>6
<1>6. WindowOf(st) = Sliding!Last(Append(WindowOf(e), new), WindowSize)
  <2>1. /\ Bars2(e) \in [0 .. WindowSize - 1 -> Entries]
        /\ e.index \in 0 .. WindowSize - 1 /\ Held(e) \in 0 .. WindowSize
        /\ Held(e) < WindowSize => e.index = Held(e)
        /\ WindowSize \in Nat \ {0}
    BY RingShape
  <2> DEFINE r == Bars2(e)
             r2 == Bars2(st)
             n == Held(e)
             i == e.index
             m == Held(st)
             i2 == st.index
  <2>2. /\ r \in [0 .. WindowSize - 1 -> Entries] /\ i \in 0 .. WindowSize - 1
        /\ n \in 0 .. WindowSize /\ (n < WindowSize => i = n) /\ WindowSize \in Nat \ {0}
    BY <2>1
  <2>3. i2 = (i + 1) % WindowSize /\ m = (IF n < WindowSize THEN n + 1 ELSE n)
    BY <1>3, <1>5
  <2>4. /\ r2 \in [0 .. WindowSize - 1 -> Entries]
        /\ \A j \in 0 .. WindowSize - 1 : r2[j] = IF j = i THEN new ELSE r[j]
    <3> HIDE DEF st, new
    <3> QED
      BY <1>1, <1>4, <2>1
  <2> HIDE DEF st, new, r, r2, n, i, m, i2
  <2>5. Unrolled(r2, i2, m, WindowSize) = Sliding!Last(Append(Unrolled(r, i, n, WindowSize), new), WindowSize)
    BY <1>1, <2>2, <2>3, <2>4, RingPush
  <2> QED
    BY <2>5 DEF WindowOf, r, r2, n, i, m, i2
<1> HIDE DEF st
<1>7. WindowOf(st) \in [1 .. Held(st) -> Entries] /\ Held(st) \in 0 .. WindowSize
  BY <1>3, WindowEntries, RingShape
<1>8. WindowOf(st) \in Seq(Entries) /\ Len(WindowOf(st)) = Held(st) /\ Held(st) \in Nat
  BY <1>7, Sizes
<1>9. Held(st) < WindowSize <=> ~st.filled
  <2>1. st.index \in 0 .. WindowSize - 1
    BY <1>3, RingShape
  <2> QED
    BY <2>1, Sizes DEF Held
<1> QED
  BY <1>6, <1>8, <1>9 DEF st

(* The score enters the scores. *)
LEMMA ScoreStep ==
  ASSUME NEW e \in Engines, ScoresInFront(e)
  PROVE  /\ Sliding!Last(Append(ScoresOf(e), Vpin(e)), HistorySize) = ScoresOf(Scored(e))
         /\ Scored(e).zCount \in 1 .. HistorySize
<1> DEFINE sc == Scored(e)
           v == Vpin(e)
           n2 == IF e.zCount < HistorySize THEN e.zCount + 1 ELSE e.zCount
<1>1. v \in Scores
  BY VpinIsScore
<1>2. e.zCount < HistorySize => e.zIndex = e.zCount
  BY DEF ScoresInFront
<1> HIDE DEF v
<1>4. /\ sc.vpins = [e.vpins EXCEPT ![e.zIndex] = v] /\ sc.zIndex = (e.zIndex + 1) % HistorySize
      /\ sc.zCount = n2
  BY ScoredFields DEF v
<1>5. n2 \in 1 .. HistorySize
  BY RingShape
<1> HIDE DEF sc
<1>6. ScoresOf(sc) = Sliding!Last(Append(ScoresOf(e), v), HistorySize)
  <2>1. /\ e.vpins \in [0 .. HistorySize - 1 -> Scores] /\ HistorySize \in Nat \ {0}
        /\ e.zIndex \in 0 .. HistorySize - 1 /\ e.zCount \in 0 .. HistorySize
    BY RingShape
  <2>2. /\ sc.vpins \in [0 .. HistorySize - 1 -> Scores]
        /\ \A j \in 0 .. HistorySize - 1 : sc.vpins[j] = IF j = e.zIndex THEN v ELSE e.vpins[j]
    BY <1>1, <1>4, <2>1
  <2> DEFINE r == e.vpins
             r2 == sc.vpins
             n == e.zCount
             i == e.zIndex
             m == sc.zCount
             i2 == sc.zIndex
  <2>3. /\ r \in [0 .. HistorySize - 1 -> Scores] /\ i \in 0 .. HistorySize - 1
        /\ n \in 0 .. HistorySize /\ (n < HistorySize => i = n) /\ HistorySize \in Nat \ {0}
        /\ i2 = (i + 1) % HistorySize /\ m = (IF n < HistorySize THEN n + 1 ELSE n)
    BY <1>2, <1>4, <2>1
  <2>4. /\ r2 \in [0 .. HistorySize - 1 -> Scores]
        /\ \A j \in 0 .. HistorySize - 1 : r2[j] = IF j = i THEN v ELSE r[j]
    BY <2>2
  <2> HIDE DEF r, r2, n, i, m, i2
  <2>5. Unrolled(r2, i2, m, HistorySize) = Sliding!Last(Append(Unrolled(r, i, n, HistorySize), v), HistorySize)
    BY <1>1, <2>3, <2>4, RingPush
  <2> QED
    BY <2>5 DEF ScoresOf, r, r2, n, i, m, i2
<1> QED
  BY <1>4, <1>5, <1>6 DEF sc, v

(* The VPIN of a full ring is the score of the window. *)
LEMMA ShareIsVpin ==
  ASSUME NEW e \in Engines, Match(e), e.filled
  PROVE  LET w == WindowOf(e)
         IN Sliding!Share([i \in DOMAIN w |-> w[i].flow]) = Vpin(e)
<1> DEFINE w == WindowOf(e)
           f == [i \in DOMAIN w |-> w[i].flow]
           u == Unrolled(e.flows, e.index, WindowSize, WindowSize)
<1>1. Held(e) = WindowSize
  BY DEF Held
<1>2. /\ w \in [1 .. WindowSize -> Entries]
      /\ \A i \in 1 .. WindowSize : w[i].flow = e.flows[TurnAt(e, i)]
  <2>1. /\ w \in [1 .. WindowSize -> Entries]
        /\ \A i \in 1 .. WindowSize :
             w[i] = [flow |-> e.flows[TurnAt(e, i)], price |-> e.prices[TurnAt(e, i)]]
    BY <1>1, WindowEntries
  <2> HIDE DEF w
  <2> QED
    BY <2>1
<1>3. \A i \in 1 .. WindowSize : u[i] = e.flows[TurnAt(e, i)]
  BY <1>1 DEF Unrolled, TurnAt
<1>4. u = [i \in 1 .. WindowSize |-> u[i]]
  BY DEF Unrolled
<1> HIDE DEF w, u
<1>5. f = u /\ DOMAIN f = 1 .. WindowSize
  BY <1>2, <1>3, <1>4
<1>6. e.flows \in [0 .. WindowSize - 1 -> Nat] /\ e.index \in 0 .. WindowSize - 1
      /\ WindowSize \in Nat \ {0} /\ WindowSize \in 0 .. WindowSize
  BY Sizes DEF Engines, Turns
<1>7. SumOf(u, 1 .. WindowSize) = SumOf(e.flows, 0 .. WindowSize - 1)
  BY <1>6, SumOfRing DEF u
<1> HIDE DEF f
<1>8. Sliding!Sum(f) = e.flowSum
  <2>1. Sliding!Sum(f) = SumOf(f, DOMAIN f) /\ Sum(e.flows) = SumOf(e.flows, DOMAIN e.flows)
    BY SlidingSum, SumIsFinite
  <2>2. DOMAIN e.flows = 0 .. WindowSize - 1
    BY <1>6
  <2>3. e.flowSum = Sum(e.flows)
    BY DEF Match
  <2> QED
    BY <1>5, <1>7, <2>1, <2>2, <2>3
<1>9. e.flowSum \in Nat
  BY RingSums DEF Match
<1>10. Sliding!Share(f) = Vpin(e)
  BY <1>8, <1>9, Sizes DEF Sliding!Share, Vpin
<1> QED
  BY <1>10 DEF f, w

(* The sums of the scores are those of the ring. *)
LEMMA ScoreSums ==
  ASSUME NEW e \in Engines, Match(e), ScoresInFront(e)
  PROVE  LET s == ScoresOf(e)
             D == 1 .. e.zCount
         IN /\ s \in [D -> Nat] /\ IsFiniteSet(D) /\ Cardinality(D) = e.zCount
            /\ SumOf(s, D) = e.vpinSum
            /\ SumOf([i \in D |-> s[i] * s[i]], D) = e.vpinSqSum
<1> DEFINE s == ScoresOf(e)
           D == 1 .. e.zCount
           n == e.zCount
           sq == Squares(e.vpins)
<1>1. /\ e.zIndex \in 0 .. HistorySize - 1 /\ n \in 0 .. HistorySize /\ HistorySize \in Nat \ {0}
      /\ (n < HistorySize => e.zIndex = n)
      /\ \A i \in n .. HistorySize - 1 : n < HistorySize => e.vpins[i] = 0
  BY RingShape DEF ScoresInFront, Laps
<1>2. e.vpins \in [0 .. HistorySize - 1 -> Nat] /\ sq \in [0 .. HistorySize - 1 -> Nat]
  BY RingSums DEF Laps
<1>3. s \in [D -> Nat]
  BY ScoreEntries, Sizes DEF Scores
<1>4. IsFiniteSet(D) /\ Cardinality(D) = n
  <2>1. n \in Int /\ 1 \in Int
    BY <1>1
  <2>2. IsFiniteSet(1 .. n) /\ Cardinality(1 .. n) = IF 1 > n THEN 0 ELSE n - 1 + 1
    BY <2>1, FS_Interval
  <2> QED
    BY <1>1, <2>2
<1>5. SumOf(s, D) = SumOf(e.vpins, 0 .. HistorySize - 1)
  BY <1>1, <1>2, SumOfRing DEF ScoresOf
<1>6. SumOf(Unrolled(sq, e.zIndex, n, HistorySize), D) = SumOf(sq, 0 .. HistorySize - 1)
  <2>1. \A i \in n .. HistorySize - 1 : n < HistorySize => sq[i] = 0
    BY <1>1, <1>2 DEF Squares
  <2> HIDE DEF sq
  <2> QED
    BY <1>1, <1>2, <2>1, SumOfRing
<1>7. Unrolled(sq, e.zIndex, n, HistorySize) = [i \in D |-> s[i] * s[i]]
  <2>1. \A i \in D : LapAt(e, i) \in Laps /\ s[i] = e.vpins[LapAt(e, i)]
    BY ScoreEntries
  <2>2. \A i \in D : sq[LapAt(e, i)] = s[i] * s[i]
    BY <1>2, <2>1 DEF Squares, Laps
  <2>3. Unrolled(sq, e.zIndex, n, HistorySize) = [i \in D |-> sq[LapAt(e, i)]]
    BY DEF Unrolled, LapAt
  <2> HIDE DEF s, sq, D
  <2> QED
    BY <2>2, <2>3
<1>8. Sum(e.vpins) = SumOf(e.vpins, 0 .. HistorySize - 1) /\ Sum(sq) = SumOf(sq, 0 .. HistorySize - 1)
  <2> HIDE DEF sq
  <2> QED
    BY <1>2, SumIsFinite
<1> QED
  BY <1>3, <1>4, <1>5, <1>6, <1>7, <1>8 DEF Match

(* A positive factor does not matter. *)
LEMMA Cancels ==
  ASSUME NEW n \in Nat \ {0}, NEW a \in Int, NEW b \in Int
  PROVE  n * a > n * b <=> a > b
<1>1. ASSUME a > b PROVE n * a > n * b
  BY <1>1
<1>2. ASSUME a <= b PROVE n * a <= n * b
  BY <1>2
<1> QED
  BY <1>1, <1>2

(* A score stands out exactly if the engine says so. *)
LEMMA StandsOutIsAnomaly ==
  ASSUME NEW e \in Engines, Match(e), ScoresInFront(e), e.zCount \in Nat \ {0}, NEW v \in Nat
  PROVE  Sliding!StandsOut(v, ScoresOf(e)) <=> Anomaly(e, v)
<1> DEFINE s == ScoresOf(e)
           D == 1 .. e.zCount
           n == e.zCount
           t == e.vpinSum
           q == e.vpinSqSum
           dev == [i \in D |-> (n * s[i] - t) * (n * s[i] - t)]
           rise == n * v - t
           spread == n * q - t * t
<1>1. /\ s \in [D -> Nat] /\ IsFiniteSet(D) /\ Cardinality(D) = n
      /\ SumOf(s, D) = t /\ SumOf([i \in D |-> s[i] * s[i]], D) = q
  BY ScoreSums
<1>2. Len(s) = n /\ DOMAIN s = D
  BY <1>1
<1>3. Sliding!Sum(s) = t
  BY <1>1, <1>2, SlidingSum
<1>4. Sliding!Sum(dev) = SumOf(dev, D)
  <2>1. DOMAIN dev = D
    OBVIOUS
  <2> HIDE DEF dev
  <2> QED
    BY <2>1, SlidingSum
<1> HIDE DEF s, D, n, t, q
<1>5. /\ n \in Nat /\ t \in Nat /\ SumOf(dev, D) \in Nat /\ q \in Nat
      /\ SumOf(dev, D) = n * spread
  BY <1>1, SumOfSquaredDeviations
<1>6. n # 0
  BY DEF n
<1>7. Sliding!StandsOut(v, s) <=> rise > 0 /\ n * rise * rise > ZSquare * SumOf(dev, D)
  BY <1>2, <1>3, <1>4 DEF Sliding!StandsOut
<1>8. Anomaly(e, v) <=> rise > 0 /\ rise * rise > ZSquare * (IF spread > 0 THEN spread ELSE 0)
  BY DEF Anomaly, n, t, q
<1>9. rise \in Int /\ spread \in Int /\ ZSquare \in Nat
  BY <1>5, EngineAssumption
<1> HIDE DEF rise, spread, dev
<1>10. spread >= 0
  <2>1. CASE spread < 0
    <3>1. n * spread < 0
      BY <1>5, <1>6, <1>9, <2>1
    <3> QED
      BY <1>5, <3>1
  <2> QED
    BY <1>9, <2>1
<1>11. (IF spread > 0 THEN spread ELSE 0) = spread
  BY <1>9, <1>10
<1>12. n * rise * rise = n * (rise * rise) /\ ZSquare * (n * spread) = n * (ZSquare * spread)
  BY <1>5, <1>9
<1>13. rise * rise \in Int /\ ZSquare * spread \in Int
  BY <1>9
<1>14. n * (rise * rise) > n * (ZSquare * spread) <=> rise * rise > ZSquare * spread
  BY <1>5, <1>6, <1>13, Cancels
<1> QED
  BY <1>5, <1>7, <1>8, <1>11, <1>12, <1>14 DEF s

(* Both say the same of a bar. *)
LEMMA VerdictIs ==
  ASSUME NEW bar \in Bars, NEW v, NEW a \in BOOLEAN, NEW b \in BOOLEAN, a <=> b, NEW oldest \in Nat
  PROVE  Sliding!Verdict(v, a, bar, oldest) =
           [ vpin |-> v, anomaly |-> b,
             direction |-> IF b THEN Direction(bar) ELSE "neutral",
             absorption |-> b /\ Absorbed(bar, oldest) ]
<1>1. bar.buy \in Nat /\ bar.sell \in Nat /\ bar.close \in Nat
  BY EngineAssumption
<1> DEFINE flow == bar.buy - bar.sell
           d == IF ~a \/ flow = 0 THEN "neutral" ELSE IF flow > 0 THEN "long" ELSE "short"
           d2 == IF b THEN Direction(bar) ELSE "neutral"
           p == a /\ (\/ flow > 0 /\ bar.close <= oldest
                      \/ flow < 0 /\ bar.close >= oldest)
           p2 == b /\ Absorbed(bar, oldest)
<1>2. a = b
  OBVIOUS
<1>3. d = d2
  BY <1>1, <1>2 DEF Direction
<1>4. p <=> p2
  BY <1>1, <1>2 DEF Absorbed, Direction
<1>5. p \in BOOLEAN /\ p2 \in BOOLEAN
  OBVIOUS
<1>6. Sliding!Verdict(v, a, bar, oldest) = [vpin |-> v, anomaly |-> a, direction |-> d, absorption |-> p]
  BY DEF Sliding!Verdict
<1> HIDE DEF p, p2, d, d2
<1>7. p = p2
  BY <1>4, <1>5
<1>8. Sliding!Verdict(v, a, bar, oldest) = [vpin |-> v, anomaly |-> b, direction |-> d2, absorption |-> p2]
  BY Zenon, <1>2, <1>3, <1>6, <1>7
<1> QED
  BY <1>8 DEF p2, d2

(* The price compared with is that of the oldest bar of the window. *)
LEMMA OldestIsFirst ==
  ASSUME NEW e \in Engines, e.filled
  PROVE  WindowOf(e)[1].price = OldestPrice(e) /\ OldestPrice(e) \in Nat
<1>1. Held(e) = WindowSize /\ 1 \in 1 .. Held(e)
  BY Sizes DEF Held
<1>2. e.index \in 0 .. WindowSize - 1 /\ WindowSize \in Nat \ {0} /\ e.index \in Turns
      /\ e.prices \in [Turns -> Nat]
  BY Sizes DEF Engines, Turns
<1>3. TurnAt(e, 1) = e.index
  <2>1. e.index + WindowSize - WindowSize + 1 - 1 = e.index
    BY <1>2
  <2>2. e.index % WindowSize = e.index
    <3>1. e.index \in 0 .. 2 * WindowSize - 1 /\ e.index < WindowSize
      BY <1>2
    <3> QED
      BY <1>2, <3>1, Wraps
  <2> QED
    BY <1>1, <2>1, <2>2 DEF TurnAt
<1>4. WindowOf(e)[1] = [flow |-> e.flows[TurnAt(e, 1)], price |-> e.prices[TurnAt(e, 1)]]
  BY <1>1, WindowEntries
<1> QED
  BY <1>2, <1>3, <1>4 DEF OldestPrice

ScoresRead == Unrolled(engine.vpins, engine.zIndex, engine.zCount, HistorySize)

(* A bar is a bar. *)
LEMMA BarIsBar ==
  ASSUME VpinInv, resets = 0, NEW bar \in Bars, NEW late \in BOOLEAN, ProcessBar(bar, late)
  PROVE  Sliding!Bar(bar, late)
<1> DEFINE w == WindowOf(engine)
           s == ScoresOf(engine)
           b == Before(late)
           st == Stored(b, bar)
           sc == Scored(st)
           kept == [i \in DOMAIN w |-> [w[i] EXCEPT !.flow = Faded(@, late)]]
           entry == [flow |-> Sliding!Abs(bar.buy - bar.sell), price |-> bar.close]
           now == Sliding!Last(Append(kept, entry), WindowSize)
           past == [i \in DOMAIN s |-> Faded(s[i], late)]
           score == Sliding!Share([i \in DOMAIN now |-> now[i].flow])
           seen == Sliding!Last(Append(past, score), HistorySize)
<1>1. /\ engine \in Engines /\ b \in Engines /\ Match(b) /\ ScoresInFront(engine) /\ ScoresInFront(b)
      /\ rebased
  BY BeforeFields DEF VpinInv
<1>2. /\ st \in Engines /\ sc \in Engines /\ Match(st) /\ Match(sc)
      /\ engine' = (IF st.filled THEN Rebuilt(sc) ELSE st)
      /\ engine' \in Engines /\ resets' = 0
  BY <1>1, BarStep
<1>3. Window = w /\ Window' = WindowOf(engine')
  BY <1>1, <1>2, WindowIs
<1>4. ScoresRead = s /\ ScoresRead' = ScoresOf(engine')
  BY DEF ScoresRead, ScoresOf
<1>5. kept = WindowOf(b) /\ past = ScoresOf(b)
  BY FadedRings
<1>6. entry = [flow |-> FlowOf(bar), price |-> bar.close]
  <2>1. bar.buy \in Nat /\ bar.sell \in Nat
    BY EngineAssumption
  <2> QED
    BY <2>1 DEF Sliding!Abs, FlowOf
<1>7. now = WindowOf(st) /\ (Len(now) < WindowSize <=> ~st.filled)
  <2> HIDE DEF kept, entry, b
  <2> QED
    BY <1>1, <1>5, <1>6, WindowStep
<1>8. ScoresInFront(st) /\ st.vpins = b.vpins /\ st.zIndex = b.zIndex /\ st.zCount = b.zCount
  <2>1. st.vpins = b.vpins /\ st.zIndex = b.zIndex /\ st.zCount = b.zCount
    BY <1>1, StoredFields
  <2> HIDE DEF st, b
  <2> QED
    BY <1>1, <2>1 DEF ScoresInFront
<1>9. past = ScoresOf(st)
  BY <1>5, <1>8 DEF ScoresOf
<1>10. Sliding!Bar(bar, late) <=>
         /\ (resets' = 0) = (resets = 0)
         /\ Window' = Sliding!Last(Append([i \in DOMAIN Window |-> [Window[i] EXCEPT !.flow = Faded(@, late)]], entry), WindowSize)
         /\ IF Len(now) < WindowSize
            THEN ScoresRead' = past /\ signal' = "warmup"
            ELSE /\ ScoresRead' = seen
                 /\ signal' = Sliding!Verdict(score, Sliding!StandsOut(score, seen), bar, now[1].price)
  BY <1>3, <1>4 DEF Sliding!Bar, Sliding!Silent, Faded, ScoresRead
<1>11. CASE ~st.filled
  <2>1. engine' = st /\ signal' = None
    BY <1>2, <1>11 DEF ProcessBar, Before
  <2>2. Window' = now /\ ScoresRead' = past
    BY <1>3, <1>4, <1>7, <1>9, <2>1
  <2> QED
    BY <1>2, <1>3, <1>7, <1>10, <1>11, <2>1, <2>2 DEF None
<1>12. CASE st.filled
  <2>1. engine' = Rebuilt(sc)
    BY <1>2, <1>12
  <2>2. signal' = [ vpin |-> Vpin(st),
                    anomaly |-> Anomaly(sc, Vpin(st)),
                    direction |-> IF Anomaly(sc, Vpin(st)) THEN Direction(bar) ELSE "neutral",
                    absorption |-> Anomaly(sc, Vpin(st)) /\ Absorbed(bar, OldestPrice(st)) ]
    BY <1>12 DEF ProcessBar, Before
  <2>3. score = Vpin(st)
    BY <1>2, <1>7, <1>12, ShareIsVpin
  <2>4. seen = ScoresOf(sc) /\ sc.zCount \in 1 .. HistorySize /\ ScoresInFront(sc)
    BY <1>2, <1>8, <1>9, <2>3, ScoreStep, ScoresStayInFront
  <2>5. Sliding!StandsOut(score, seen) <=> Anomaly(sc, Vpin(st))
    <3>1. Vpin(st) \in Nat
      BY <1>2, VpinIsScore, Sizes DEF Scores
    <3>2. sc.zCount \in Nat \ {0}
      BY <2>4
    <3> HIDE DEF sc, st, score, seen
    <3> QED
      BY <1>2, <2>3, <2>4, <3>1, <3>2, StandsOutIsAnomaly
  <2>6. now[1].price = OldestPrice(st) /\ OldestPrice(st) \in Nat
    BY <1>2, <1>7, <1>12, OldestIsFirst
  <2>7. Anomaly(sc, Vpin(st)) \in BOOLEAN /\ Sliding!StandsOut(score, seen) \in BOOLEAN
    BY DEF Anomaly, Sliding!StandsOut
  <2>8. signal' = Sliding!Verdict(score, Sliding!StandsOut(score, seen), bar, now[1].price)
    <3> HIDE DEF sc, st, score, seen, now
    <3> QED
      BY <2>2, <2>3, <2>5, <2>6, <2>7, VerdictIs
  <2>9. Window' = now /\ ScoresRead' = seen
    <3>1. /\ sc.flows = st.flows /\ sc.prices = st.prices /\ sc.index = st.index /\ sc.filled = st.filled
      BY <1>2, ScoredFields
    <3>2. /\ Rebuilt(sc).flows = sc.flows /\ Rebuilt(sc).prices = sc.prices
          /\ Rebuilt(sc).vpins = sc.vpins /\ Rebuilt(sc).index = sc.index
          /\ Rebuilt(sc).filled = sc.filled /\ Rebuilt(sc).zIndex = sc.zIndex
          /\ Rebuilt(sc).zCount = sc.zCount
      BY <1>2, RebuiltFields
    <3> HIDE DEF sc, st, now, seen
    <3>3. WindowOf(Rebuilt(sc)) = WindowOf(st) /\ ScoresOf(Rebuilt(sc)) = ScoresOf(sc)
      BY <3>1, <3>2 DEF WindowOf, ScoresOf, Bars2, Held
    <3> QED
      BY <1>3, <1>4, <1>7, <2>1, <2>4, <3>3
  <2> HIDE DEF sc, st, score, seen, past, now
  <2>10. ~(Len(now) < WindowSize)
    BY <1>7, <1>12
  <2>11. Window' = Sliding!Last(Append([i \in DOMAIN Window |-> [Window[i] EXCEPT !.flow = Faded(@, late)]], entry), WindowSize)
    BY <1>3, <2>9 DEF now, kept
  <2> QED
    BY <1>2, <1>10, <2>8, <2>9, <2>10, <2>11
<1> QED
  BY <1>11, <1>12

LEMMA SlidingStep ==
  ASSUME VpinInv, [Next]_vars
  PROVE  [Sliding!Next]_(Sliding!vars)
<1>1. CASE Reset
  <2>1. resets \in Nat /\ resets' = resets + 1
    BY <1>1, EngineAssumption DEF VpinInv, Reset
  <2>2. Sliding!Reset
    BY <2>1 DEF Sliding!Reset
  <2> QED
    BY <2>2 DEF Sliding!Next
<1>2. ASSUME NEW bar \in Bars, NEW late \in BOOLEAN, ProcessBar(bar, late)
      PROVE  Sliding!Next
  <2>1. CASE resets = 0
    BY <1>2, <2>1, BarIsBar DEF Sliding!Next
  <2>2. CASE resets # 0
    <3>1. Sliding!Reset
      BY <1>2, <2>2 DEF ProcessBar, Sliding!Reset
    <3> QED
      BY <3>1 DEF Sliding!Next
  <2> QED
    BY <2>1, <2>2
<1>3. CASE UNCHANGED vars
  <2>1. UNCHANGED Window
    BY <1>3 DEF vars, Window
  <2> QED
    BY <1>3, <2>1 DEF vars, Sliding!vars
<1> QED
  BY <1>1, <1>2, <1>3 DEF Next

(* The engine, with its rings, its running sums and its rebuilds, gives    *)
(* the verdicts of the sliding window.                                     *)
THEOREM VpinImplementsSliding == Spec => ImplementsSliding
<1>1. Init => Sliding!Init
  <2> SUFFICES ASSUME Init PROVE Sliding!Init
    OBVIOUS
  <2>1. engine = Fresh /\ Fresh.filled = FALSE /\ Fresh.index = 0 /\ Fresh.zIndex = 0 /\ Fresh.zCount = 0
    BY DEF Init, Fresh
  <2>2. Window = <<>>
    BY <2>1 DEF Window
  <2>3. Unrolled(engine.vpins, engine.zIndex, engine.zCount, HistorySize) = <<>>
    BY <2>1 DEF Unrolled
  <2> QED
    BY <2>2, <2>3 DEF Init, Sliding!Init, Sliding!Silent, None
<1> QED
  BY <1>1, VpinInvHolds, SlidingStep, PTL DEF Spec, Sliding!Spec, ImplementsSliding

-----------------------------------------------------------------------------
(***************************************************************************)
(* BybitFeed.                                                              *)
(***************************************************************************)

Frames == [symbol : Symbols, type : {"snapshot", "delta"}, hole : BOOLEAN]

LEMMA TypeInit == FeedInit => FeedTypeOK
<1> SUFFICES ASSUME FeedInit PROVE FeedTypeOK
  OBVIOUS
<1>1. 0 \in 0..MaxFaults
  BY FeedAssumption
<1>2. queue \in Seq(Frames) /\ Len(queue) = 0
  BY DEF FeedInit
<1>3. 0 <= QueueSize
  BY FeedAssumption
<1> QED
  BY <1>1, <1>2, <1>3 DEF FeedInit, FeedTypeOK, Frames, Nothing, NoGuards

(* A fault is counted up to its bound. *)
LEMMA FaultsStay ==
  ASSUME faults \in 0..MaxFaults, Fault \/ UNCHANGED faults
  PROVE  faults' \in 0..MaxFaults
BY FeedAssumption DEF Fault

LEMMA FrameType ==
  ASSUME FeedTypeOK, NEW s \in Symbols, Frame(s)
  PROVE  FeedTypeOK'
<1> DEFINE f == [symbol |-> s, type |-> Type(s), hole |-> Type(s) = "delta" /\ s \in hole]
<1>1. Type(s) \in {"snapshot", "delta"}
  BY DEF Type
<1>2. (Type(s) = "delta" /\ s \in hole) \in BOOLEAN
  OBVIOUS
<1>3. f \in Frames
  BY <1>1, <1>2 DEF Frames
<1> HIDE DEF f
<1>4. queue \in Seq(Frames) /\ Len(queue) < QueueSize /\ queue' = Append(queue, f)
  BY DEF FeedTypeOK, Frames, Frame, f
<1>5. queue' \in Seq(Frames) /\ Len(queue') <= QueueSize
  BY <1>3, <1>4, FeedAssumption
<1>6. served' \in [Symbols -> {"nothing", "snapshot", "deltas"}] /\ hole' \subseteq Symbols
  BY DEF Frame, FeedTypeOK
<1> QED
  BY <1>5, <1>6 DEF Frame, FeedTypeOK, Frames, client, socket

(* The drain looks at the frame in front. *)
LEMMA HeadIsFrame ==
  ASSUME FeedTypeOK, queue # <<>>
  PROVE  Head(queue) \in Frames /\ Tail(queue) \in Seq(Frames)
         /\ Len(Tail(queue)) = Len(queue) - 1
<1>1. queue \in Seq(Frames)
  BY DEF FeedTypeOK, Frames
<1> HIDE DEF Frames
<1>2. Len(queue) \in Nat \ {0} /\ Head(queue) = queue[1]
  BY <1>1
<1> QED
  BY <1>1, <1>2

(* A kill, begun or ended, leaves the socket and the guards well typed. *)
LEMMA KillType ==
  ASSUME FeedTypeOK, UNCHANGED pc,
         NEW task \in {"drain", "watchdog"}, NEW guards \in [Symbols -> {"none", "unsynced", "synced"}],
         Kill(task, guards)
  PROVE  /\ link' \in {"none", "live", "half"} /\ held' \in BOOLEAN
         /\ pc' \notin {"hello", "read"} => link' = "none" /\ ~held'
         /\ closing' \subseteq {"drain", "watchdog"}
         /\ guard' \in [Symbols -> {"none", "unsynced", "synced"}]
<1>1. CASE KillBegins(task, guards)
  BY <1>1 DEF KillBegins, FeedTypeOK
<1>2. CASE KillAtOnce
  BY <1>2 DEF KillAtOnce, FeedTypeOK, NoGuards
<1> QED
  BY <1>1, <1>2 DEF Kill

LEMMA HandleType ==
  ASSUME FeedTypeOK, Handle
  PROVE  FeedTypeOK'
<1> DEFINE f == Head(queue)
           s == f.symbol
<1>1. queue # <<>> /\ ~delivering /\ UNCHANGED <<client, exchange, bboOnly, faults>>
  BY DEF Handle
<1>2. f \in Frames /\ s \in Symbols
  BY <1>1, HeadIsFrame DEF Frames
<1>3. CASE Valid(f)
  <2>1. guard' = [guard EXCEPT ![s] = "synced"] /\ delivering' = TRUE /\ UNCHANGED <<socket, queue, book>>
    BY <1>3 DEF Handle
  <2> QED
    BY <1>1, <1>2, <2>1 DEF FeedTypeOK, client, exchange, socket
<1>4. CASE ~Valid(f)
  <2>1. /\ Kill("drain", [guard EXCEPT ![s] = "unsynced"])
        /\ queue' = Tail(queue) /\ book' = [book EXCEPT ![s] = "missed"] /\ UNCHANGED delivering
    BY <1>4 DEF Handle
  <2>2. queue' \in Seq(Frames) /\ Len(queue') <= QueueSize
    BY <1>1, <2>1, HeadIsFrame, FeedAssumption DEF FeedTypeOK
  <2>3. book' \in [Symbols -> {"none", "exact", "missed", "refused"}]
    BY <1>2, <2>1 DEF FeedTypeOK
  <2>4. [guard EXCEPT ![s] = "unsynced"] \in [Symbols -> {"none", "unsynced", "synced"}]
    BY <1>2 DEF FeedTypeOK
  <2>5. UNCHANGED pc
    BY <1>1 DEF client
  <2>6. /\ link' \in {"none", "live", "half"} /\ held' \in BOOLEAN
        /\ pc' \notin {"hello", "read"} => link' = "none" /\ ~held'
        /\ closing' \subseteq {"drain", "watchdog"}
        /\ guard' \in [Symbols -> {"none", "unsynced", "synced"}]
    BY <2>1, <2>4, <2>5, KillType
  <2> QED
    BY <1>1, <2>1, <2>2, <2>3, <2>6 DEF FeedTypeOK, Frames, client, exchange
<1> QED
  BY <1>3, <1>4

LEMMA DeliveredType ==
  ASSUME FeedTypeOK, NEW raised \in BOOLEAN, Delivered(raised)
  PROVE  FeedTypeOK'
<1>1. queue # <<>> /\ queue' = Tail(queue) /\ delivering' = FALSE
  BY DEF Delivered, FeedTypeOK
<1>2. queue' \in Seq(Frames) /\ Len(queue') <= QueueSize
  BY <1>1, HeadIsFrame, FeedAssumption DEF FeedTypeOK
<1>3. Head(queue).symbol \in Symbols
  BY <1>1, HeadIsFrame DEF Frames
<1>4. book' \in [Symbols -> {"none", "exact", "missed", "refused"}]
  BY <1>3 DEF Delivered, FeedTypeOK
<1> QED
  BY <1>1, <1>2, <1>4 DEF Delivered, FeedTypeOK, Frames, client, socket, exchange

(* The three ways the watchdog comes to a kill change nothing else. *)
WatchdogKills ==
  \/ WatchdogOfLive \/ WatchdogOfNothing \/ WatchdogOfDead

LEMMA WatchdogIs ==
  ASSUME WatchdogKills
  PROVE  /\ Kill("watchdog", guard) /\ (Fault \/ UNCHANGED faults)
         /\ UNCHANGED <<client, exchange, bboOnly, queue, delivering, book>>
BY DEF WatchdogKills, WatchdogOfLive, WatchdogOfNothing, WatchdogOfDead

LEMMA WatchdogType ==
  ASSUME FeedTypeOK, WatchdogKills
  PROVE  FeedTypeOK'
<1>1. faults' \in 0..MaxFaults
  BY WatchdogIs, FaultsStay DEF FeedTypeOK
<1>2. UNCHANGED pc /\ guard \in [Symbols -> {"none", "unsynced", "synced"}]
  BY WatchdogIs DEF client, FeedTypeOK
<1>3. /\ link' \in {"none", "live", "half"} /\ held' \in BOOLEAN
      /\ pc' \notin {"hello", "read"} => link' = "none" /\ ~held'
      /\ closing' \subseteq {"drain", "watchdog"}
      /\ guard' \in [Symbols -> {"none", "unsynced", "synced"}]
  BY <1>2, WatchdogIs, KillType
<1> QED
  BY <1>1, <1>3, WatchdogIs DEF FeedTypeOK, client, exchange

LEMMA TypeStep == FeedTypeOK /\ [FeedNext]_feedVars => FeedTypeOK'
<1> SUFFICES ASSUME FeedTypeOK, [FeedNext]_feedVars PROVE FeedTypeOK'
  OBVIOUS
<1> USE FaultsStay
<1>1. CASE Connected
  BY <1>1 DEF Connected, FeedTypeOK, drain, Nothing
<1>2. CASE Refused
  BY <1>2 DEF Refused, FeedTypeOK, GoOn, drain, exchange, socket
<1>3. CASE Subscribe
  BY <1>3 DEF Subscribe, FeedTypeOK, drain, socket
<1>4. CASE SocketGone
  BY <1>4 DEF SocketGone, FeedTypeOK, GoOn, drain, exchange
<1>5. CASE Wake
  BY <1>5 DEF Wake, FeedTypeOK, NoGuards, exchange, socket
<1>6. CASE \E s \in Symbols : Frame(s)
  BY <1>6, FrameType
<1>7. CASE \E s \in Symbols : FrameDropped(s)
  BY <1>7 DEF FrameDropped, FeedTypeOK, client, drain, socket
<1>8. CASE \E s \in Symbols : Skip(s)
  BY <1>8 DEF Skip, FeedTypeOK, client, drain, socket
<1>9. CASE Handle
  BY <1>9, HandleType
<1>10. CASE \E raised \in BOOLEAN : Delivered(raised)
  BY <1>10, DeliveredType
<1>11. CASE WatchdogKills
  BY <1>11, WatchdogType
<1>12. CASE \E task \in {"drain", "watchdog"} : KillEnds(task)
  <2>1. /\ closing' \subseteq closing /\ held' = FALSE /\ guard' = NoGuards
        /\ UNCHANGED <<client, link, exchange, bboOnly, queue, delivering, book, faults>>
    BY <1>12 DEF KillEnds
  <2> QED
    BY <2>1 DEF FeedTypeOK, client, exchange, NoGuards
<1>13. CASE Toggle
  BY <1>13 DEF Toggle, FeedTypeOK, client, exchange, drain, socket
<1>14. CASE Stop
  BY <1>14 DEF Stop, FeedTypeOK, exchange, drain
<1>15. CASE Lost
  BY <1>15 DEF Lost, FeedTypeOK, client, exchange, drain
<1>16. CASE Stall
  BY <1>16 DEF Stall, FeedTypeOK, client, exchange, drain
<1>17. CASE UNCHANGED feedVars
  BY <1>17 DEF feedVars, FeedTypeOK, client, exchange, drain, socket
<1> QED
  BY <1>1, <1>2, <1>3, <1>4, <1>5, <1>6, <1>7, <1>8, <1>9, <1>10, <1>11, <1>12,
     <1>13, <1>14, <1>15, <1>16, <1>17 DEF FeedNext, WatchdogKills

(* The feed keeps to its types, and its queue to its size. *)
THEOREM FeedTypeCorrect == FeedSpec => []FeedTypeOK
BY TypeInit, TypeStep, PTL DEF FeedSpec

(* A delta is handed over only when nothing is missing before it. *)
NoHoleInHand == delivering => Head(queue).type = "snapshot" \/ ~Head(queue).hole

(* Guard and book hold together while nothing is handled or handed over:   *)
(* the queue at most grows at its end, the guards at most go.              *)
Elsewhere ==
  /\ UNCHANGED <<delivering, book>> /\ (UNCHANGED guard \/ guard' = NoGuards)
  /\ queue # <<>> => Head(queue') = Head(queue)

LEMMA KeptElsewhere ==
  ASSUME FeedTypeOK, NoHoleInHand, SyncedMissesNothing, Elsewhere
  PROVE  NoHoleInHand' /\ SyncedMissesNothing'
<1>1. delivering => Head(queue') = Head(queue)
  BY DEF FeedTypeOK, Elsewhere
<1>2. NoHoleInHand'
  BY <1>1 DEF NoHoleInHand, Elsewhere
<1>3. ASSUME NEW s \in Symbols, guard'[s] = "synced"
      PROVE  book'[s] \in {"exact", "refused"} \/ SnapshotInHand(s)'
  <2>1. guard[s] = "synced"
    BY <1>3 DEF Elsewhere, NoGuards
  <2> QED
    BY <1>1, <2>1 DEF SyncedMissesNothing, SnapshotInHand, Elsewhere
<1> QED
  BY <1>2, <1>3 DEF SyncedMissesNothing

(* A frame is believed only if it is a snapshot, or a delta of a symbol    *)
(* in step with no hole before it; to be refused costs every guard.        *)
LEMMA BelievedIsWhole ==
  ASSUME FeedTypeOK, SyncedMissesNothing, Handle
  PROVE  NoHoleInHand' /\ SyncedMissesNothing'
<1> DEFINE f == Head(queue)
           s == f.symbol
<1>1. queue # <<>> /\ ~delivering /\ s \in Symbols /\ f.type \in {"snapshot", "delta"}
  BY HeadIsFrame DEF Handle, Frames
<1>2. guard \in [Symbols -> {"none", "unsynced", "synced"}]
      /\ book \in [Symbols -> {"none", "exact", "missed", "refused"}]
  BY DEF FeedTypeOK
<1>3. CASE Valid(f)
  <2>1. /\ guard' = [guard EXCEPT ![s] = "synced"] /\ delivering' = TRUE
        /\ queue' = queue /\ book' = book
    BY <1>3 DEF Handle
  <2>2. f.type = "snapshot" \/ (guard[s] = "synced" /\ ~f.hole)
    BY <1>3 DEF Valid
  <2>3. ASSUME NEW t \in Symbols, guard'[t] = "synced"
        PROVE  book'[t] \in {"exact", "refused"} \/ SnapshotInHand(t)'
    <3>1. CASE guard[t] = "synced"
      BY <1>1, <2>1, <3>1 DEF SyncedMissesNothing, SnapshotInHand
    <3>2. CASE guard[t] # "synced"
      <4>1. t = s /\ f.type = "snapshot"
        BY <1>1, <1>2, <2>1, <2>2, <2>3, <3>2
      <4> QED
        BY <2>1, <4>1 DEF SnapshotInHand
    <3> QED
      BY <3>1, <3>2
  <2> QED
    BY <2>1, <2>2, <2>3 DEF NoHoleInHand, SyncedMissesNothing
<1>4. CASE ~Valid(f)
  <2>1. /\ Kill("drain", [guard EXCEPT ![s] = "unsynced"])
        /\ book' = [book EXCEPT ![s] = "missed"] /\ ~delivering'
    BY <1>1, <1>4 DEF Handle
  <2>2. \A t \in Symbols : guard'[t] = "synced" => t # s /\ guard[t] = "synced"
    BY <1>1, <1>2, <2>1 DEF Kill, KillBegins, KillAtOnce, NoGuards
  <2> QED
    BY <1>1, <1>2, <2>1, <2>2 DEF NoHoleInHand, SyncedMissesNothing, SnapshotInHand
<1> QED
  BY <1>3, <1>4

(* What was in hand is in the book, or was refused. *)
LEMMA DeliveredIsKept ==
  ASSUME FeedTypeOK, NoHoleInHand, SyncedMissesNothing, NEW raised \in BOOLEAN, Delivered(raised)
  PROVE  NoHoleInHand' /\ SyncedMissesNothing'
<1> DEFINE f == Head(queue)
           s == f.symbol
           after == IF raised THEN "refused"
                    ELSE IF f.type = "snapshot" THEN "exact" ELSE IF f.hole THEN "missed" ELSE book[s]
<1>1. delivering /\ ~delivering' /\ guard' = guard /\ queue # <<>>
  BY DEF Delivered, FeedTypeOK
<1>2. s \in Symbols
  BY <1>1, HeadIsFrame DEF Frames
<1>3. book \in [Symbols -> {"none", "exact", "missed", "refused"}] /\ book' = [book EXCEPT ![s] = after]
  BY DEF FeedTypeOK, Delivered
<1>4. f.type = "snapshot" \/ ~f.hole
  BY <1>1 DEF NoHoleInHand
<1>5. ASSUME NEW t \in Symbols, guard'[t] = "synced" PROVE book'[t] \in {"exact", "refused"}
  <2>1. book[t] \in {"exact", "refused"} \/ (t = s /\ f.type = "snapshot")
    BY <1>1, <1>5 DEF SyncedMissesNothing, SnapshotInHand
  <2>2. CASE t = s
    <3>1. book'[t] = after
      BY <1>2, <1>3, <2>2
    <3> QED
      BY <1>4, <2>1, <2>2, <3>1
  <2>3. CASE t # s
    BY <1>2, <1>3, <2>1, <2>3
  <2> QED
    BY <2>2, <2>3
<1> QED
  BY <1>1, <1>5 DEF NoHoleInHand, SyncedMissesNothing

LEMMA SyncedStep ==
  FeedTypeOK /\ NoHoleInHand /\ SyncedMissesNothing /\ [FeedNext]_feedVars
    => NoHoleInHand' /\ SyncedMissesNothing'
<1> SUFFICES ASSUME FeedTypeOK, NoHoleInHand, SyncedMissesNothing, [FeedNext]_feedVars
             PROVE  NoHoleInHand' /\ SyncedMissesNothing'
  OBVIOUS
<1>1. CASE Handle
  BY <1>1, BelievedIsWhole
<1>2. CASE \E raised \in BOOLEAN : Delivered(raised)
  BY <1>2, DeliveredIsKept
<1>3. CASE \E s \in Symbols : Frame(s)
  <2>1. PICK s \in Symbols : Frame(s)
    BY <1>3
  <2>2. PICK f \in Frames : queue' = Append(queue, f)
    <3>1. [symbol |-> s, type |-> Type(s), hole |-> Type(s) = "delta" /\ s \in hole] \in Frames
      BY DEF Type, Frames
    <3> QED
      BY <2>1, <3>1 DEF Frame
  <2>3. queue \in Seq(Frames)
    BY DEF FeedTypeOK, Frames
  <2>4. queue # <<>> => Head(queue') = Head(queue)
    <3> HIDE DEF Frames
    <3>1. queue # <<>> => Len(queue) \in Nat \ {0} /\ Head(queue) = queue[1]
      BY <2>3
    <3> QED
      BY <2>2, <2>3, <3>1
  <2>5. Elsewhere
    BY <2>1, <2>4 DEF Elsewhere, Frame
  <2> QED
    BY <2>5, KeptElsewhere
<1>4. CASE WatchdogKills
  <2>1. UNCHANGED guard \/ guard' = NoGuards
    BY <1>4, WatchdogIs DEF Kill, KillBegins, KillAtOnce
  <2> QED
    BY <1>4, <2>1, WatchdogIs, KeptElsewhere DEF Elsewhere
<1>5. CASE \/ Connected \/ Refused \/ Subscribe \/ SocketGone \/ Wake
           \/ \E s \in Symbols : FrameDropped(s) \/ Skip(s)
           \/ \E task \in {"drain", "watchdog"} : KillEnds(task)
           \/ Toggle \/ Stop \/ Lost \/ Stall \/ UNCHANGED feedVars
  <2>1. Elsewhere
    BY <1>5 DEF Elsewhere, feedVars, drain, Connected, Refused, Subscribe, SocketGone, Wake,
       FrameDropped, Skip, KillEnds, Toggle, Stop, Lost, Stall
  <2> QED
    BY <2>1, KeptElsewhere
<1> QED
  BY <1>1, <1>2, <1>3, <1>4, <1>5 DEF FeedNext, WatchdogKills

(* A symbol whose guard is synced has a book behind it that was shown      *)
(* every update, whatever was dropped, skipped or killed on the way; it    *)
(* lacks what its consumer raised at (validate of OrderBookSequenceGuard,  *)
(* _handle_update, and _process_batch, which swallows the exception).      *)
THEOREM FeedSyncedMissesNothing == FeedSpec => []SyncedMissesNothing
<1>1. FeedInit => NoHoleInHand /\ SyncedMissesNothing
  BY DEF FeedInit, NoGuards, NoHoleInHand, SyncedMissesNothing
<1> QED
  BY <1>1, FeedTypeCorrect, SyncedStep, PTL DEF FeedSpec

-----------------------------------------------------------------------------
(* LiquidityDetectors: sums over trades.                                   *)

Trades == [side : Sides, usd : Nat, ts : Nat, raised : SUBSET Kinds]

(* The notional of the trades I of the tape q. *)
UsdOf(q, I) == SumFunctionOnSet([i \in I |-> q[i].usd], I)

LEMMA UsdIsSum ==
  ASSUME NEW q, NEW I
  PROVE  UsdOf(q, I) = SumOf([i \in I |-> q[i].usd], I)
BY DEF UsdOf, SumFunctionOnSet, FoldFunctionOnSet, SumOf, MapThenSumSet

LEMMA UsdAgrees ==
  ASSUME NEW q, NEW r, NEW I, \A i \in I : q[i] = r[i]
  PROVE  UsdOf(q, I) = UsdOf(r, I)
<1>1. [i \in I |-> q[i].usd] = [i \in I |-> r[i].usd]
  OBVIOUS
<1> QED
  BY <1>1 DEF UsdOf

LEMMA UsdType ==
  ASSUME NEW q, NEW I, IsFiniteSet(I), \A i \in I : q[i].usd \in Nat
  PROVE  UsdOf(q, I) \in Nat
<1> DEFINE f == [i \in I |-> q[i].usd]
<1>1. \A i \in I : f[i] \in Nat
  OBVIOUS
<1> HIDE DEF f
<1>2. SumOf(f, I) \in Nat
  BY <1>1, SumType
<1> QED
  BY <1>2, UsdIsSum DEF f

(* The sum over a part is that of the same function. *)
LEMMA UsdOfPart ==
  ASSUME NEW q, NEW I, IsFiniteSet(I), \A i \in I : q[i].usd \in Nat, NEW J \in SUBSET I
  PROVE  SumOf([i \in I |-> q[i].usd], J) = UsdOf(q, J)
<1> DEFINE f == [i \in I |-> q[i].usd]
           g == [i \in J |-> q[i].usd]
<1>1. \A x \in J : f[x] \in Nat /\ g[x] = f[x]
  OBVIOUS
<1>2. IsFiniteSet(J)
  BY FS_Subset
<1> HIDE DEF f, g
<1>3. SumOf(f, J) = SumOf(g, J)
  BY <1>1, <1>2, SumSame
<1> QED
  BY <1>3, UsdIsSum DEF f, g

LEMMA UsdTakeOut ==
  ASSUME NEW q, NEW I, IsFiniteSet(I), \A i \in I : q[i].usd \in Nat, NEW y \in I
  PROVE  UsdOf(q, I) = q[y].usd + UsdOf(q, I \ {y})
<1> DEFINE f == [i \in I |-> q[i].usd]
<1>1. (\A x \in I : f[x] \in Nat) /\ f[y] = q[y].usd
  OBVIOUS
<1>2. SumOf(f, I \ {y}) = UsdOf(q, I \ {y})
  <2>1. I \ {y} \in SUBSET I
    OBVIOUS
  <2> QED
    BY <2>1, UsdOfPart
<1>3. SumOf(f, I) = UsdOf(q, I)
  BY UsdIsSum
<1> HIDE DEF f
<1>4. SumOf(f, I) = f[y] + SumOf(f, I \ {y})
  BY <1>1, SumTakeOut
<1> QED
  BY <1>1, <1>2, <1>3, <1>4

(* More trades are worth more. *)
LEMMA UsdGrows ==
  ASSUME NEW q, NEW I, IsFiniteSet(I), \A i \in I : q[i].usd \in Nat, NEW J \in SUBSET I
  PROVE  UsdOf(q, J) <= UsdOf(q, I)
<1> DEFINE f == [i \in I |-> q[i].usd]
<1>1. \A x \in I : f[x] \in Nat
  OBVIOUS
<1>2. SumOf(f, I \ J) = UsdOf(q, I \ J) /\ SumOf(f, I \cap J) = UsdOf(q, I \cap J)
  <2>1. I \ J \in SUBSET I /\ I \cap J \in SUBSET I
    OBVIOUS
  <2> QED
    BY <2>1, UsdOfPart
<1>3. SumOf(f, I) = UsdOf(q, I)
  BY UsdIsSum
<1> HIDE DEF f
<1>4. SumOf(f, I) = SumOf(f, I \ J) + SumOf(f, I \cap J)
  BY <1>1, SumOfParts
<1>5. IsFiniteSet(I \ J) /\ IsFiniteSet(J) /\ I \cap J = J
  BY FS_Subset
<1>6. UsdOf(q, I \ J) \in Nat /\ UsdOf(q, J) \in Nat
  BY <1>5, UsdType
<1>7. UsdOf(q, I \cap J) = UsdOf(q, J)
  BY <1>5, Zenon
<1> QED
  BY <1>2, <1>3, <1>4, <1>6, <1>7

LEMMA UsdOfNone ==
  ASSUME NEW q
  PROVE  UsdOf(q, {}) = 0
<1>1. SumOf([i \in {} |-> q[i].usd], {}) = 0
  BY SumOfZeros, FS_EmptySet
<1> QED
  BY <1>1, UsdIsSum

(* One trade more. *)
LEMMA UsdOfOneMore ==
  ASSUME NEW q, NEW I, IsFiniteSet(I), NEW y, y \notin I, \A i \in I \cup {y} : q[i].usd \in Nat
  PROVE  UsdOf(q, I \cup {y}) = UsdOf(q, I) + q[y].usd
<1>1. IsFiniteSet(I \cup {y}) /\ y \in I \cup {y} /\ (I \cup {y}) \ {y} = I
  BY FS_AddElement
<1>2. UsdOf(q, I \cup {y}) = q[y].usd + UsdOf(q, (I \cup {y}) \ {y})
  BY <1>1, UsdTakeOut
<1>3. UsdOf(q, I) \in Nat
  BY UsdType
<1>4. UsdOf(q, (I \cup {y}) \ {y}) = UsdOf(q, I)
  BY <1>1, Zenon
<1> QED
  BY <1>2, <1>3, <1>4

LEMMA TotalIsUsd == \A I : Total(I) = UsdOf(tape, I)
BY DEF Total, UsdOf

-----------------------------------------------------------------------------
(* LiquidityDetectors: the median.                                         *)

(* The places of s whose number is at most v. *)
UpTo(s, v) == {i \in DOMAIN s : s[i] <= v}

LEMMA UpToSize ==
  ASSUME NEW s \in Seq(Nat), NEW v
  PROVE  IsFiniteSet(UpTo(s, v)) /\ Cardinality(UpTo(s, v)) \in Nat
<1>1. IsFiniteSet(1 .. Len(s)) /\ UpTo(s, v) \in SUBSET (1 .. Len(s))
  BY PlacesFinite DEF UpTo
<1>2. IsFiniteSet(UpTo(s, v))
  BY <1>1, FS_Subset
<1> QED
  BY <1>2, FS_CardinalityType

(* Some number is not exceeded by any in s. *)
LEMMA Bounded ==
  ASSUME NEW s \in Seq(Nat)
  PROVE  \E b \in Nat : \A i \in DOMAIN s : s[i] <= b
<1> DEFINE b == SumOf(s, 1 .. Len(s))
<1>1. IsFiniteSet(1 .. Len(s)) /\ (\A i \in 1 .. Len(s) : s[i] \in Nat) /\ DOMAIN s = 1 .. Len(s)
  BY PlacesFinite
<1>2. b \in Nat
  BY <1>1, SumType
<1>3. ASSUME NEW i \in 1 .. Len(s)
      PROVE  s[i] <= b
  <2>1. b = s[i] + SumOf(s, (1 .. Len(s)) \ {i})
    BY <1>1, SumTakeOut
  <2>2. IsFiniteSet((1 .. Len(s)) \ {i}) /\ \A j \in (1 .. Len(s)) \ {i} : s[j] \in Nat
    BY <1>1, FS_RemoveElement
  <2>3. SumOf(s, (1 .. Len(s)) \ {i}) \in Nat
    BY <2>2, SumType
  <2>4. s[i] \in Nat
    BY <1>1
  <2> HIDE DEF b
  <2> QED
    BY <2>1, <2>3, <2>4
<1> HIDE DEF b
<1> QED
  BY <1>1, <1>2, <1>3

(* Every place of the sorted list is taken by one of its numbers. *)
LEMMA RankExists ==
  ASSUME NEW s \in Seq(Nat), NEW m \in 1 .. Len(s)
  PROVE  \E v \in Range(s) : /\ Cardinality({i \in DOMAIN s : s[i] < v}) < m
                             /\ m <= Cardinality({i \in DOMAIN s : s[i] <= v})
<1> DEFINE G == {v \in Nat : m <= Cardinality(UpTo(s, v))}
<1>1. G # {}
  <2>1. PICK b \in Nat : \A i \in DOMAIN s : s[i] <= b
    BY Bounded
  <2>2. UpTo(s, b) = 1 .. Len(s)
    BY <2>1 DEF UpTo
  <2>3. Cardinality(1 .. Len(s)) = Len(s)
    BY PlacesFinite
  <2>4. Cardinality(UpTo(s, b)) = Len(s)
    BY <2>2, <2>3, Zenon
  <2> QED
    BY <2>4
<1>2. PICK v \in G : \A w \in G : v <= w
  BY <1>1, LeastNumber
<1>3. v \in Nat /\ m <= Cardinality(UpTo(s, v))
  BY <1>2
<1>4. DOMAIN s = 1 .. Len(s) /\ \A i \in DOMAIN s : s[i] \in Nat
  OBVIOUS
<1> DEFINE Below == {i \in DOMAIN s : s[i] < v}
<1>5. Cardinality(Below) \in Nat /\ Cardinality(Below) < m
  <2>1. ASSUME v = 0 PROVE Cardinality(Below) = 0
    <3>1. Below = {}
      BY <1>4, <2>1
    <3> QED
      BY <3>1, FS_EmptySet, Zenon
  <2>2. ASSUME v # 0 PROVE Cardinality(Below) \in Nat /\ Cardinality(Below) < m
    <3>1. v - 1 \in Nat /\ v - 1 \notin G
      BY <1>2, <1>3, <2>2
    <3>2. Below = UpTo(s, v - 1)
      BY <1>3, <1>4 DEF UpTo
    <3>3. Cardinality(Below) = Cardinality(UpTo(s, v - 1))
      BY <3>2, Zenon
    <3>4. Cardinality(UpTo(s, v - 1)) \in Nat
      BY UpToSize
    <3> QED
      BY <3>1, <3>3, <3>4
  <2> QED
    BY <2>1, <2>2
<1>6. v \in Range(s)
  <2> SUFFICES ASSUME v \notin Range(s) PROVE FALSE
    OBVIOUS
  <2>1. \A i \in DOMAIN s : s[i] # v
    BY DEF Range
  <2>2. UpTo(s, v) = Below
    BY <1>3, <1>4, <2>1 DEF UpTo
  <2>3. Cardinality(UpTo(s, v)) = Cardinality(Below)
    BY <2>2, Zenon
  <2> HIDE DEF Below
  <2> QED
    BY <1>3, <1>5, <2>3
<1> QED
  BY <1>3, <1>5, <1>6 DEF UpTo

LEMMA RankedIs ==
  ASSUME NEW s \in Seq(Nat), NEW m \in 1 .. Len(s)
  PROVE  /\ Ranked(s, m) \in Nat
         /\ Cardinality({i \in DOMAIN s : s[i] < Ranked(s, m)}) < m
         /\ m <= Cardinality(UpTo(s, Ranked(s, m)))
<1>1. /\ Ranked(s, m) \in Range(s)
      /\ Cardinality({i \in DOMAIN s : s[i] < Ranked(s, m)}) < m
      /\ m <= Cardinality({i \in DOMAIN s : s[i] <= Ranked(s, m)})
  BY RankExists, Zenon DEF Ranked
<1>2. Range(s) \subseteq Nat
  BY DEF Range
<1> QED
  BY <1>1, <1>2 DEF UpTo

(* The later place has the greater number. *)
LEMMA RanksAscend ==
  ASSUME NEW s \in Seq(Nat), NEW m \in 1 .. Len(s), m + 1 \in 1 .. Len(s)
  PROVE  Ranked(s, m) <= Ranked(s, m + 1)
<1> DEFINE v == Ranked(s, m)
           w == Ranked(s, m + 1)
           Below == {i \in DOMAIN s : s[i] < v}
<1>1. v \in Nat /\ w \in Nat /\ Cardinality(Below) < m /\ m + 1 <= Cardinality(UpTo(s, w))
  BY RankedIs
<1> SUFFICES ASSUME w < v PROVE FALSE
  BY <1>1
<1>2. \A i \in DOMAIN s : s[i] \in Nat
  OBVIOUS
<1>3. UpTo(s, w) \subseteq Below
  BY <1>1, <1>2 DEF UpTo
<1>4. IsFiniteSet(Below)
  <2>1. IsFiniteSet(1 .. Len(s)) /\ Below \in SUBSET (1 .. Len(s))
    BY PlacesFinite
  <2> QED
    BY <2>1, FS_Subset
<1>5. Cardinality(UpTo(s, w)) <= Cardinality(Below) /\ Cardinality(Below) \in Nat
  BY <1>3, <1>4, FS_Subset, FS_CardinalityType
<1> QED
  BY <1>1, <1>5, UpToSize

(* What is K times the median and more is K times at least half of all. *)
LEMMA HalfIsSmall ==
  ASSUME NEW s \in Seq(Nat), s # <<>>, NEW k \in Nat, NEW c \in Nat, 2 * c >= k * Median2(s)
  PROVE  2 * Cardinality({i \in DOMAIN s : k * s[i] <= c}) >= Len(s)
<1> DEFINE n == Len(s)
           h == Len(s) \div 2
           Small == {i \in DOMAIN s : k * s[i] <= c}
<1>1. n \in Nat \ {0} /\ h \in Nat /\ (n % 2 = 1 => n = 2 * h + 1) /\ (n % 2 # 1 => n = 2 * h)
  OBVIOUS
<1>2. IsFiniteSet(Small)
  <2>1. IsFiniteSet(1 .. Len(s)) /\ Small \in SUBSET (1 .. Len(s))
    BY PlacesFinite
  <2> QED
    BY <2>1, FS_Subset
<1>3. ASSUME NEW v \in Nat, k * v <= c
      PROVE  Cardinality(UpTo(s, v)) <= Cardinality(Small)
  <2>1. ASSUME NEW i \in UpTo(s, v) PROVE i \in Small
    <3>1. i \in DOMAIN s /\ s[i] \in Nat /\ s[i] <= v
      BY DEF UpTo
    <3>2. k * s[i] <= k * v /\ k * s[i] \in Nat /\ k * v \in Nat
      BY <3>1, ProductGrows
    <3> QED
      BY <1>3, <3>1, <3>2
  <2>2. UpTo(s, v) \subseteq Small
    BY <2>1
  <2> QED
    BY <1>2, <2>2, FS_Subset
<1>4. Cardinality(Small) \in Nat
  BY <1>2, FS_CardinalityType
<1> HIDE DEF Small
<1>5. ASSUME n % 2 = 1
      PROVE  2 * Cardinality(Small) >= n
  <2> DEFINE v == Ranked(s, h + 1)
  <2>1. Median2(s) = 2 * v
    BY <1>5 DEF Median2
  <2>2. h + 1 \in 1 .. n
    BY <1>1, <1>5
  <2>3. v \in Nat /\ h + 1 <= Cardinality(UpTo(s, v))
    BY <2>2, RankedIs
  <2> HIDE DEF v
  <2>4. k * v <= c
    <3>1. k * (2 * v) = 2 * (k * v) /\ k * v \in Nat
      BY <2>3
    <3> QED
      BY <2>1, <3>1
  <2>5. Cardinality(UpTo(s, v)) <= Cardinality(Small)
    BY <1>3, <2>3, <2>4
  <2> QED
    BY <1>1, <1>4, <1>5, <2>3, <2>5, UpToSize
<1>6. ASSUME n % 2 # 1
      PROVE  2 * Cardinality(Small) >= n
  <2> DEFINE v == Ranked(s, h)
             w == Ranked(s, h + 1)
  <2>1. Median2(s) = v + w
    BY <1>6 DEF Median2
  <2>2. h \in 1 .. n /\ h + 1 \in 1 .. n
    BY <1>1, <1>6
  <2>3. v \in Nat /\ w \in Nat /\ h <= Cardinality(UpTo(s, v)) /\ v <= w
    BY <2>2, RankedIs, RanksAscend
  <2> HIDE DEF v, w
  <2>4. k * v <= c
    <3>1. k * (v + w) = k * v + k * w /\ k * v \in Nat /\ k * w \in Nat /\ k * v <= k * w
      BY <2>3, ProductGrows
    <3> QED
      BY <2>1, <3>1
  <2>5. Cardinality(UpTo(s, v)) <= Cardinality(Small)
    BY <1>3, <2>3, <2>4
  <2> QED
    BY <1>1, <1>4, <1>6, <2>3, <2>5, UpToSize
<1> QED
  BY <1>5, <1>6 DEF Small

-----------------------------------------------------------------------------
(* LiquidityDetectors: buckets of time.                                    *)

LEMMA BucketParts ==
  ASSUME NEW t \in Nat
  PROVE  /\ t \div BucketSec \in Nat
         /\ BucketOf(t) = BucketSec * (t \div BucketSec)
         /\ BucketOf(t) <= t /\ t < BucketOf(t) + BucketSec
<1>1. BucketSec \in Nat \ {0}
  BY DetectorAssumption
<1>2. t = BucketSec * (t \div BucketSec) + (t % BucketSec) /\ t % BucketSec \in 0 .. BucketSec - 1
      /\ t \div BucketSec \in Int
  BY <1>1
<1> DEFINE d == t \div BucketSec
           r == t % BucketSec
<1> HIDE DEF d, r
<1>3. t = BucketSec * d + r /\ r \in 0 .. BucketSec - 1 /\ d \in Int
  BY <1>2 DEF d, r
<1>4. d \in Nat
  <2> SUFFICES ASSUME d < 0 PROVE FALSE
    BY <1>3
  <2>1. BucketSec * d <= 0 - BucketSec
    <3>1. 0 - d - 1 \in Nat
      BY <1>3
    <3>2. BucketSec * (0 - d - 1) \in Nat
      BY <1>1, <3>1
    <3>3. BucketSec * (0 - d - 1) = 0 - BucketSec * d - BucketSec
      BY <1>1, <1>3
    <3>4. BucketSec * d \in Int
      BY <1>1, <1>3
    <3> QED
      BY <1>1, <3>2, <3>3, <3>4
  <2>2. BucketSec * d \in Int
    BY <1>1, <1>3
  <2> QED
    BY <1>1, <1>3, <2>1, <2>2
<1>5. BucketSec * d \in Nat
  BY <1>1, <1>4
<1>6. BucketOf(t) = t - r
  BY DEF BucketOf, r
<1> QED
  BY <1>1, <1>3, <1>4, <1>5, <1>6 DEF d

LEMMA BucketsAscend ==
  ASSUME NEW t \in Nat, NEW u \in Nat, t <= u
  PROVE  BucketOf(t) <= BucketOf(u) /\ BucketOf(t) \in Nat /\ BucketOf(u) \in Nat
<1> DEFINE d == t \div BucketSec
           e == u \div BucketSec
<1>1. BucketSec \in Nat \ {0} /\ d \in Nat /\ e \in Nat
  BY BucketParts, DetectorAssumption
<1>2. /\ BucketOf(t) = BucketSec * d /\ BucketOf(t) <= t
      /\ BucketOf(u) = BucketSec * e /\ u < BucketOf(u) + BucketSec
  BY BucketParts
<1> HIDE DEF d, e
<1>3. BucketSec * d \in Nat /\ BucketSec * e \in Nat /\ BucketSec * (e + 1) \in Nat
  BY <1>1
<1>4. d <= e
  <2> SUFFICES ASSUME e + 1 <= d PROVE FALSE
    BY <1>1
  <2>1. d - (e + 1) \in Nat
    BY <1>1
  <2>2. BucketSec * (d - (e + 1)) \in Nat
    BY <1>1, <2>1
  <2>3. BucketSec * (d - (e + 1)) = BucketSec * d - BucketSec * (e + 1)
    BY <1>1
  <2>4. BucketSec * (e + 1) = BucketSec * e + BucketSec
    BY <1>1
  <2> QED
    BY <1>1, <1>2, <1>3, <2>2, <2>3, <2>4
<1>5. BucketSec * (e - d) \in Nat
  <2>1. e - d \in Nat
    BY <1>1, <1>4
  <2> QED
    BY <1>1, <2>1
<1>6. BucketSec * (e - d) = BucketSec * e - BucketSec * d
  BY <1>1
<1> QED
  BY <1>2, <1>3, <1>5, <1>6

-----------------------------------------------------------------------------
(* LiquidityDetectors: the deque after a trade.                            *)

Buckets == [start : Nat, buy : Nat, sell : Nat]

(* The deque with a bucket for a trade at ts, as its last. *)
Opened(ts) ==
  IF buckets # <<>> /\ buckets[Len(buckets)].start = BucketOf(ts)
  THEN buckets
  ELSE Trimmed(Append(buckets, [start |-> BucketOf(ts), buy |-> 0, sell |-> 0]))

(* The bucket was there, or it is new, and then the oldest may be gone. *)
Reused(o) == o = buckets /\ buckets # <<>>

Extended(o, b) ==
  /\ Len(o) = Len(buckets) + 1 /\ o[Len(o)] = b
  /\ \A k \in 1 .. Len(buckets) : o[k] = buckets[k]

Shifted(o, b) ==
  /\ Len(buckets) = HistoryBuckets /\ Len(o) = HistoryBuckets /\ o[Len(o)] = b
  /\ \A k \in 1 .. HistoryBuckets - 1 : o[k] = buckets[k + 1]

LEMMA OpenedIs ==
  ASSUME DetectorTypeOK, NEW ts \in Nat
  PROVE  LET o == Opened(ts)
             b == [start |-> BucketOf(ts), buy |-> 0, sell |-> 0]
         IN /\ o \in Seq(Buckets) /\ Len(o) \in 1 .. HistoryBuckets
            /\ o[Len(o)].start = BucketOf(ts)
            /\ \/ Reused(o)
               \/ /\ buckets # <<>> => buckets[Len(buckets)].start # BucketOf(ts)
                  /\ Extended(o, b) \/ Shifted(o, b)
<1> DEFINE o == Opened(ts)
           b == [start |-> BucketOf(ts), buy |-> 0, sell |-> 0]
<1>1. buckets \in Seq(Buckets) /\ Len(buckets) <= HistoryBuckets /\ Len(buckets) \in Nat
  BY DEF DetectorTypeOK, Buckets
<1>2. HistoryBuckets \in Nat /\ HistoryBuckets >= 2
  BY DetectorAssumption
<1>3. b \in Buckets /\ b.start = BucketOf(ts)
  BY BucketsAscend DEF Buckets
<1>4. CASE buckets # <<>> /\ buckets[Len(buckets)].start = BucketOf(ts)
  <2>1. o = buckets
    BY <1>4 DEF Opened
  <2>2. Len(buckets) \in 1 .. HistoryBuckets
    BY <1>1, <1>4
  <2> HIDE DEF o
  <2> QED
    BY <1>1, <1>4, <2>1, <2>2 DEF Reused, o
<1>5. CASE ~(buckets # <<>> /\ buckets[Len(buckets)].start = BucketOf(ts))
  <2> DEFINE a == Append(buckets, b)
  <2>1. o = Trimmed(a)
    BY <1>5 DEF Opened
  <2> HIDE DEF o, b
  <2>2. a \in Seq(Buckets) /\ Len(a) = Len(buckets) + 1 /\ a[Len(buckets) + 1] = b
        /\ \A k \in 1 .. Len(buckets) : a[k] = buckets[k]
    BY <1>1, <1>3, AppendProperties
  <2> HIDE DEF a
  <2>3. ASSUME Len(a) <= HistoryBuckets
        PROVE  o \in Seq(Buckets) /\ Len(o) \in 1 .. HistoryBuckets /\ Extended(o, b)
    <3>1. o = a
      BY <1>1, <1>2, <2>1, <2>2, <2>3 DEF Trimmed
    <3> QED
      BY <1>1, <2>2, <2>3, <3>1 DEF Extended
  <2>4. ASSUME Len(a) > HistoryBuckets
        PROVE  o \in Seq(Buckets) /\ Len(o) \in 1 .. HistoryBuckets /\ Shifted(o, b)
    <3>1. o = Tail(a)
      BY <2>1, <2>4 DEF Trimmed
    <3>2. Len(buckets) = HistoryBuckets /\ Len(a) = HistoryBuckets + 1 /\ a # <<>>
      BY <1>1, <1>2, <2>2, <2>4
    <3>3. Tail(a) \in Seq(Buckets) /\ Len(Tail(a)) = Len(a) - 1
          /\ \A k \in 1 .. Len(Tail(a)) : Tail(a)[k] = a[k + 1]
      BY <2>2, <3>2, HeadTailProperties
    <3>4. Len(o) = HistoryBuckets /\ o \in Seq(Buckets) /\ \A k \in 1 .. HistoryBuckets : o[k] = a[k + 1]
      BY <1>2, <3>1, <3>2, <3>3
    <3>5. \A k \in 1 .. HistoryBuckets - 1 : o[k] = buckets[k + 1]
      BY <1>2, <2>2, <3>2, <3>4
    <3>6. o[Len(o)] = b
      BY <1>2, <2>2, <3>2, <3>4
    <3> QED
      BY <1>2, <3>2, <3>4, <3>5, <3>6 DEF Shifted
  <2>5. Len(a) \in Nat /\ HistoryBuckets \in Nat
    BY <1>1, <1>2, <2>2
  <2>6. (Extended(o, b) \/ Shifted(o, b)) => o[Len(o)].start = BucketOf(ts)
    BY <1>3 DEF Extended, Shifted
  <2> QED
    BY <1>5, <2>3, <2>4, <2>5, <2>6 DEF o, b
<1> QED
  BY <1>4, <1>5

LEMMA BucketedIs ==
  ASSUME DetectorTypeOK, NEW side \in Sides, NEW usd \in Nat, NEW ts \in Nat
  PROVE  LET o == Opened(ts)
             q == Bucketed(side, usd, ts)
         IN /\ q \in Seq(Buckets) /\ Len(q) = Len(o)
            /\ \A k \in 1 .. Len(o) - 1 : q[k] = o[k]
            /\ q[Len(o)].start = o[Len(o)].start
            /\ q[Len(o)].buy = o[Len(o)].buy + (IF side = "buy" THEN usd ELSE 0)
            /\ q[Len(o)].sell = o[Len(o)].sell + (IF side = "sell" THEN usd ELSE 0)
<1> DEFINE o == Opened(ts)
           q == Bucketed(side, usd, ts)
           n == Len(o)
           v == IF side = "sell" THEN [o[n] EXCEPT !.sell = @ + usd]
                                 ELSE [o[n] EXCEPT !.buy = @ + usd]
<1>1. q = [o EXCEPT ![n] = v]
  <2>1. q = IF side = "sell" THEN [o EXCEPT ![Len(o)].sell = @ + usd]
                             ELSE [o EXCEPT ![Len(o)].buy = @ + usd]
    BY DEF Bucketed, Opened
  <2> HIDE DEF q, o
  <2> QED
    BY <2>1
<1>2. o \in Seq(Buckets) /\ n \in 1 .. Len(o)
  <2>1. o \in Seq(Buckets) /\ Len(o) \in 1 .. HistoryBuckets
    BY OpenedIs
  <2> QED
    BY <2>1, DetectorAssumption
<1> HIDE DEF q, o
<1>3. o[n] \in Buckets
  BY <1>2
<1>4. /\ v \in Buckets /\ v.start = o[n].start
      /\ v.buy = o[n].buy + (IF side = "buy" THEN usd ELSE 0)
      /\ v.sell = o[n].sell + (IF side = "sell" THEN usd ELSE 0)
  <2>1. CASE side = "sell"
    <3>1. v = [o[n] EXCEPT !.sell = @ + usd] /\ side # "buy"
      BY <2>1
    <3> QED
      BY <1>3, <2>1, <3>1 DEF Buckets
  <2>2. CASE side = "buy"
    <3>1. v = [o[n] EXCEPT !.buy = @ + usd] /\ side # "sell"
      BY <2>2
    <3> QED
      BY <1>3, <2>2, <3>1 DEF Buckets
  <2> QED
    BY <2>1, <2>2 DEF Sides
<1> HIDE DEF v
<1>5. q \in Seq(Buckets) /\ Len(q) = n /\ q[n] = v /\ \A k \in 1 .. n - 1 : q[k] = o[k]
  BY <1>1, <1>2, <1>4
<1> QED
  BY <1>4, <1>5 DEF q, o

-----------------------------------------------------------------------------
(* LiquidityDetectors: a trade.                                            *)

(* What a step does, for the steps of the proofs. *)
Ticked(side, usd, ts) ==
  LET n == Len(tape)
      last == tape'[n + 1]
  IN /\ side \in Sides /\ usd \in Nat /\ ts \in Nat
     /\ tape # <<>> => tape[n].ts <= ts
     /\ tape' \in Seq(Trades) /\ Len(tape') = n + 1 /\ \A k \in 1 .. n : tape'[k] = tape[k]
     /\ last.side = side /\ last.usd = usd /\ last.ts = ts
     /\ ("SWEEP" \in last.raised) <=> Sweeps(side, usd, ts)
     /\ ("OFI_PULSE" \in last.raised) <=> Pulses(buckets', ts)
     /\ run' = RunAfter(side, usd, ts)
     /\ buckets' = Bucketed(side, usd, ts)
     /\ alerted' = Alerted(last.raised, ts)

LEMMA TapeType ==
  ASSUME DetectorTypeOK
  PROVE  /\ tape \in Seq(Trades) /\ Len(tape) \in Nat /\ DOMAIN tape = 1 .. Len(tape)
         /\ \A k \in 1 .. Len(tape) : /\ tape[k] \in Trades /\ tape[k].usd \in Nat
                                      /\ tape[k].ts \in Nat /\ tape[k].side \in Sides
                                      /\ tape[k].raised \subseteq Kinds
<1>1. tape \in Seq(Trades)
  BY DEF DetectorTypeOK, Trades
<1>2. \A k \in 1 .. Len(tape) : tape[k] \in Trades
  BY <1>1
<1>3. Len(tape) \in Nat /\ DOMAIN tape = 1 .. Len(tape)
  BY <1>1
<1> QED
  BY <1>1, <1>2, <1>3 DEF Trades

LEMMA TickIs ==
  ASSUME DetectorTypeOK, DetectorNext
  PROVE  \E side \in Sides, usd \in Nat \ {0}, ts \in Nat : Ticked(side, usd, ts)
<1>1. PICK side \in Sides, usd \in Usd, gap \in Gaps, turnover \in Turnovers :
             ProcessTick(side, usd, gap, turnover)
  BY DEF DetectorNext
<1> DEFINE ts == Now + gap
           q == Bucketed(side, usd, ts)
           raised == {kind \in Kinds : \/ kind = "SWEEP" /\ Sweeps(side, usd, ts)
                                       \/ kind = "LARGE_PRINT" /\ IsLarge(usd, ts, turnover)
                                       \/ kind = "OFI_PULSE" /\ Pulses(q, ts)}
           t == [side |-> side, usd |-> usd, ts |-> ts, raised |-> raised]
           n == Len(tape)
<1>2. /\ run' = RunAfter(side, usd, ts) /\ buckets' = q
      /\ alerted' = Alerted(raised, ts) /\ tape' = Append(tape, t)
  BY <1>1 DEF ProcessTick
<1>3. usd \in Nat \ {0} /\ gap \in Nat
  BY DetectorAssumption
<1>4. Now \in Nat /\ (tape # <<>> => Now = tape[n].ts)
  <2>1. tape # <<>> => Len(tape) \in 1 .. Len(tape)
    BY TapeType
  <2> QED
    BY <2>1, TapeType DEF Now
<1>5. ts \in Nat /\ (tape # <<>> => tape[n].ts <= ts)
  BY <1>3, <1>4
<1>6. raised \subseteq Kinds
  OBVIOUS
<1>7. /\ "SWEEP" \in raised <=> Sweeps(side, usd, ts)
      /\ "OFI_PULSE" \in raised <=> Pulses(q, ts)
  <2> HIDE DEF q, ts
  <2> QED
    BY DEF Kinds
<1> HIDE DEF raised, ts, q
<1>8. t \in Trades
  BY <1>3, <1>5, <1>6 DEF Trades
<1>9. t.side = side /\ t.usd = usd /\ t.ts = ts /\ t.raised = raised
  OBVIOUS
<1> HIDE DEF t
<1>10. tape' \in Seq(Trades) /\ Len(tape') = n + 1 /\ tape'[n + 1] = t
       /\ \A k \in 1 .. n : tape'[k] = tape[k]
  BY <1>2, <1>8, TapeType, AppendProperties
<1>11. Ticked(side, usd, ts)
  BY <1>2, <1>3, <1>5, <1>7, <1>9, <1>10 DEF Ticked, q
<1> QED
  BY <1>3, <1>5, <1>11

(* A trade begins a run, or joins it. *)
LEMMA AccumulatedIs ==
  ASSUME NEW side, NEW usd, NEW ts, run \in [side : Sides, usd : Nat, count : Nat, first : Nat]
  PROVE  /\ Accumulated(side, usd, ts).side = side
         /\ StartsRun(side, ts) =>
              Accumulated(side, usd, ts) = [side |-> side, usd |-> usd, count |-> 1, first |-> ts]
         /\ ~StartsRun(side, ts) =>
              Accumulated(side, usd, ts) =
                [side |-> run.side, usd |-> run.usd + usd, count |-> run.count + 1, first |-> run.first]
<1>1. run = [side |-> run.side, usd |-> run.usd, count |-> run.count, first |-> run.first]
  OBVIOUS
<1>2. CASE StartsRun(side, ts)
  <2>1. Accumulated(side, usd, ts) = [side |-> side, usd |-> usd, count |-> 1, first |-> ts]
    BY <1>2 DEF Accumulated
  <2> QED
    BY <1>2, <2>1
<1>3. CASE ~StartsRun(side, ts)
  <2>1. Accumulated(side, usd, ts) = [run EXCEPT !.usd = @ + usd, !.count = @ + 1]
        /\ run.side = side
    BY <1>3 DEF Accumulated, StartsRun
  <2>2. Accumulated(side, usd, ts) =
          [side |-> run.side, usd |-> run.usd + usd, count |-> run.count + 1, first |-> run.first]
    BY <1>1, <2>1
  <2> QED
    BY <1>3, <2>1, <2>2
<1> QED
  BY <1>2, <1>3

LEMMA AccumulatedType ==
  ASSUME DetectorTypeOK, NEW side \in Sides, NEW usd \in Nat, NEW ts \in Nat
  PROVE  /\ Accumulated(side, usd, ts) \in [side : Sides, usd : Nat, count : Nat, first : Nat]
         /\ Accumulated(side, usd, ts).count >= 1
<1> DEFINE r == Accumulated(side, usd, ts)
<1>1. run \in [side : Sides, usd : Nat, count : Nat, first : Nat]
  BY DEF DetectorTypeOK
<1>2. run.side \in Sides /\ run.usd \in Nat /\ run.count \in Nat /\ run.first \in Nat
  BY <1>1
<1>3. \/ r = [side |-> side, usd |-> usd, count |-> 1, first |-> ts]
      \/ r = [side |-> run.side, usd |-> run.usd + usd, count |-> run.count + 1, first |-> run.first]
  BY <1>1, AccumulatedIs
<1> HIDE DEF r
<1> QED
  BY <1>2, <1>3 DEF r

LEMMA NoRunType ==
  NoRun \in [side : Sides, usd : Nat, count : Nat, first : Nat] /\ NoRun.count = 0
BY DEF NoRun, Sides

LEMMA TickType ==
  ASSUME DetectorTypeOK, NEW side, NEW usd, NEW ts, Ticked(side, usd, ts)
  PROVE  DetectorTypeOK'
<1>1. side \in Sides /\ usd \in Nat /\ ts \in Nat
  BY DEF Ticked
<1>2. run' \in [side : Sides, usd : Nat, count : Nat, first : Nat]
  <2>1. run' = NoRun \/ run' = Accumulated(side, usd, ts)
    BY DEF Ticked, RunAfter
  <2>2. Accumulated(side, usd, ts) \in [side : Sides, usd : Nat, count : Nat, first : Nat]
    BY <1>1, AccumulatedType
  <2> QED
    BY <2>1, <2>2, NoRunType
<1>3. buckets' \in Seq(Buckets) /\ Len(buckets') <= HistoryBuckets
  <2> DEFINE o == Opened(ts)
             q == Bucketed(side, usd, ts)
  <2>1. Len(o) \in 1 .. HistoryBuckets
    BY <1>1, OpenedIs
  <2>2. q \in Seq(Buckets) /\ Len(q) = Len(o)
    BY <1>1, BucketedIs
  <2>3. buckets' = q
    BY DEF Ticked
  <2> HIDE DEF q, o
  <2> QED
    BY <2>1, <2>2, <2>3, DetectorAssumption
<1>4. ASSUME NEW kind \in Kinds
      PROVE  alerted'[kind] \subseteq Nat /\ Cardinality(alerted'[kind]) <= 1
  <2>1. alerted'[kind] = {ts} \/ alerted'[kind] = alerted[kind]
    BY DEF Ticked, Alerted
  <2>2. Cardinality({ts}) = 1
    BY FS_Singleton
  <2>3. alerted[kind] \subseteq Nat /\ Cardinality(alerted[kind]) <= 1
    BY DEF DetectorTypeOK
  <2>4. CASE alerted'[kind] = {ts}
    <3>1. Cardinality(alerted'[kind]) = 1
      BY <2>2, <2>4
    <3> QED
      BY <1>1, <2>4, <3>1
  <2> QED
    BY <2>1, <2>3, <2>4, Zenon
<1>5. tape' \in Seq(Trades)
  BY DEF Ticked
<1> QED
  BY <1>2, <1>3, <1>4, <1>5 DEF DetectorTypeOK, Buckets, Trades

LEMMA DetectorTypeInit == DetectorInit => DetectorTypeOK
<1> SUFFICES ASSUME DetectorInit PROVE DetectorTypeOK
  OBVIOUS
<1>1. \A kind \in Kinds : alerted[kind] = {} /\ Cardinality(alerted[kind]) = 0
  BY FS_EmptySet DEF DetectorInit
<1>2. buckets \in Seq(Buckets) /\ Len(buckets) <= HistoryBuckets /\ tape \in Seq(Trades)
  BY DetectorAssumption DEF DetectorInit
<1> QED
  BY <1>1, <1>2, NoRunType DEF DetectorInit, DetectorTypeOK, Buckets, Trades

LEMMA DetectorTypeStep == DetectorTypeOK /\ [DetectorNext]_detectorVars => DetectorTypeOK'
<1> SUFFICES ASSUME DetectorTypeOK, [DetectorNext]_detectorVars PROVE DetectorTypeOK'
  OBVIOUS
<1>1. CASE DetectorNext
  BY <1>1, TickIs, TickType
<1>2. CASE UNCHANGED detectorVars
  BY <1>2 DEF DetectorTypeOK, detectorVars
<1> QED
  BY <1>1, <1>2

(* Type correctness, with it: the deque never outgrows its maxlen. *)
THEOREM DetectorTypeCorrect == DetectorSpec => []DetectorTypeOK
BY DetectorTypeInit, DetectorTypeStep, PTL DEF DetectorSpec

-----------------------------------------------------------------------------
(* LiquidityDetectors: the sweep on the tape.                              *)

(* On the tape q a sweep is raised at the trade k, or was within the cooldown before it. *)
HeardAt(q, k) ==
  \E l \in 1 .. k : /\ "SWEEP" \in q[l].raised
                    /\ l = k \/ q[k].ts - q[l].ts < SweepCooldown

(* The first trade of the run. *)
RunStart == Len(tape) - run.count + 1

Ordered == \A k, l \in 1 .. Len(tape) : k <= l => tape[k].ts <= tape[l].ts

LastSweepOnTape ==
  \A t \in alerted["SWEEP"] :
    \E l \in 1 .. Len(tape) : tape[l].ts = t /\ "SWEEP" \in tape[l].raised

(* The run is the last trades, and not a sweep yet. *)
RunIsOnTape ==
  run.count > 0 =>
    /\ run.count <= Len(tape)
    /\ \A k \in RunStart .. Len(tape) : tape[k].side = run.side /\ "SWEEP" \notin tape[k].raised
    /\ run.first = tape[RunStart].ts
    /\ tape[Len(tape)].ts - run.first <= SweepWindow
    /\ run.usd = UsdOf(tape, RunStart .. Len(tape))
    /\ run.count < MinTrades \/ run.usd < MinSweep

NoRunMeansHeard == run.count = 0 => tape = <<>> \/ HeardAt(tape, Len(tape))

(* A run begins after a sweep or in its cooldown, with the side, or when   *)
(* the window of the one before is over, which was not a sweep either.     *)
RunBegan ==
  run.count > 0 /\ RunStart > 1 =>
    \/ HeardAt(tape, RunStart - 1)
    \/ tape[RunStart - 1].side # run.side
    \/ \E r \in 1 .. RunStart - 1 :
         /\ tape[RunStart].ts - tape[r].ts > SweepWindow
         /\ RunStart - r < MinTrades \/ UsdOf(tape, r .. RunStart - 1) < MinSweep

RunInv == Ordered /\ LastSweepOnTape /\ RunIsOnTape /\ NoRunMeansHeard /\ RunBegan

LEMMA TapeIsKept ==
  ASSUME DetectorTypeOK, NEW side, NEW usd, NEW ts, Ticked(side, usd, ts)
  PROVE  /\ \A I \in SUBSET (1 .. Len(tape)) : UsdOf(tape', I) = UsdOf(tape, I)
         /\ \A k \in 1 .. Len(tape) : HeardAt(tape, k) => HeardAt(tape', k)
<1>1. \A k \in 1 .. Len(tape) : tape'[k] = tape[k]
  BY DEF Ticked
<1>2. ASSUME NEW I \in SUBSET (1 .. Len(tape)) PROVE UsdOf(tape', I) = UsdOf(tape, I)
  <2>1. \A i \in I : tape'[i] = tape[i]
    BY <1>1
  <2> QED
    BY <2>1, UsdAgrees
<1>3. ASSUME NEW k \in 1 .. Len(tape), HeardAt(tape, k) PROVE HeardAt(tape', k)
  <2>1. PICK l \in 1 .. k : /\ "SWEEP" \in tape[l].raised
                            /\ l = k \/ tape[k].ts - tape[l].ts < SweepCooldown
    BY <1>3 DEF HeardAt
  <2>2. l \in 1 .. Len(tape)
    BY TapeType
  <2>3. tape'[l] = tape[l] /\ tape'[k] = tape[k]
    BY <1>1, <2>2
  <2> QED
    BY <2>1, <2>3 DEF HeardAt
<1> QED
  BY <1>2, <1>3

(* What is cooling was heard, and so is a sweep. *)
LEMMA NewHeard ==
  ASSUME DetectorTypeOK, RunInv, NEW side, NEW usd, NEW ts, Ticked(side, usd, ts),
         Cooling("SWEEP", ts) \/ Sweeps(side, usd, ts)
  PROVE  HeardAt(tape', Len(tape) + 1)
<1> DEFINE n == Len(tape)
<1>1. n \in Nat /\ Len(tape') = n + 1 /\ tape'[n + 1].ts = ts /\ \A k \in 1 .. n : tape'[k] = tape[k]
  BY TapeType DEF Ticked
<1>2. CASE Cooling("SWEEP", ts)
  <2>1. PICK t \in alerted["SWEEP"] : ts - t < SweepCooldown
    BY <1>2 DEF Cooling, Cooldown
  <2>2. PICK l \in 1 .. n : tape[l].ts = t /\ "SWEEP" \in tape[l].raised
    BY <2>1 DEF RunInv, LastSweepOnTape
  <2>3. l \in 1 .. n + 1 /\ tape'[l] = tape[l]
    BY <1>1, <2>2
  <2> QED
    BY <1>1, <2>1, <2>2, <2>3 DEF HeardAt
<1>3. CASE Sweeps(side, usd, ts)
  <2>1. "SWEEP" \in tape'[n + 1].raised /\ n + 1 \in 1 .. n + 1
    BY <1>1, <1>3 DEF Ticked
  <2> QED
    BY <1>1, <2>1 DEF HeardAt
<1> QED
  BY <1>2, <1>3

LEMMA OrderedStep ==
  ASSUME DetectorTypeOK, Ordered, NEW side, NEW usd, NEW ts, Ticked(side, usd, ts)
  PROVE  Ordered'
<1> DEFINE n == Len(tape)
<1>1. /\ n \in Nat /\ Len(tape') = n + 1 /\ ts \in Nat
      /\ tape'[n + 1].ts = ts /\ \A k \in 1 .. n : tape'[k].ts = tape[k].ts /\ tape[k].ts \in Nat
  BY TapeType DEF Ticked
<1>2. \A k \in 1 .. n : tape[k].ts <= ts
  <2> SUFFICES ASSUME NEW k \in 1 .. n PROVE tape[k].ts <= ts
    OBVIOUS
  <2>1. tape # <<>> /\ n \in 1 .. n /\ k <= n
    BY <1>1, TapeType
  <2>2. tape[n].ts <= ts /\ tape[k].ts <= tape[n].ts
    BY <2>1 DEF Ticked, Ordered
  <2>3. tape[n].ts \in Nat /\ tape[k].ts \in Nat
    BY <1>1, <2>1
  <2> QED
    BY <1>1, <2>2, <2>3
<1> SUFFICES ASSUME NEW k \in 1 .. n + 1, NEW l \in 1 .. n + 1, k <= l
             PROVE  tape'[k].ts <= tape'[l].ts
  BY <1>1 DEF Ordered
<1>3. CASE l \in 1 .. n
  <2>1. k \in 1 .. n
    BY <1>1, <1>3
  <2>2. tape[k].ts <= tape[l].ts
    BY <1>3, <2>1 DEF Ordered
  <2> QED
    BY <1>1, <1>3, <2>1, <2>2
<1>4. CASE l = n + 1 /\ k \in 1 .. n
  BY <1>1, <1>2, <1>4
<1>5. CASE l = n + 1 /\ k = n + 1
  BY <1>1, <1>5
<1> QED
  BY <1>1, <1>3, <1>4, <1>5

LEMMA LastSweepStep ==
  ASSUME DetectorTypeOK, LastSweepOnTape, NEW side, NEW usd, NEW ts, Ticked(side, usd, ts)
  PROVE  LastSweepOnTape'
<1> DEFINE n == Len(tape)
<1>1. /\ n \in Nat /\ Len(tape') = n + 1
      /\ tape'[n + 1].ts = ts /\ \A k \in 1 .. n : tape'[k] = tape[k]
  BY TapeType DEF Ticked
<1>2. alerted'["SWEEP"] = IF "SWEEP" \in tape'[n + 1].raised THEN {ts} ELSE alerted["SWEEP"]
  BY DEF Ticked, Alerted, Kinds
<1> SUFFICES ASSUME NEW t \in alerted'["SWEEP"]
             PROVE  \E l \in 1 .. n + 1 : tape'[l].ts = t /\ "SWEEP" \in tape'[l].raised
  BY <1>1 DEF LastSweepOnTape
<1>3. CASE "SWEEP" \in tape'[n + 1].raised
  <2>1. t = ts /\ n + 1 \in 1 .. n + 1
    BY <1>1, <1>2, <1>3
  <2> QED
    BY <1>1, <1>3, <2>1
<1>4. CASE "SWEEP" \notin tape'[n + 1].raised
  <2>1. t \in alerted["SWEEP"]
    BY <1>2, <1>4
  <2>2. PICK l \in 1 .. n : tape[l].ts = t /\ "SWEEP" \in tape[l].raised
    BY <2>1 DEF LastSweepOnTape
  <2>3. l \in 1 .. n + 1 /\ tape'[l] = tape[l]
    BY <1>1, <2>2
  <2> QED
    BY <2>2, <2>3
<1> QED
  BY <1>3, <1>4

(* The trades of the run with the new one. *)
LEMMA AccumulatedOnTape ==
  ASSUME DetectorTypeOK, RunInv, NEW side, NEW usd, NEW ts, Ticked(side, usd, ts)
  PROVE  LET r == Accumulated(side, usd, ts)
             n == Len(tape)
             s == n + 2 - r.count
         IN /\ s \in 1 .. n + 1 /\ r.first = tape'[s].ts
            /\ tape'[n + 1].ts - r.first <= SweepWindow
            /\ r.usd = UsdOf(tape', s .. n + 1)
            /\ \A k \in s .. n + 1 : tape'[k].side = side
            /\ \A k \in s .. n : "SWEEP" \notin tape'[k].raised
<1> DEFINE r == Accumulated(side, usd, ts)
           n == Len(tape)
           s == n + 2 - r.count
<1>1. /\ n \in Nat /\ Len(tape') = n + 1 /\ side \in Sides /\ usd \in Nat /\ ts \in Nat
      /\ tape'[n + 1].ts = ts /\ tape'[n + 1].usd = usd /\ tape'[n + 1].side = side
      /\ \A k \in 1 .. n : tape'[k] = tape[k]
  BY TapeType DEF Ticked
<1>2. SweepWindow \in Nat
  BY DetectorAssumption
<1>3. /\ StartsRun(side, ts) => r.usd = usd /\ r.count = 1 /\ r.first = ts
      /\ ~StartsRun(side, ts) => /\ r.usd = run.usd + usd /\ r.count = run.count + 1
                                 /\ r.first = run.first
  <2>1. run \in [side : Sides, usd : Nat, count : Nat, first : Nat]
    BY DEF DetectorTypeOK
  <2>2. /\ StartsRun(side, ts) => r = [side |-> side, usd |-> usd, count |-> 1, first |-> ts]
        /\ ~StartsRun(side, ts) =>
             r = [side |-> run.side, usd |-> run.usd + usd, count |-> run.count + 1, first |-> run.first]
    BY <2>1, AccumulatedIs
  <2> HIDE DEF r
  <2> QED
    BY <2>2
<1>4. \A k \in 1 .. n + 1 : tape'[k].usd \in Nat
  BY <1>1, TapeType
<1> HIDE DEF r
<1>5. CASE StartsRun(side, ts)
  <2>1. s = n + 1 /\ s \in 1 .. n + 1
    BY <1>1, <1>3, <1>5
  <2>2. UsdOf(tape', s .. n + 1) = usd
    <3>1. s .. n + 1 = {} \cup {n + 1} /\ n + 1 \in 1 .. n + 1
      BY <1>1, <2>1
    <3>2. UsdOf(tape', {} \cup {n + 1}) = UsdOf(tape', {}) + tape'[n + 1].usd
      <4>1. \A i \in {} \cup {n + 1} : tape'[i].usd \in Nat
        BY <1>4, <3>1
      <4> QED
        BY <4>1, UsdOfOneMore, FS_EmptySet
    <3>3. UsdOf(tape', s .. n + 1) = UsdOf(tape', {} \cup {n + 1})
      BY <3>1, Zenon
    <3> QED
      BY <1>1, <3>2, <3>3, UsdOfNone
  <2> QED
    BY <1>1, <1>2, <1>3, <1>5, <2>1, <2>2 DEF r
<1>6. CASE ~StartsRun(side, ts)
  <2>1. run.count \in Nat /\ run.count > 0 /\ run.side = side /\ ts - run.first <= SweepWindow
    <3>1. run.count \in Nat /\ run.first \in Nat
      BY DEF DetectorTypeOK
    <3> QED
      BY <1>1, <1>2, <1>6, <3>1 DEF StartsRun
  <2>2. /\ run.count <= n
        /\ \A k \in RunStart .. n : tape[k].side = run.side /\ "SWEEP" \notin tape[k].raised
        /\ run.first = tape[RunStart].ts /\ run.usd = UsdOf(tape, RunStart .. n)
    BY <2>1 DEF RunInv, RunIsOnTape
  <2>3. s = RunStart /\ s \in 1 .. n
    <3>1. r.count = run.count + 1
      BY <1>3, <1>6
    <3> QED
      BY <1>1, <2>1, <2>2, <3>1 DEF RunStart
  <2>4. UsdOf(tape', s .. n + 1) = run.usd + usd
    <3>1. s .. n + 1 = (s .. n) \cup {n + 1} /\ n + 1 \notin s .. n /\ s .. n \subseteq 1 .. n
      BY <1>1, <2>3
    <3>2. \A i \in (s .. n) \cup {n + 1} : tape'[i].usd \in Nat
      BY <1>1, <1>4, <3>1
    <3>3. IsFiniteSet(s .. n)
      BY <1>1, <2>3, FS_Interval
    <3>4. UsdOf(tape', (s .. n) \cup {n + 1}) = UsdOf(tape', s .. n) + tape'[n + 1].usd
      BY <3>1, <3>2, <3>3, UsdOfOneMore
    <3>5. UsdOf(tape', s .. n) = UsdOf(tape, s .. n)
      BY <3>1, TapeIsKept
    <3>6. UsdOf(tape', s .. n + 1) = UsdOf(tape', (s .. n) \cup {n + 1})
      BY <3>1, Zenon
    <3> QED
      BY <1>1, <2>2, <2>3, <3>4, <3>5, <3>6
  <2>5. \A k \in s .. n : tape'[k].side = side /\ "SWEEP" \notin tape'[k].raised
    BY <1>1, <2>1, <2>2, <2>3
  <2>6. \A k \in s .. n + 1 : tape'[k].side = side
    BY <1>1, <2>3, <2>5
  <2>7. s \in 1 .. n + 1 /\ tape'[s] = tape[s]
    BY <1>1, <2>3
  <2> HIDE DEF s
  <2> QED
    BY <1>1, <1>3, <1>6, <2>1, <2>2, <2>3, <2>4, <2>5, <2>6, <2>7 DEF r, s
<1> QED
  BY <1>5, <1>6

LEMMA RunStep ==
  ASSUME DetectorTypeOK, RunInv, NEW side, NEW usd, NEW ts, Ticked(side, usd, ts)
  PROVE  RunIsOnTape' /\ NoRunMeansHeard' /\ RunBegan'
<1> DEFINE n == Len(tape)
           r == Accumulated(side, usd, ts)
           s == n + 2 - r.count
<1>1. /\ n \in Nat /\ Len(tape') = n + 1 /\ side \in Sides /\ usd \in Nat /\ ts \in Nat
      /\ tape'[n + 1].ts = ts /\ \A k \in 1 .. n : tape'[k] = tape[k]
      /\ ("SWEEP" \in tape'[n + 1].raised) <=> Sweeps(side, usd, ts)
  BY TapeType DEF Ticked
<1>2. run' = IF Cooling("SWEEP", ts) \/ Sweeps(side, usd, ts) THEN NoRun ELSE r
  BY DEF Ticked, RunAfter
<1>3. run \in [side : Sides, usd : Nat, count : Nat, first : Nat]
  BY DEF DetectorTypeOK
<1>4. r.count \in Nat \ {0} /\ r.side = side
  <2>1. r \in [side : Sides, usd : Nat, count : Nat, first : Nat] /\ r.count >= 1
    BY <1>1, AccumulatedType
  <2>2. r.side = side
    BY <1>3, AccumulatedIs
  <2> HIDE DEF r
  <2> QED
    BY <2>1, <2>2
<1>5. CASE Cooling("SWEEP", ts) \/ Sweeps(side, usd, ts)
  <2>1. run'.count = 0
    BY <1>2, <1>5, NoRunType
  <2>2. HeardAt(tape', n + 1)
    BY <1>5, NewHeard
  <2> QED
    BY <1>1, <2>1, <2>2 DEF RunIsOnTape, NoRunMeansHeard, RunBegan
<1>6. CASE ~(Cooling("SWEEP", ts) \/ Sweeps(side, usd, ts))
  <2>1. run' = r
    BY <1>2, <1>6
  <2>2. r.count < MinTrades \/ r.usd < MinSweep
    <3>1. r \in [side : Sides, usd : Nat, count : Nat, first : Nat]
      BY <1>1, AccumulatedType
    <3>2. ~(r.count >= MinTrades /\ r.usd >= MinSweep)
      BY <1>6 DEF Sweeps
    <3> HIDE DEF r
    <3> QED
      BY <3>1, <3>2, DetectorAssumption
  <2>3. /\ s \in 1 .. n + 1 /\ r.first = tape'[s].ts
        /\ tape'[n + 1].ts - r.first <= SweepWindow
        /\ r.usd = UsdOf(tape', s .. n + 1)
        /\ \A k \in s .. n + 1 : tape'[k].side = side
        /\ \A k \in s .. n : "SWEEP" \notin tape'[k].raised
    BY AccumulatedOnTape
  <2>4. "SWEEP" \notin tape'[n + 1].raised
    BY <1>1, <1>6
  <2>5. RunStart' = s
    <3>1. RunStart' = Len(tape') - run'.count + 1
      BY DEF RunStart
    <3>2. run'.count = r.count
      BY <2>1
    <3> HIDE DEF r
    <3> QED
      BY <1>1, <1>4, <3>1, <3>2
  <2>6. RunIsOnTape'
    <3>1. r.count <= n + 1
      <4> HIDE DEF r
      <4> QED
        BY <1>1, <1>4, <2>3
    <3>2. \A k \in s .. n + 1 : "SWEEP" \notin tape'[k].raised
      <4> HIDE DEF r
      <4>1. \A k \in s .. n + 1 : k \in s .. n \/ k = n + 1
        BY <1>1, <1>4
      <4> QED
        BY <2>3, <2>4, <4>1
    <3> HIDE DEF r, s
    <3> QED
      BY <1>1, <1>4, <2>1, <2>2, <2>3, <2>5, <3>1, <3>2 DEF RunIsOnTape
  <2>7. NoRunMeansHeard'
    <3> HIDE DEF r
    <3> QED
      BY <1>4, <2>1 DEF NoRunMeansHeard
  <2>8. RunBegan'
    <3>1. CASE StartsRun(side, ts)
      <4>1. r.count = 1 /\ s = n + 1
        <5>1. r = [side |-> side, usd |-> usd, count |-> 1, first |-> ts]
          BY <1>3, <3>1, AccumulatedIs
        <5>2. r.count = 1
          BY <5>1
        <5> HIDE DEF r
        <5> QED
          BY <1>1, <5>2
      <4> HIDE DEF s, r
      <4>2. SUFFICES ASSUME n > 0
                     PROVE  \/ HeardAt(tape', n)
                            \/ tape'[n].side # side
                            \/ \E l \in 1 .. n :
                                 /\ tape'[n + 1].ts - tape'[l].ts > SweepWindow
                                 /\ n + 1 - l < MinTrades \/ UsdOf(tape', l .. n) < MinSweep
        <5>1. RunStart' - 1 = n /\ RunStart' = n + 1
          BY <1>1, <2>5, <4>1
        <5> HIDE DEF RunStart
        <5> QED
          BY <1>1, <1>4, <2>1, <5>1 DEF RunBegan
      <4>3. n \in 1 .. n
        BY <1>1, <4>2
      <4>4. CASE run.count = 0
        <5>1. tape # <<>>
          BY <4>3
        <5>2. HeardAt(tape, n)
          BY <4>4, <5>1 DEF RunInv, NoRunMeansHeard
        <5> QED
          BY <4>3, <5>2, TapeIsKept
      <4>5. CASE run.count # 0
        <5>1. run.count > 0
          BY <1>3, <4>5
        <5>2. /\ run.count <= n /\ \A k \in RunStart .. n : tape[k].side = run.side
              /\ run.first = tape[RunStart].ts /\ run.usd = UsdOf(tape, RunStart .. n)
              /\ run.count < MinTrades \/ run.usd < MinSweep
          BY <5>1 DEF RunInv, RunIsOnTape
        <5>3. RunStart \in 1 .. n /\ n + 1 - RunStart = run.count
          BY <1>1, <1>3, <5>1, <5>2 DEF RunStart
        <5>4. CASE run.side # side
          <6>1. tape'[n].side = run.side
            BY <1>1, <4>3, <5>2, <5>3
          <6> QED
            BY <5>4, <6>1
        <5>5. CASE ts - run.first > SweepWindow
          <6>1. tape'[n + 1].ts - tape'[RunStart].ts > SweepWindow
            BY <1>1, <5>2, <5>3, <5>5
          <6>2. UsdOf(tape', RunStart .. n) = UsdOf(tape, RunStart .. n)
            <7>1. RunStart .. n \in SUBSET (1 .. n)
              BY <1>1, <5>3
            <7> QED
              BY <7>1, TapeIsKept
          <6>3. n + 1 - RunStart < MinTrades \/ UsdOf(tape', RunStart .. n) < MinSweep
            BY <5>2, <5>3, <6>2
          <6> HIDE DEF RunStart
          <6> QED
            BY <5>3, <6>1, <6>3
        <5> QED
          BY <3>1, <4>5, <5>4, <5>5 DEF StartsRun
      <4> QED
        BY <4>4, <4>5
    <3>2. CASE ~StartsRun(side, ts)
      <4>1. r.count = run.count + 1
        <5>1. r = [side |-> run.side, usd |-> run.usd + usd, count |-> run.count + 1,
                   first |-> run.first]
          BY <1>3, <3>2, AccumulatedIs
        <5> HIDE DEF r
        <5> QED
          BY <5>1
      <4>2. run.count > 0 /\ run.side = side /\ run.count \in Nat
        BY <1>3, <3>2 DEF StartsRun
      <4> HIDE DEF r
      <4>3. s = RunStart
        BY <1>1, <4>1, <4>2 DEF RunStart
      <4>4. RunStart \in 1 .. n
        <5>1. run.count <= n
          BY <4>2 DEF RunInv, RunIsOnTape
        <5> QED
          BY <1>1, <4>2, <5>1 DEF RunStart
      <4> HIDE DEF s
      <4> SUFFICES ASSUME RunStart > 1
                   PROVE  \/ HeardAt(tape', RunStart - 1)
                          \/ tape'[RunStart - 1].side # side
                          \/ \E l \in 1 .. RunStart - 1 :
                               /\ tape'[RunStart].ts - tape'[l].ts > SweepWindow
                               /\ RunStart - l < MinTrades \/ UsdOf(tape', l .. RunStart - 1) < MinSweep
        <5> HIDE DEF RunStart
        <5> QED
          BY <1>4, <2>1, <2>5, <4>3 DEF RunBegan
      <4>5. \/ HeardAt(tape, RunStart - 1)
            \/ tape[RunStart - 1].side # run.side
            \/ \E l \in 1 .. RunStart - 1 :
                 /\ tape[RunStart].ts - tape[l].ts > SweepWindow
                 /\ RunStart - l < MinTrades \/ UsdOf(tape, l .. RunStart - 1) < MinSweep
        BY <4>2 DEF RunInv, RunBegan
      <4>6. RunStart - 1 \in 1 .. n /\ RunStart \in 1 .. n
        BY <1>1, <4>4
      <4> HIDE DEF RunStart
      <4>7. CASE HeardAt(tape, RunStart - 1)
        BY <4>6, <4>7, TapeIsKept
      <4>8. CASE tape[RunStart - 1].side # run.side
        BY <1>1, <4>2, <4>6, <4>8
      <4>9. ASSUME NEW l \in 1 .. RunStart - 1,
                   tape[RunStart].ts - tape[l].ts > SweepWindow,
                   RunStart - l < MinTrades \/ UsdOf(tape, l .. RunStart - 1) < MinSweep
            PROVE  /\ tape'[RunStart].ts - tape'[l].ts > SweepWindow
                   /\ RunStart - l < MinTrades \/ UsdOf(tape', l .. RunStart - 1) < MinSweep
        <5>1. l \in 1 .. n /\ l .. RunStart - 1 \in SUBSET (1 .. n)
          BY <1>1, <4>6
        <5>2. UsdOf(tape', l .. RunStart - 1) = UsdOf(tape, l .. RunStart - 1)
          BY <5>1, TapeIsKept
        <5> QED
          BY <1>1, <4>6, <4>9, <5>1, <5>2
      <4> QED
        BY <4>5, <4>7, <4>8, <4>9
    <3> QED
      BY <3>1, <3>2
  <2> QED
    BY <2>6, <2>7, <2>8
<1> QED
  BY <1>5, <1>6

LEMMA RunInit == DetectorInit => RunInv
<1> SUFFICES ASSUME DetectorInit PROVE RunInv
  OBVIOUS
<1>1. tape = <<>> /\ Len(tape) = 0 /\ run.count = 0 /\ alerted["SWEEP"] = {}
  BY NoRunType DEF DetectorInit, Kinds
<1> QED
  BY <1>1 DEF RunInv, Ordered, LastSweepOnTape, RunIsOnTape, NoRunMeansHeard, RunBegan

LEMMA RunInvStep == DetectorTypeOK /\ RunInv /\ [DetectorNext]_detectorVars => RunInv'
<1> SUFFICES ASSUME DetectorTypeOK, RunInv, [DetectorNext]_detectorVars PROVE RunInv'
  OBVIOUS
<1>1. CASE DetectorNext
  <2>1. PICK side \in Sides, usd \in Nat \ {0}, ts \in Nat : Ticked(side, usd, ts)
    BY <1>1, TickIs
  <2>2. Ordered' /\ LastSweepOnTape'
    BY <2>1, OrderedStep, LastSweepStep DEF RunInv
  <2>3. RunIsOnTape' /\ NoRunMeansHeard' /\ RunBegan'
    BY <2>1, RunStep
  <2> QED
    BY <2>2, <2>3 DEF RunInv
<1>2. CASE UNCHANGED detectorVars
  <2>1. run' = run /\ alerted' = alerted /\ tape' = tape
    BY <1>2 DEF detectorVars
  <2> QED
    BY <2>1 DEF RunInv, Ordered, LastSweepOnTape, RunIsOnTape, NoRunMeansHeard, RunBegan, RunStart
<1> QED
  BY <1>1, <1>2

(* The run that the sweep detector accumulates is the last trades of the   *)
(* tape, it is no sweep yet, and what came before it ended it.             *)
THEOREM RunCorrect == DetectorSpec => [](DetectorTypeOK /\ RunInv)
<1>1. DetectorInit => DetectorTypeOK /\ RunInv
  BY DetectorTypeInit, RunInit
<1>2. DetectorTypeOK /\ RunInv /\ [DetectorNext]_detectorVars => (DetectorTypeOK /\ RunInv)'
  BY DetectorTypeStep, RunInvStep
<1> QED
  BY <1>1, <1>2, PTL DEF DetectorSpec

-----------------------------------------------------------------------------
(* LiquidityDetectors: bursts are heard.                                   *)

(* MinTrades - 1 trades of one side more than MinTrades, in one window,    *)
(* any MinTrades of which are enough for a sweep.                          *)
Burst(q, j, i) ==
  /\ i - j + 1 = 2 * MinTrades - 1
  /\ \A k \in j .. i : q[k].side = q[i].side
  /\ q[i].ts - q[j].ts <= SweepWindow
  /\ \A k \in j .. i - MinTrades + 1 : UsdOf(q, k .. k + MinTrades - 1) >= MinSweep

Answered(q, j, i) ==
  \/ \E k \in j .. i : "SWEEP" \in q[k].raised
  \/ \E k \in 1 .. j - 1 : "SWEEP" \in q[k].raised /\ q[j].ts - q[k].ts < SweepCooldown

BurstsAnswered ==
  \A j \in DOMAIN tape : \A i \in DOMAIN tape : Burst(tape, j, i) => Answered(tape, j, i)

LEMMA BurstIsHeardMeans == BurstIsHeard <=> BurstsAnswered
BY TotalIsUsd DEF BurstIsHeard, BurstsAnswered, Burst, Answered

(* What is heard within a burst answers it. *)
LEMMA HeardAnswers ==
  ASSUME DetectorTypeOK, Ordered, NEW j \in 1 .. Len(tape), NEW i \in 1 .. Len(tape),
         NEW k \in j .. i, HeardAt(tape, k)
  PROVE  Answered(tape, j, i)
<1>1. k \in 1 .. Len(tape)
  BY TapeType
<1>2. PICK l \in 1 .. k : /\ "SWEEP" \in tape[l].raised
                          /\ l = k \/ tape[k].ts - tape[l].ts < SweepCooldown
  BY DEF HeardAt
<1>3. l \in 1 .. Len(tape)
  BY <1>1, TapeType
<1>4. CASE l \in j .. i
  BY <1>2, <1>4 DEF Answered
<1>5. CASE l \notin j .. i
  <2>1. l \in 1 .. j - 1 /\ l # k
    BY <1>1, <1>5, TapeType
  <2>2. tape[j].ts <= tape[k].ts
    BY <1>1 DEF Ordered
  <2>3. tape[j].ts \in Nat /\ tape[k].ts \in Nat /\ tape[l].ts \in Nat
    BY <1>1, <1>3, TapeType
  <2>4. tape[j].ts - tape[l].ts < SweepCooldown
    BY <1>2, <2>1, <2>2, <2>3, DetectorAssumption
  <2> QED
    BY <1>2, <2>1, <2>4 DEF Answered
<1> QED
  BY <1>4, <1>5

(* MinTrades trades of a burst are not in a run that is no sweep. *)
LEMMA EnoughForSweep ==
  ASSUME DetectorTypeOK, NEW j \in 1 .. Len(tape), NEW i \in 1 .. Len(tape), Burst(tape, j, i),
         NEW k \in j .. i - MinTrades + 1, NEW a \in 1 .. k, NEW b \in 1 .. Len(tape),
         b >= k + MinTrades - 1
  PROVE  b + 1 - a >= MinTrades /\ UsdOf(tape, a .. b) >= MinSweep
<1>1. MinTrades \in Nat /\ MinSweep \in Nat /\ Len(tape) \in Nat
  BY TapeType, DetectorAssumption
<1>2. k \in Nat /\ a \in Nat /\ b \in Nat
  BY <1>1
<1>3. UsdOf(tape, k .. k + MinTrades - 1) >= MinSweep
  BY DEF Burst
<1>4. k .. k + MinTrades - 1 \in SUBSET (a .. b)
  BY <1>1, <1>2
<1>5. IsFiniteSet(a .. b) /\ \A l \in a .. b : tape[l].usd \in Nat
  <2>1. IsFiniteSet(a .. b)
    BY <1>2, FS_Interval
  <2>2. \A l \in a .. b : l \in 1 .. Len(tape)
    BY <1>1, <1>2
  <2> QED
    BY <2>1, <2>2, TapeType
<1>6. UsdOf(tape, k .. k + MinTrades - 1) <= UsdOf(tape, a .. b)
  BY <1>4, <1>5, UsdGrows
<1>7. UsdOf(tape, a .. b) \in Nat /\ UsdOf(tape, k .. k + MinTrades - 1) \in Nat
  <2>1. IsFiniteSet(k .. k + MinTrades - 1) /\ \A l \in k .. k + MinTrades - 1 : tape[l].usd \in Nat
    BY <1>4, <1>5, FS_Subset
  <2> QED
    BY <1>5, <2>1, UsdType
<1>8. b + 1 - a >= MinTrades
  BY <1>1, <1>2
<1> QED
  BY <1>1, <1>3, <1>6, <1>7, <1>8

(* A burst that ends now was answered: it cannot hold two runs.            *)
LastBurstsAnswered ==
  \A j \in 1 .. Len(tape) : Burst(tape, j, Len(tape)) => Answered(tape, j, Len(tape))

LEMMA BurstEndsAnswered == DetectorTypeOK /\ RunInv => LastBurstsAnswered
<1> DEFINE n == Len(tape)
<1> SUFFICES ASSUME DetectorTypeOK, RunInv, NEW j \in 1 .. n, Burst(tape, j, n), ~Answered(tape, j, n)
             PROVE  FALSE
  BY DEF LastBurstsAnswered
<1>1. n \in Nat /\ j \in 1 .. n /\ n \in 1 .. n /\ tape # <<>>
  BY TapeType
<1>2. MinTrades \in Nat /\ MinTrades >= 2 /\ SweepWindow \in Nat /\ MinSweep \in Nat
  BY DetectorAssumption
<1>3. n - j + 1 = 2 * MinTrades - 1 /\ (\A k \in j .. n : tape[k].side = tape[n].side)
      /\ tape[n].ts - tape[j].ts <= SweepWindow
  BY DEF Burst
<1>4. ASSUME NEW k \in j .. n PROVE ~HeardAt(tape, k)
  BY <1>1, <1>4, HeardAnswers DEF RunInv
<1>5. run.count \in Nat /\ run.count > 0 /\ run.usd \in Nat
  <2>1. run.count # 0
    <3>1. ~HeardAt(tape, n)
      BY <1>1, <1>4
    <3> QED
      BY <1>1, <3>1 DEF RunInv, NoRunMeansHeard
  <2> QED
    BY <2>1 DEF DetectorTypeOK
<1>6. /\ run.count <= n /\ \A k \in RunStart .. n : tape[k].side = run.side
      /\ run.usd = UsdOf(tape, RunStart .. n)
      /\ run.count < MinTrades \/ run.usd < MinSweep
  BY <1>5 DEF RunInv, RunIsOnTape
<1>7. RunStart \in 1 .. n /\ n + 1 - RunStart = run.count
  BY <1>1, <1>5, <1>6 DEF RunStart
<1>8. run.side = tape[n].side
  BY <1>1, <1>6, <1>7
<1>9. RunStart > n - MinTrades + 1
  <2> HIDE DEF RunStart
  <2> SUFFICES ASSUME RunStart <= n - MinTrades + 1 PROVE FALSE
    BY <1>1, <1>2, <1>7
  <2> DEFINE k == n - MinTrades + 1
  <2>1. k \in j .. n - MinTrades + 1 /\ RunStart \in 1 .. k /\ n >= k + MinTrades - 1
    BY <1>1, <1>2, <1>3, <1>7
  <2> HIDE DEF k
  <2>2. n + 1 - RunStart >= MinTrades /\ UsdOf(tape, RunStart .. n) >= MinSweep
    BY <1>1, <2>1, EnoughForSweep
  <2> QED
    BY <1>2, <1>5, <1>6, <1>7, <2>2
<1> DEFINE s == RunStart
<1>10. s \in 1 .. n /\ s - 1 \in j .. n /\ s > 1 /\ s - 1 >= j + MinTrades - 1
  BY <1>1, <1>2, <1>3, <1>7, <1>9
<1>11. ~HeardAt(tape, s - 1)
  BY <1>4, <1>10
<1>12. tape[s - 1].side = run.side
  BY <1>3, <1>8, <1>10
<1>13. PICK l \in 1 .. s - 1 :
         /\ tape[s].ts - tape[l].ts > SweepWindow
         /\ s - l < MinTrades \/ UsdOf(tape, l .. s - 1) < MinSweep
  <2> HIDE DEF RunStart
  <2> QED
    BY <1>5, <1>10, <1>11, <1>12 DEF RunInv, RunBegan
<1> HIDE DEF s
<1>14. l \in 1 .. n /\ l < j
  <2>1. l \in 1 .. n
    BY <1>1, <1>10
  <2> SUFFICES ASSUME j <= l PROVE FALSE
    BY <1>1, <2>1
  <2>2. tape[j].ts <= tape[l].ts /\ tape[s].ts <= tape[n].ts
    BY <1>1, <1>10, <2>1 DEF RunInv, Ordered
  <2>3. tape[j].ts \in Nat /\ tape[l].ts \in Nat /\ tape[s].ts \in Nat /\ tape[n].ts \in Nat
    BY <1>1, <1>10, <2>1, TapeType
  <2>4. tape[s].ts - tape[l].ts > SweepWindow /\ tape[n].ts - tape[j].ts <= SweepWindow
    BY <1>3, <1>13
  <2> DEFINE x == tape[s].ts
             y == tape[l].ts
             u == tape[n].ts
             v == tape[j].ts
  <2>5. x \in Nat /\ y \in Nat /\ u \in Nat /\ v \in Nat /\ SweepWindow \in Nat
    BY <1>2, <2>3
  <2>6. v <= y /\ x <= u /\ x - y > SweepWindow /\ u - v <= SweepWindow
    BY <2>2, <2>4
  <2>7. \A a, b, c, d, w \in Nat : ~(d <= b /\ a <= c /\ a - b > w /\ c - d <= w)
    OBVIOUS
  <2> HIDE DEF x, y, u, v
  <2> QED
    BY <2>5, <2>6, <2>7, Zenon
<1>15. s - l >= MinTrades /\ UsdOf(tape, l .. s - 1) >= MinSweep
  <2>1. j \in j .. n - MinTrades + 1 /\ l \in 1 .. j /\ s - 1 \in 1 .. n /\ s - 1 >= j + MinTrades - 1
    BY <1>1, <1>2, <1>3, <1>10, <1>14
  <2>2. (s - 1) + 1 - l >= MinTrades /\ UsdOf(tape, l .. s - 1) >= MinSweep
    BY <1>1, <2>1, EnoughForSweep
  <2> QED
    BY <1>10, <1>14, <2>2
<1>16. UsdOf(tape, l .. s - 1) \in Nat
  <2>1. IsFiniteSet(l .. s - 1)
    BY <1>10, <1>14, FS_Interval
  <2>2. \A k \in l .. s - 1 : k \in 1 .. n
    BY <1>1, <1>10, <1>14
  <2> QED
    BY <2>1, <2>2, UsdType, TapeType
<1> QED
  BY <1>2, <1>10, <1>13, <1>14, <1>15, <1>16

LEMMA BurstKept ==
  ASSUME DetectorTypeOK, NEW side, NEW usd, NEW ts, Ticked(side, usd, ts),
         NEW j \in 1 .. Len(tape), NEW i \in j .. Len(tape)
  PROVE  /\ Burst(tape', j, i) => Burst(tape, j, i)
         /\ Answered(tape, j, i) => Answered(tape', j, i)
<1> DEFINE n == Len(tape)
<1>1. n \in Nat /\ i \in 1 .. n /\ \A k \in 1 .. n : tape'[k] = tape[k]
  BY TapeType DEF Ticked
<1>2. \A k \in j .. i : k \in 1 .. n
  BY <1>1
<1>3. \A k \in 1 .. j - 1 : k \in 1 .. n
  BY <1>1
<1>4. ASSUME NEW k \in j .. i - MinTrades + 1
      PROVE  UsdOf(tape', k .. k + MinTrades - 1) = UsdOf(tape, k .. k + MinTrades - 1)
  <2>1. k .. k + MinTrades - 1 \in SUBSET (1 .. n)
    BY <1>1, DetectorAssumption
  <2> QED
    BY <2>1, TapeIsKept
<1> HIDE DEF n
<1>5. Burst(tape', j, i) => Burst(tape, j, i)
  BY <1>1, <1>2, <1>4 DEF Burst
<1>6. Answered(tape, j, i) => Answered(tape', j, i)
  BY <1>1, <1>2, <1>3 DEF Answered
<1> QED
  BY <1>5, <1>6

LEMMA BurstStep ==
  DetectorTypeOK /\ RunInv /\ BurstIsHeard /\ [DetectorNext]_detectorVars => BurstIsHeard'
<1> SUFFICES ASSUME DetectorTypeOK, RunInv, BurstIsHeard, [DetectorNext]_detectorVars
             PROVE  BurstIsHeard'
  OBVIOUS
<1>1. CASE DetectorNext
  <2> DEFINE n == Len(tape)
  <2>1. PICK side \in Sides, usd \in Nat \ {0}, ts \in Nat : Ticked(side, usd, ts)
    BY <1>1, TickIs
  <2>2. n \in Nat /\ Len(tape') = n + 1 /\ DOMAIN tape' = 1 .. n + 1 /\ DOMAIN tape = 1 .. n
    <3>1. tape' \in Seq(Trades) /\ Len(tape') = n + 1
      BY <2>1 DEF Ticked
    <3> QED
      BY <3>1, TapeType
  <2>3. (DetectorTypeOK /\ RunInv)'
    BY DetectorTypeStep, RunInvStep
  <2>4. \A j \in 1 .. Len(tape') : Burst(tape', j, Len(tape')) => Answered(tape', j, Len(tape'))
    <3>1. LastBurstsAnswered'
      BY <2>3, BurstEndsAnswered, PTL
    <3> QED
      BY <3>1 DEF LastBurstsAnswered
  <2>5. \A j \in 1 .. n : \A i \in 1 .. n : Burst(tape, j, i) => Answered(tape, j, i)
    BY <2>2, BurstIsHeardMeans DEF BurstsAnswered
  <2>6. ASSUME NEW j \in 1 .. n + 1, NEW i \in 1 .. n + 1, Burst(tape', j, i)
        PROVE  Answered(tape', j, i)
    <3>1. CASE i = n + 1
      BY <2>2, <2>4, <2>6, <3>1
    <3>2. CASE i \in 1 .. n
      <4>1. j \in 1 .. n /\ i \in j .. n
        BY <2>2, <2>6, <3>2, DetectorAssumption DEF Burst
      <4> QED
        BY <2>1, <2>5, <2>6, <3>2, <4>1, BurstKept
    <3> QED
      BY <2>2, <3>1, <3>2
  <2>7. BurstsAnswered'
    BY <2>2, <2>6 DEF BurstsAnswered
  <2> QED
    BY <2>7, BurstIsHeardMeans, PTL
<1>2. CASE UNCHANGED detectorVars
  <2>1. tape' = tape
    BY <1>2 DEF detectorVars
  <2> QED
    BY <2>1 DEF BurstIsHeard, Total
<1> QED
  BY <1>1, <1>2

(* For any windows, cooldowns and sizes: no burst of trades of one side    *)
(* goes by without a sweep during it or a cooldown that reaches into it,   *)
(* because a burst of 2 * MinTrades - 1 trades cannot be cut into runs     *)
(* that are all too short (process_tick of the sweep detector).            *)
THEOREM BurstsAreHeard == DetectorSpec => []BurstIsHeard
<1>1. DetectorInit => BurstIsHeard
  BY DEF DetectorInit, BurstIsHeard
<1>2. DetectorTypeOK /\ RunInv /\ BurstIsHeard /\ [DetectorNext]_detectorVars => BurstIsHeard'
  BY BurstStep
<1> QED
  BY <1>1, <1>2, RunCorrect, PTL DEF DetectorSpec

-----------------------------------------------------------------------------
(* LiquidityDetectors: sweeps are genuine.                                 *)

(* The trades j to i of the tape q make the sweep raised at i. *)
MakeSweep(q, j, i) ==
  /\ \A k \in j .. i : q[k].side = q[i].side
  /\ q[i].ts - q[j].ts <= SweepWindow
  /\ UsdOf(q, j .. i) >= MinSweep
  /\ \A k \in j .. i - 1 : "SWEEP" \notin q[k].raised

SweepsMade ==
  \A i \in DOMAIN tape : "SWEEP" \in tape[i].raised =>
                          \E j \in 1 .. i - MinTrades + 1 : MakeSweep(tape, j, i)

LEMMA SweepIsGenuineMeans == SweepIsGenuine <=> SweepsMade
BY TotalIsUsd DEF SweepIsGenuine, SweepsMade, MakeSweep

LEMMA SweepStep ==
  ASSUME DetectorTypeOK, RunInv, SweepIsGenuine, NEW side, NEW usd, NEW ts, Ticked(side, usd, ts)
  PROVE  SweepIsGenuine'
<1> DEFINE n == Len(tape)
           r == Accumulated(side, usd, ts)
           s == n + 2 - r.count
<1>1. /\ n \in Nat /\ Len(tape') = n + 1 /\ DOMAIN tape' = 1 .. n + 1 /\ DOMAIN tape = 1 .. n
      /\ \A k \in 1 .. n : tape'[k] = tape[k]
      /\ ("SWEEP" \in tape'[n + 1].raised) <=> Sweeps(side, usd, ts)
      /\ tape'[n + 1].side = side /\ side \in Sides /\ usd \in Nat /\ ts \in Nat
  <2>1. tape' \in Seq(Trades) /\ Len(tape') = n + 1
    BY DEF Ticked
  <2> QED
    BY <2>1, TapeType DEF Ticked
<1>2. ASSUME NEW i \in 1 .. n, "SWEEP" \in tape'[i].raised
      PROVE  \E j \in 1 .. i - MinTrades + 1 : MakeSweep(tape', j, i)
  <2>1. "SWEEP" \in tape[i].raised
    BY <1>1, <1>2
  <2>2. PICK j \in 1 .. i - MinTrades + 1 : MakeSweep(tape, j, i)
    BY <1>1, <2>1, SweepIsGenuineMeans DEF SweepsMade
  <2>3. j \in 1 .. n /\ j .. i \in SUBSET (1 .. n) /\ \A k \in j .. i - 1 : k \in 1 .. n
    BY <1>1, DetectorAssumption
  <2>4. UsdOf(tape', j .. i) = UsdOf(tape, j .. i)
    BY <2>3, TapeIsKept
  <2>5. \A k \in j .. i : tape'[k] = tape[k]
    BY <1>1, <2>3
  <2>6. \A k \in j .. i - 1 : tape'[k] = tape[k]
    BY <1>1, <2>3
  <2>7. tape'[i] = tape[i] /\ tape'[j] = tape[j]
    BY <1>1, <2>3
  <2>8. MakeSweep(tape', j, i)
    BY <2>2, <2>4, <2>5, <2>6, <2>7 DEF MakeSweep
  <2> QED
    BY <2>8
<1>3. ASSUME NEW i \in 1 .. n + 1, i = n + 1, "SWEEP" \in tape'[i].raised
      PROVE  \E j \in 1 .. i - MinTrades + 1 : MakeSweep(tape', j, i)
  <2>1. r.count >= MinTrades /\ r.usd >= MinSweep
    BY <1>1, <1>3 DEF Sweeps
  <2>2. r.count \in Nat /\ MinTrades \in Nat
    <3>1. r \in [side : Sides, usd : Nat, count : Nat, first : Nat]
      BY <1>1, AccumulatedType
    <3> HIDE DEF r
    <3> QED
      BY <3>1, DetectorAssumption
  <2>3. /\ s \in 1 .. n + 1 /\ r.first = tape'[s].ts
        /\ tape'[n + 1].ts - r.first <= SweepWindow
        /\ r.usd = UsdOf(tape', s .. n + 1)
        /\ \A k \in s .. n + 1 : tape'[k].side = side
        /\ \A k \in s .. n : "SWEEP" \notin tape'[k].raised
    BY AccumulatedOnTape
  <2> HIDE DEF r
  <2>4. s \in 1 .. i - MinTrades + 1 /\ i - 1 = n
    BY <1>1, <1>3, <2>1, <2>2, <2>3
  <2> HIDE DEF s
  <2>5. /\ r.first = tape'[s].ts /\ tape'[i].ts - r.first <= SweepWindow
        /\ r.usd = UsdOf(tape', s .. i) /\ tape'[i].side = side
        /\ \A k \in s .. i : tape'[k].side = side
        /\ \A k \in s .. i - 1 : "SWEEP" \notin tape'[k].raised
    BY <1>1, <1>3, <2>3, <2>4
  <2> HIDE DEF n
  <2>6. MakeSweep(tape', s, i)
    BY <2>1, <2>5 DEF MakeSweep
  <2> QED
    BY <2>4, <2>6
<1>4. \A i \in 1 .. n + 1 : i \in 1 .. n \/ i = n + 1
  BY <1>1
<1> HIDE DEF n
<1>5. SweepsMade'
  <2> SUFFICES ASSUME NEW i \in 1 .. n + 1, "SWEEP" \in tape'[i].raised
               PROVE  \E j \in 1 .. i - MinTrades + 1 : MakeSweep(tape', j, i)
    BY <1>1 DEF SweepsMade
  <2>1. CASE i \in 1 .. n
    BY <1>2, <2>1
  <2>2. CASE i = n + 1
    BY <1>3, <2>2
  <2> QED
    BY <1>4, <2>1, <2>2
<1> QED
  BY <1>5, SweepIsGenuineMeans, PTL

-----------------------------------------------------------------------------
(* LiquidityDetectors: the deque on the tape.                              *)

StartsOf(q) == {BucketOf(q[k].ts) : k \in 1 .. Len(q)}

(* The trades of a side in the bucket that starts at t. *)
Placed(q, side, t) == {k \in 1 .. Len(q) : BucketOf(q[k].ts) = t /\ q[k].side = side}

Ascends(d) == \A k, l \in 1 .. Len(d) : k < l => d[k].start < d[l].start

Sums(d, q) ==
  \A k \in 1 .. Len(d) : /\ d[k].buy = UsdOf(q, Placed(q, "buy", d[k].start))
                         /\ d[k].sell = UsdOf(q, Placed(q, "sell", d[k].start))

OnTape(d, q) == \A k \in 1 .. Len(d) : d[k].start \in StartsOf(q)

(* What it does not hold is older, and it is full. *)
Remembers(d, q) ==
  \A t \in StartsOf(q) : \/ \E k \in 1 .. Len(d) : d[k].start = t
                         \/ Len(d) = HistoryBuckets /\ t < d[1].start

EndsWith(d, q) == q # <<>> => d # <<>> /\ d[Len(d)].start = BucketOf(q[Len(q)].ts)

DequeOf(d, q) == Ascends(d) /\ Sums(d, q) /\ OnTape(d, q) /\ Remembers(d, q) /\ EndsWith(d, q)

DequeInv == DequeOf(buckets, tape)

(* A trade that opens a bucket is later than all buckets. *)
LEMMA NewStartIsLast ==
  ASSUME DetectorTypeOK, Ordered, DequeInv, NEW side, NEW usd, NEW ts, Ticked(side, usd, ts)
  PROVE  /\ \A t \in StartsOf(tape) : t \in Nat /\ t <= BucketOf(ts)
         /\ (buckets # <<>> => buckets[Len(buckets)].start # BucketOf(ts)) =>
              \A t \in StartsOf(tape) : t < BucketOf(ts)
<1> DEFINE n == Len(tape)
<1>1. n \in Nat /\ ts \in Nat /\ (tape # <<>> => tape[n].ts <= ts)
      /\ \A k \in 1 .. n : tape[k].ts \in Nat
  BY TapeType DEF Ticked
<1>2. ASSUME NEW t \in StartsOf(tape)
      PROVE  /\ t \in Nat /\ t <= BucketOf(ts) /\ tape # <<>>
             /\ t <= BucketOf(tape[n].ts) /\ BucketOf(tape[n].ts) <= BucketOf(ts)
             /\ BucketOf(ts) \in Nat /\ BucketOf(tape[n].ts) \in Nat
  <2>1. PICK k \in 1 .. n : t = BucketOf(tape[k].ts)
    BY DEF StartsOf
  <2>2. n \in 1 .. n /\ k <= n /\ tape # <<>>
    BY <1>1, <2>1, TapeType
  <2>3. tape[k].ts <= tape[n].ts /\ tape[n].ts <= ts /\ tape[n].ts \in Nat /\ tape[k].ts \in Nat
    BY <1>1, <2>1, <2>2 DEF Ordered
  <2>4. BucketOf(tape[k].ts) <= BucketOf(tape[n].ts) /\ BucketOf(tape[k].ts) \in Nat
    BY <2>3, BucketsAscend
  <2>5. BucketOf(tape[n].ts) <= BucketOf(ts) /\ BucketOf(tape[n].ts) \in Nat /\ BucketOf(ts) \in Nat
    BY <1>1, <2>3, BucketsAscend
  <2> QED
    BY <2>1, <2>2, <2>4, <2>5
<1>3. ASSUME buckets # <<>> => buckets[Len(buckets)].start # BucketOf(ts), NEW t \in StartsOf(tape)
      PROVE  t < BucketOf(ts)
  <2>1. buckets # <<>> /\ buckets[Len(buckets)].start = BucketOf(tape[n].ts)
    BY <1>2 DEF DequeInv, DequeOf, EndsWith
  <2>2. BucketOf(tape[n].ts) # BucketOf(ts)
    BY <1>3, <2>1
  <2> QED
    BY <1>2, <2>2
<1> QED
  BY <1>2, <1>3

(* What is known of the deque once there is a bucket for the trade.        *)
LEMMA OpenedFits ==
  ASSUME DetectorTypeOK, Ordered, DequeInv, NEW side, NEW usd, NEW ts, Ticked(side, usd, ts)
  PROVE  /\ Ascends(Opened(ts)) /\ Sums(Opened(ts), tape) /\ Remembers(Opened(ts), tape)
         /\ \A k \in 1 .. Len(Opened(ts)) - 1 : Opened(ts)[k].start \in StartsOf(tape)
<1> DEFINE o == Opened(ts)
           b == [start |-> BucketOf(ts), buy |-> 0, sell |-> 0]
           h == Len(buckets)
<1>1. ts \in Nat
  BY DEF Ticked
<1>2. /\ o \in Seq(Buckets) /\ Len(o) \in 1 .. HistoryBuckets
      /\ \/ Reused(o)
         \/ /\ buckets # <<>> => buckets[h].start # BucketOf(ts)
            /\ Extended(o, b) \/ Shifted(o, b)
  BY <1>1, OpenedIs
<1>3. /\ buckets \in Seq(Buckets) /\ h \in Nat
      /\ \A k \in 1 .. h : buckets[k] \in Buckets /\ buckets[k].start \in Nat
  <2>1. buckets \in Seq(Buckets)
    BY DEF DetectorTypeOK, Buckets
  <2>2. \A k \in 1 .. h : buckets[k] \in Buckets
    BY <2>1
  <2> QED
    BY <2>1, <2>2 DEF Buckets
<1>4. Ascends(buckets) /\ Sums(buckets, tape) /\ OnTape(buckets, tape) /\ Remembers(buckets, tape)
  BY DEF DequeInv, DequeOf
<1>5. HistoryBuckets \in Nat /\ HistoryBuckets >= 2
  BY DetectorAssumption
<1> HIDE DEF o
<1>6. CASE Reused(o)
  <2>1. o = buckets
    BY <1>6 DEF Reused
  <2>2. \A k \in 1 .. Len(o) - 1 : o[k].start \in StartsOf(tape)
    BY <1>3, <1>4, <2>1 DEF OnTape
  <2> QED
    BY <1>4, <2>1, <2>2 DEF o
<1>7. CASE ~Reused(o)
  <2>1. \A t \in StartsOf(tape) : t \in Nat /\ t < BucketOf(ts)
    BY <1>2, <1>7, NewStartIsLast
  <2>2. b.start = BucketOf(ts) /\ b.buy = 0 /\ b.sell = 0 /\ BucketOf(ts) \in Nat
    BY <1>1, BucketsAscend
  <2>3. \A k \in 1 .. h : buckets[k].start < b.start
    BY <1>4, <2>1, <2>2 DEF OnTape
  <2>4. b.buy = UsdOf(tape, Placed(tape, "buy", b.start)) /\ b.sell = UsdOf(tape, Placed(tape, "sell", b.start))
    <3>1. Placed(tape, "buy", b.start) = {} /\ Placed(tape, "sell", b.start) = {}
      BY <2>1, <2>2 DEF Placed, StartsOf
    <3>2. UsdOf(tape, Placed(tape, "buy", b.start)) = 0 /\ UsdOf(tape, Placed(tape, "sell", b.start)) = 0
      BY <3>1, UsdOfNone, Zenon
    <3> QED
      BY <2>2, <3>2
  <2> HIDE DEF b
  <2>5. CASE Extended(o, b)
    <3>1. /\ Len(o) = h + 1 /\ o[h + 1] = b /\ \A k \in 1 .. h : o[k] = buckets[k]
      BY <1>3, <2>5 DEF Extended
    <3>2. Ascends(o)
      <4> SUFFICES ASSUME NEW k \in 1 .. h + 1, NEW l \in 1 .. h + 1, k < l
                   PROVE  o[k].start < o[l].start
        BY <3>1 DEF Ascends
      <4>0. h \in Nat
        BY <1>3
      <4> HIDE DEF h
      <4>1. k \in 1 .. h
        BY <4>0
      <4>2. CASE l \in 1 .. h
        BY <1>4, <3>1, <4>1, <4>2 DEF Ascends, h
      <4>3. CASE l = h + 1
        BY <2>3, <3>1, <4>1, <4>3
      <4>4. l \in 1 .. h \/ l = h + 1
        BY <4>0
      <4> QED
        BY <4>2, <4>3, <4>4
    <3>3. Sums(o, tape)
      <4> SUFFICES ASSUME NEW k \in 1 .. h + 1
                   PROVE  /\ o[k].buy = UsdOf(tape, Placed(tape, "buy", o[k].start))
                          /\ o[k].sell = UsdOf(tape, Placed(tape, "sell", o[k].start))
        BY <3>1 DEF Sums
      <4>1. CASE k \in 1 .. h
        BY <1>4, <3>1, <4>1 DEF Sums
      <4>2. CASE k = h + 1
        BY <2>4, <3>1, <4>2
      <4> QED
        BY <1>3, <4>1, <4>2
    <3>4. Remembers(o, tape)
      <4> SUFFICES ASSUME NEW t \in StartsOf(tape) PROVE \E k \in 1 .. h + 1 : o[k].start = t
        BY <3>1 DEF Remembers
      <4>1. PICK k \in 1 .. h : buckets[k].start = t
        BY <1>2, <1>3, <1>4, <1>5, <3>1 DEF Remembers
      <4> QED
        BY <1>3, <3>1, <4>1
    <3>5. \A k \in 1 .. Len(o) - 1 : o[k].start \in StartsOf(tape)
      BY <1>3, <1>4, <3>1 DEF OnTape
    <3> QED
      BY <3>2, <3>3, <3>4, <3>5 DEF o
  <2>6. CASE Shifted(o, b)
    <3> DEFINE H == HistoryBuckets
    <3>1. /\ h = H /\ Len(o) = H /\ o[H] = b /\ \A k \in 1 .. H - 1 : o[k] = buckets[k + 1]
      BY <1>3, <2>6 DEF Shifted
    <3>2. Ascends(o)
      <4> SUFFICES ASSUME NEW k \in 1 .. H, NEW l \in 1 .. H, k < l
                   PROVE  o[k].start < o[l].start
        BY <3>1 DEF Ascends
      <4>1. k \in 1 .. H - 1 /\ k + 1 \in 1 .. h
        BY <1>5, <3>1
      <4>2. CASE l \in 1 .. H - 1
        <5>1. l + 1 \in 1 .. h /\ k + 1 < l + 1
          BY <1>5, <3>1, <4>2
        <5> QED
          BY <1>4, <3>1, <4>1, <4>2, <5>1 DEF Ascends
      <4>3. CASE l = H
        BY <2>3, <3>1, <4>1, <4>3
      <4> QED
        BY <1>5, <4>2, <4>3
    <3>3. Sums(o, tape)
      <4> SUFFICES ASSUME NEW k \in 1 .. H
                   PROVE  /\ o[k].buy = UsdOf(tape, Placed(tape, "buy", o[k].start))
                          /\ o[k].sell = UsdOf(tape, Placed(tape, "sell", o[k].start))
        BY <3>1 DEF Sums
      <4>1. CASE k \in 1 .. H - 1
        <5>1. k + 1 \in 1 .. h
          BY <1>5, <3>1, <4>1
        <5> QED
          BY <1>4, <3>1, <4>1, <5>1 DEF Sums
      <4>2. CASE k = H
        BY <2>4, <3>1, <4>2
      <4> QED
        BY <1>5, <4>1, <4>2
    <3>4. Remembers(o, tape)
      <4>1. 1 \in 1 .. H - 1 /\ 2 \in 1 .. h /\ 1 \in 1 .. h /\ o[1] = buckets[2]
        BY <1>5, <3>1
      <4>2. buckets[1].start < o[1].start /\ buckets[1].start \in Nat /\ o[1].start \in Nat
        BY <1>3, <1>4, <4>1 DEF Ascends
      <4> SUFFICES ASSUME NEW t \in StartsOf(tape), \A k \in 1 .. H : o[k].start # t
                   PROVE  t < o[1].start
        BY <3>1 DEF Remembers
      <4>3. ASSUME NEW k \in 1 .. h, buckets[k].start = t PROVE k = 1
        <5> SUFFICES ASSUME k # 1 PROVE FALSE
          OBVIOUS
        <5>1. k - 1 \in 1 .. H - 1 /\ k - 1 \in 1 .. H /\ (k - 1) + 1 = k
          BY <1>5, <3>1
        <5>2. o[k - 1] = buckets[k]
          BY <3>1, <5>1
        <5> QED
          BY <4>3, <5>1, <5>2
      <4>4. t = buckets[1].start \/ t < buckets[1].start
        BY <1>4, <4>3 DEF Remembers
      <4> QED
        BY <2>1, <4>2, <4>4
    <3>5. \A k \in 1 .. Len(o) - 1 : o[k].start \in StartsOf(tape)
      <4> SUFFICES ASSUME NEW k \in 1 .. H - 1 PROVE o[k].start \in StartsOf(tape)
        BY <3>1
      <4>1. k + 1 \in 1 .. h
        BY <1>5, <3>1
      <4> QED
        BY <1>4, <3>1, <4>1 DEF OnTape
    <3> QED
      BY <3>2, <3>3, <3>4, <3>5 DEF o
  <2> QED
    BY <1>2, <1>7, <2>5, <2>6 DEF b
<1> QED
  BY <1>6, <1>7

LEMMA PlacedType ==
  ASSUME DetectorTypeOK, NEW s, NEW t
  PROVE  /\ Placed(tape, s, t) \in SUBSET (1 .. Len(tape))
         /\ IsFiniteSet(Placed(tape, s, t))
         /\ UsdOf(tape, Placed(tape, s, t)) \in Nat
<1>1. Placed(tape, s, t) \in SUBSET (1 .. Len(tape))
  BY DEF Placed
<1>2. IsFiniteSet(1 .. Len(tape))
  BY TapeType, PlacesFinite
<1>3. IsFiniteSet(Placed(tape, s, t))
  BY <1>1, <1>2, FS_Subset
<1>4. \A i \in Placed(tape, s, t) : tape[i].usd \in Nat
  BY <1>1, TapeType
<1> QED
  BY <1>1, <1>3, <1>4, UsdType

(* A trade adds to its side of its bucket, and to nothing else. *)
LEMMA PlacedOneMore ==
  ASSUME DetectorTypeOK, NEW side, NEW usd, NEW ts, Ticked(side, usd, ts), NEW s, NEW t
  PROVE  UsdOf(tape', Placed(tape', s, t)) =
           UsdOf(tape, Placed(tape, s, t)) + (IF s = side /\ t = BucketOf(ts) THEN usd ELSE 0)
<1> DEFINE n == Len(tape)
           I == Placed(tape, s, t)
<1>1. /\ n \in Nat /\ Len(tape') = n + 1 /\ \A k \in 1 .. n : tape'[k] = tape[k]
      /\ tape'[n + 1].side = side /\ tape'[n + 1].usd = usd /\ tape'[n + 1].ts = ts /\ usd \in Nat
  BY TapeType DEF Ticked
<1>2. I \in SUBSET (1 .. n) /\ IsFiniteSet(I) /\ UsdOf(tape, I) \in Nat
  BY PlacedType
<1>3. UsdOf(tape', I) = UsdOf(tape, I)
  BY <1>2, TapeIsKept
<1>4. 1 .. n + 1 = (1 .. n) \cup {n + 1} /\ n + 1 \notin 1 .. n
  BY <1>1
<1>5. ASSUME s = side, t = BucketOf(ts)
      PROVE  UsdOf(tape', Placed(tape', s, t)) = UsdOf(tape, I) + usd
  <2>1. Placed(tape', s, t) = I \cup {n + 1}
    BY <1>1, <1>4, <1>5 DEF Placed
  <2>2. n + 1 \notin I /\ \A i \in I \cup {n + 1} : tape'[i].usd \in Nat
    BY <1>1, <1>2, <1>4, TapeType
  <2> HIDE DEF I
  <2>3. UsdOf(tape', I \cup {n + 1}) = UsdOf(tape', I) + tape'[n + 1].usd
    BY <1>2, <2>2, UsdOfOneMore
  <2>4. UsdOf(tape', Placed(tape', s, t)) = UsdOf(tape', I \cup {n + 1})
    BY <2>1, Zenon
  <2> QED
    BY <1>1, <1>3, <2>3, <2>4
<1>6. ASSUME ~(s = side /\ t = BucketOf(ts))
      PROVE  UsdOf(tape', Placed(tape', s, t)) = UsdOf(tape, I)
  <2>1. Placed(tape', s, t) = I
    BY <1>1, <1>4, <1>6 DEF Placed
  <2> HIDE DEF I
  <2>2. UsdOf(tape', Placed(tape', s, t)) = UsdOf(tape', I)
    BY <2>1, Zenon
  <2> QED
    BY <1>3, <2>2
<1> HIDE DEF I
<1> QED
  BY <1>2, <1>5, <1>6 DEF I

LEMMA StartsOneMore ==
  ASSUME DetectorTypeOK, NEW side, NEW usd, NEW ts, Ticked(side, usd, ts)
  PROVE  StartsOf(tape') = StartsOf(tape) \cup {BucketOf(ts)}
<1> DEFINE n == Len(tape)
<1>1. /\ n \in Nat /\ Len(tape') = n + 1 /\ \A k \in 1 .. n : tape'[k] = tape[k]
      /\ tape'[n + 1].ts = ts
  BY TapeType DEF Ticked
<1>2. \A k : k \in 1 .. n + 1 <=> k \in 1 .. n \/ k = n + 1
  BY <1>1
<1>3. ASSUME NEW k \in 1 .. n + 1 PROVE BucketOf(tape'[k].ts) \in StartsOf(tape) \cup {BucketOf(ts)}
  <2>1. CASE k \in 1 .. n
    BY <1>1, <2>1 DEF StartsOf
  <2>2. CASE k = n + 1
    BY <1>1, <2>2
  <2> QED
    BY <1>2, <2>1, <2>2
<1>4. ASSUME NEW k \in 1 .. n PROVE BucketOf(tape[k].ts) \in StartsOf(tape')
  <2>1. k \in 1 .. n + 1 /\ tape'[k] = tape[k]
    BY <1>1, <1>2
  <2> QED
    BY <1>1, <2>1 DEF StartsOf
<1>5. BucketOf(ts) \in StartsOf(tape')
  <2>1. n + 1 \in 1 .. n + 1
    BY <1>1
  <2> QED
    BY <1>1, <2>1 DEF StartsOf
<1>6. StartsOf(tape') \subseteq StartsOf(tape) \cup {BucketOf(ts)}
  BY <1>1, <1>3 DEF StartsOf
<1>7. StartsOf(tape) \subseteq StartsOf(tape')
  BY <1>4 DEF StartsOf
<1> QED
  BY <1>5, <1>6, <1>7

LEMMA DequeInit == DetectorInit => DequeInv
<1> SUFFICES ASSUME DetectorInit PROVE DequeInv
  OBVIOUS
<1>1. tape = <<>> /\ buckets = <<>> /\ Len(tape) = 0 /\ Len(buckets) = 0
  BY DEF DetectorInit
<1> QED
  BY <1>1 DEF DequeInv, DequeOf, Ascends, Sums, OnTape, Remembers, EndsWith, StartsOf

LEMMA DequeTick ==
  ASSUME DetectorTypeOK, Ordered, DequeInv, NEW side, NEW usd, NEW ts, Ticked(side, usd, ts)
  PROVE  DequeOf(buckets', tape')
<1> DEFINE o == Opened(ts)
           q == Bucketed(side, usd, ts)
           m == Len(o)
           n == Len(tape)
<1>1. side \in Sides /\ usd \in Nat /\ ts \in Nat /\ buckets' = q
      /\ n \in Nat /\ Len(tape') = n + 1 /\ tape'[n + 1].ts = ts
  BY TapeType DEF Ticked
<1>2. /\ o \in Seq(Buckets) /\ m \in 1 .. HistoryBuckets /\ o[m].start = BucketOf(ts)
  BY <1>1, OpenedIs
<1>3. /\ Ascends(o) /\ Sums(o, tape) /\ Remembers(o, tape)
      /\ \A k \in 1 .. m - 1 : o[k].start \in StartsOf(tape)
  BY OpenedFits
<1>4. /\ q \in Seq(Buckets) /\ Len(q) = m
      /\ \A k \in 1 .. m - 1 : q[k] = o[k]
      /\ q[m].start = o[m].start
      /\ q[m].buy = o[m].buy + (IF side = "buy" THEN usd ELSE 0)
      /\ q[m].sell = o[m].sell + (IF side = "sell" THEN usd ELSE 0)
  <2>1. side \in Sides /\ usd \in Nat /\ ts \in Nat
    BY <1>1
  <2> QED
    BY <2>1, BucketedIs, Zenon
<1>5. StartsOf(tape') = StartsOf(tape) \cup {BucketOf(ts)}
  BY StartsOneMore
<1>6. m \in Nat /\ m >= 1 /\ \A k \in 1 .. m : k \in 1 .. m - 1 \/ k = m
  BY <1>2, DetectorAssumption
<1> HIDE DEF o, q
<1> HIDE DEF m
<1>7. \A k \in 1 .. m : q[k].start = o[k].start
  BY <1>4, <1>6
<1>8. Ascends(q)
  BY <1>3, <1>4, <1>7 DEF Ascends, m
<1>9. Sums(q, tape')
  <2> SUFFICES ASSUME NEW k \in 1 .. m
               PROVE  /\ q[k].buy = UsdOf(tape', Placed(tape', "buy", q[k].start))
                      /\ q[k].sell = UsdOf(tape', Placed(tape', "sell", q[k].start))
    BY <1>4 DEF Sums
  <2> DEFINE t == o[k].start
  <2>1. o[k].buy = UsdOf(tape, Placed(tape, "buy", t)) /\ o[k].sell = UsdOf(tape, Placed(tape, "sell", t))
    BY <1>3 DEF Sums, m
  <2>2. q[k].start = t
    BY <1>7
  <2> HIDE DEF t
  <2>3. /\ UsdOf(tape', Placed(tape', "buy", t)) =
             o[k].buy + (IF "buy" = side /\ t = BucketOf(ts) THEN usd ELSE 0)
        /\ UsdOf(tape', Placed(tape', "sell", t)) =
             o[k].sell + (IF "sell" = side /\ t = BucketOf(ts) THEN usd ELSE 0)
    BY <2>1, PlacedOneMore
  <2>4. o[k].buy \in Nat /\ o[k].sell \in Nat
    BY <2>1, PlacedType
  <2>5. CASE k \in 1 .. m - 1
    <3>1. q[k] = o[k]
      BY <1>4, <2>5
    <3>2. t # BucketOf(ts)
      <4>1. t < o[m].start
        BY <1>3, <1>6, <2>5 DEF Ascends, m, t
      <4>2. o[m] \in Buckets
        BY <1>2, <1>6 DEF m
      <4> QED
        BY <1>2, <4>1, <4>2 DEF Buckets
    <3> QED
      BY <2>2, <2>3, <2>4, <3>1, <3>2
  <2>6. CASE k = m
    <3>1. t = BucketOf(ts)
      BY <1>2, <2>6 DEF t
    <3> QED
      BY <1>4, <2>2, <2>3, <2>6, <3>1
  <2> QED
    BY <1>6, <2>5, <2>6
<1>10. OnTape(q, tape')
  <2> SUFFICES ASSUME NEW k \in 1 .. m PROVE o[k].start \in StartsOf(tape) \cup {BucketOf(ts)}
    BY <1>4, <1>5, <1>7 DEF OnTape
  <2> QED
    BY <1>2, <1>3, <1>6
<1>11. Remembers(q, tape')
  <2> SUFFICES ASSUME NEW t \in StartsOf(tape) \cup {BucketOf(ts)}
               PROVE  (\E k \in 1 .. m : o[k].start = t) \/ (m = HistoryBuckets /\ t < o[1].start)
    <3>1. q[1].start = o[1].start
      BY <1>6, <1>7
    <3> QED
      BY <1>4, <1>5, <1>7, <3>1 DEF Remembers
  <2>1. CASE t \in StartsOf(tape)
    BY <1>3, <2>1 DEF Remembers, m
  <2>2. CASE t = BucketOf(ts)
    BY <1>2, <1>6, <2>2
  <2> QED
    BY <2>1, <2>2
<1>12. EndsWith(q, tape')
  <2>1. q # <<>> /\ q[Len(q)].start = BucketOf(tape'[Len(tape')].ts)
    BY <1>1, <1>2, <1>4, <1>6
  <2> QED
    BY <2>1 DEF EndsWith
<1> QED
  BY <1>1, <1>8, <1>9, <1>10, <1>11, <1>12 DEF DequeOf

LEMMA DequeStep == DetectorTypeOK /\ Ordered /\ DequeInv /\ [DetectorNext]_detectorVars => DequeInv'
<1> SUFFICES ASSUME DetectorTypeOK, Ordered, DequeInv, [DetectorNext]_detectorVars PROVE DequeInv'
  OBVIOUS
<1>1. CASE DetectorNext
  <2>1. PICK side \in Sides, usd \in Nat \ {0}, ts \in Nat : Ticked(side, usd, ts)
    BY <1>1, TickIs
  <2>2. DequeOf(buckets', tape')
    BY <2>1, DequeTick
  <2> QED
    BY <2>2 DEF DequeInv
<1>2. CASE UNCHANGED detectorVars
  <2>1. buckets' = buckets /\ tape' = tape
    BY <1>2 DEF detectorVars
  <2> QED
    BY <2>1 DEF DequeInv
<1> QED
  BY <1>1, <1>2

-----------------------------------------------------------------------------
(* LiquidityDetectors: pulses are genuine.                                 *)

StartsTo(q, i) == {BucketOf(q[k].ts) : k \in 1 .. i} \ {BucketOf(q[i].ts)}

(* The buckets before that of the trade i, as far back as the deque goes.  *)
KnownTo(q, i) ==
  {t \in StartsTo(q, i) : Cardinality({u \in StartsTo(q, i) : u > t}) < HistoryBuckets - 1}

FlowIn(q, t, i) ==
  LET I == {k \in 1 .. i : BucketOf(q[k].ts) = t}
  IN Abs(UsdOf(q, {k \in I : q[k].side = "buy"}) - UsdOf(q, {k \in I : q[k].side = "sell"}))

(* Of the buckets B, those whose flow is at most c / K. *)
Quiet(q, B, c, i) == {t \in B : K * FlowIn(q, t, i) <= c}

StandsOut(q, i) ==
  LET c == FlowIn(q, BucketOf(q[i].ts), i)
  IN /\ Cardinality(KnownTo(q, i)) >= MinHistory
     /\ c >= MinPulse
     /\ 2 * Cardinality(Quiet(q, KnownTo(q, i), c, i)) >= Cardinality(KnownTo(q, i))

PulsesStandOut == \A i \in DOMAIN tape : "OFI_PULSE" \in tape[i].raised => StandsOut(tape, i)

LEMMA PulseIsGenuineMeans == PulseIsGenuine <=> PulsesStandOut
<1>1. \A t, i : Flow(t, i) = FlowIn(tape, t, i)
  BY TotalIsUsd DEF Flow, FlowIn
<1>2. ASSUME NEW i
      PROVE  StandsOut(tape, i) <=>
               LET current == BucketOf(tape[i].ts)
                   starts == {BucketOf(tape[k].ts) : k \in 1 .. i} \ {current}
                   known == {t \in starts : Cardinality({u \in starts : u > t}) < HistoryBuckets - 1}
               IN /\ Cardinality(known) >= MinHistory
                  /\ Flow(current, i) >= MinPulse
                  /\ 2 * Cardinality({t \in known : K * Flow(t, i) <= Flow(current, i)})
                       >= Cardinality(known)
  BY <1>1, Zenon DEF StandsOut, Quiet, KnownTo, StartsTo
<1> QED
  BY <1>2, Zenon DEF PulseIsGenuine, PulsesStandOut

(* Later trades change nothing of that. *)
LEMMA StandsOutStays ==
  ASSUME DetectorTypeOK, NEW side, NEW usd, NEW ts, Ticked(side, usd, ts),
         NEW i \in 1 .. Len(tape), StandsOut(tape, i)
  PROVE  StandsOut(tape', i)
<1>1. /\ \A k \in 1 .. i : k \in 1 .. Len(tape) /\ tape'[k] = tape[k]
      /\ tape'[i] = tape[i] /\ i \in 1 .. i
  BY TapeType DEF Ticked
<1>2. ASSUME NEW t PROVE FlowIn(tape', t, i) = FlowIn(tape, t, i)
  <2> DEFINE B(q) == {k \in {k \in 1 .. i : BucketOf(q[k].ts) = t} : q[k].side = "buy"}
             S(q) == {k \in {k \in 1 .. i : BucketOf(q[k].ts) = t} : q[k].side = "sell"}
  <2>1. B(tape') = B(tape) /\ S(tape') = S(tape)
    BY <1>1
  <2>2. B(tape) \in SUBSET (1 .. Len(tape)) /\ S(tape) \in SUBSET (1 .. Len(tape))
    BY <1>1
  <2>3. /\ FlowIn(tape', t, i) = Abs(UsdOf(tape', B(tape')) - UsdOf(tape', S(tape')))
        /\ FlowIn(tape, t, i) = Abs(UsdOf(tape, B(tape)) - UsdOf(tape, S(tape)))
    BY DEF FlowIn
  <2> HIDE DEF B, S
  <2>4. UsdOf(tape', B(tape)) = UsdOf(tape, B(tape)) /\ UsdOf(tape', S(tape)) = UsdOf(tape, S(tape))
    BY <2>2, TapeIsKept
  <2> QED
    BY <2>1, <2>3, <2>4, Zenon
<1>3. StartsTo(tape', i) = StartsTo(tape, i)
  <2>1. {BucketOf(tape'[k].ts) : k \in 1 .. i} = {BucketOf(tape[k].ts) : k \in 1 .. i}
    BY <1>1
  <2> QED
    BY <1>1, <2>1 DEF StartsTo
<1>4. KnownTo(tape', i) = KnownTo(tape, i)
  BY <1>3, Zenon DEF KnownTo
<1>5. ASSUME NEW c PROVE Quiet(tape', KnownTo(tape, i), c, i) = Quiet(tape, KnownTo(tape, i), c, i)
  BY <1>2 DEF Quiet
<1>6. BucketOf(tape'[i].ts) = BucketOf(tape[i].ts)
  BY <1>1
<1> QED
  BY <1>2, <1>4, <1>5, <1>6, Zenon DEF StandsOut

LEMMA StartsAreFinite ==
  ASSUME NEW q \in Seq(Trades)
  PROVE  IsFiniteSet(StartsOf(q))
<1> DEFINE f == [k \in 1 .. Len(q) |-> BucketOf(q[k].ts)]
<1>1. IsFiniteSet(1 .. Len(q))
  BY PlacesFinite
<1>2. f \in Surjection(1 .. Len(q), StartsOf(q))
  BY DEF Surjection, StartsOf
<1> QED
  BY <1>1, <1>2, FS_Surjection

(* What the deque knows is the flows of its buckets. *)
LEMMA FlowIs ==
  ASSUME NEW d \in Seq(Buckets), NEW q \in Seq(Trades), DequeOf(d, q), NEW k \in 1 .. Len(d)
  PROVE  FlowIn(q, d[k].start, Len(q)) = Imbalance(d[k]) /\ Imbalance(d[k]) \in Nat
<1> DEFINE t == d[k].start
           I == {j \in 1 .. Len(q) : BucketOf(q[j].ts) = t}
<1>1. {j \in I : q[j].side = "buy"} = Placed(q, "buy", t)
      /\ {j \in I : q[j].side = "sell"} = Placed(q, "sell", t)
  BY DEF Placed
<1>2. d[k].buy = UsdOf(q, Placed(q, "buy", t)) /\ d[k].sell = UsdOf(q, Placed(q, "sell", t))
  BY DEF DequeOf, Sums
<1>3. FlowIn(q, t, Len(q)) = Abs(UsdOf(q, {j \in I : q[j].side = "buy"})
                                 - UsdOf(q, {j \in I : q[j].side = "sell"}))
  BY DEF FlowIn
<1>4. d[k].buy \in Nat /\ d[k].sell \in Nat
  <2>1. d[k] \in Buckets
    OBVIOUS
  <2> QED
    BY <2>1 DEF Buckets
<1>5. FlowIn(q, t, Len(q)) = Abs(d[k].buy - d[k].sell)
  BY <1>1, <1>2, <1>3, Zenon
<1> QED
  BY <1>4, <1>5 DEF Imbalance, Abs

(* The starts of the deque but its last. *)
StartsBefore(d) == {d[k].start : k \in 1 .. Len(d) - 1}

LEMMA StartsBeforeSize ==
  ASSUME NEW d \in Seq(Buckets), Ascends(d), d # <<>>
  PROVE  /\ IsFiniteSet(StartsBefore(d)) /\ Cardinality(StartsBefore(d)) = Len(d) - 1
         /\ \A k, l \in 1 .. Len(d) : d[k].start = d[l].start => k = l
         /\ \A k \in 1 .. Len(d) : d[k].start \in Nat
<1> DEFINE m == Len(d)
           f == [k \in 1 .. m - 1 |-> d[k].start]
<1>1. m \in Nat /\ m >= 1 /\ m - 1 \in Int /\ 1 \in Int
  OBVIOUS
<1>2. \A k \in 1 .. m : d[k].start \in Nat
  <2>1. \A k \in 1 .. m : d[k] \in Buckets
    OBVIOUS
  <2> QED
    BY <2>1 DEF Buckets
<1>3. \A k, l \in 1 .. m : d[k].start = d[l].start => k = l
  BY <1>1, <1>2 DEF Ascends
<1>4. IsFiniteSet(1 .. m - 1) /\ Cardinality(1 .. m - 1) = m - 1
  <2>1. IsFiniteSet(1 .. m - 1) /\ Cardinality(1 .. m - 1) = IF 1 > m - 1 THEN 0 ELSE (m - 1) - 1 + 1
    BY <1>1, FS_Interval, Zenon
  <2> QED
    BY <1>1, <2>1
<1>5. f \in Surjection(1 .. m - 1, StartsBefore(d))
  BY DEF Surjection, StartsBefore
<1>6. f \in Injection(1 .. m - 1, StartsBefore(d))
  <2>1. \A k \in 1 .. m - 1 : k \in 1 .. m
    BY <1>1
  <2>2. \A k, l \in 1 .. m - 1 : f[k] = f[l] => k = l
    BY <1>3, <2>1
  <2>3. f \in [1 .. m - 1 -> StartsBefore(d)]
    BY DEF StartsBefore
  <2> HIDE DEF f
  <2> QED
    BY <2>2, <2>3, Zenon DEF Injection, IsInjective
<1>7. IsFiniteSet(StartsBefore(d)) /\ Cardinality(StartsBefore(d)) = Cardinality(1 .. m - 1)
  BY <1>4, <1>5, <1>6, FS_Surjection
<1> QED
  BY <1>2, <1>3, <1>4, <1>7

(* The deque holds the buckets that count, and no other. *)
LEMMA DequeKnows ==
  ASSUME NEW d \in Seq(Buckets), Len(d) <= HistoryBuckets,
         NEW q \in Seq(Trades), q # <<>>, DequeOf(d, q)
  PROVE  KnownTo(q, Len(q)) = StartsBefore(d)
<1> DEFINE n == Len(q)
           m == Len(d)
           S == StartsTo(q, n)
           Later(t) == {u \in S : u > t}
<1>1. d # <<>> /\ d[m].start = BucketOf(q[n].ts) /\ Ascends(d) /\ OnTape(d, q) /\ Remembers(d, q)
  BY DEF DequeOf, EndsWith
<1>2. m \in Nat /\ m >= 1 /\ n \in Nat /\ HistoryBuckets \in Nat /\ HistoryBuckets >= 2
  BY <1>1, DetectorAssumption
<1>3. S = StartsOf(q) \ {d[m].start}
  BY <1>1 DEF StartsTo, StartsOf
<1>4. /\ IsFiniteSet(StartsBefore(d)) /\ Cardinality(StartsBefore(d)) = m - 1
      /\ \A k \in 1 .. m : d[k].start \in Nat
  BY <1>1, StartsBeforeSize
<1>5. \A t \in StartsOf(q) : t \in Nat
  <2>1. ASSUME NEW k \in 1 .. n PROVE BucketOf(q[k].ts) \in Nat
    <3>1. q[k] \in Trades
      OBVIOUS
    <3>2. q[k].ts \in Nat /\ q[k].ts <= q[k].ts
      BY <3>1 DEF Trades
    <3> QED
      BY <3>2, BucketsAscend
  <2> QED
    BY <2>1 DEF StartsOf
<1>6. \A k, l \in 1 .. m : k < l => d[k].start < d[l].start
  BY <1>1 DEF Ascends
<1>7. IsFiniteSet(S)
  <2>1. IsFiniteSet(StartsOf(q)) /\ S \in SUBSET StartsOf(q)
    BY <1>3, StartsAreFinite
  <2> QED
    BY <2>1, FS_Subset
<1>8. ASSUME NEW t \in S
      PROVE  Cardinality(Later(t)) \in Nat
  <2>1. IsFiniteSet(Later(t))
    BY <1>7, FS_Subset
  <2> QED
    BY <2>1, FS_CardinalityType
<1>9. ASSUME NEW k \in 1 .. m - 1
      PROVE  d[k].start \in S /\ Cardinality(Later(d[k].start)) < HistoryBuckets - 1
  <2> DEFINE t == d[k].start
             D == StartsBefore(d) \ {d[1].start}
  <2>1. k \in 1 .. m /\ m \in 1 .. m /\ 1 \in 1 .. m /\ 1 \in 1 .. m - 1 /\ k < m
    BY <1>2
  <2>2. t \in S
    <3>1. t # d[m].start
      BY <1>4, <1>6, <2>1
    <3> QED
      BY <1>1, <1>3, <2>1, <3>1 DEF OnTape
  <2>3. d[1].start <= t
    <3>1. k = 1 \/ 1 < k
      BY <1>2
    <3> QED
      BY <1>4, <1>6, <2>1, <3>1
  <2>4. ASSUME NEW u \in Later(t) PROVE u \in D
    <3>1. u \in StartsOf(q) /\ u # d[m].start /\ u > t /\ u \in Nat /\ t \in Nat /\ d[1].start \in Nat
      BY <1>3, <1>4, <1>5, <2>1
    <3>2. PICK l \in 1 .. m : d[l].start = u
      BY <1>1, <2>3, <3>1 DEF Remembers
    <3>3. l \in 1 .. m - 1
      BY <1>2, <3>1, <3>2
    <3>4. u \in StartsBefore(d)
      BY <3>2, <3>3 DEF StartsBefore
    <3>5. u # d[1].start
      BY <2>3, <3>1
    <3> QED
      BY <3>4, <3>5
  <2>5. d[1].start \in StartsBefore(d)
    BY <2>1 DEF StartsBefore
  <2>6. IsFiniteSet(D) /\ Cardinality(D) = m - 2
    <3>1. IsFiniteSet(D) /\ Cardinality(D) = Cardinality(StartsBefore(d)) - 1
      BY <1>4, <2>5, FS_RemoveElement
    <3> QED
      BY <1>2, <1>4, <3>1
  <2> HIDE DEF D
  <2>7. Cardinality(Later(t)) <= Cardinality(D)
    <3>1. Later(t) \in SUBSET D
      BY <2>4
    <3> QED
      BY <2>6, <3>1, FS_Subset
  <2>8. Cardinality(Later(t)) \in Nat
    BY <1>8, <2>2
  <2>9. m <= HistoryBuckets
    OBVIOUS
  <2> HIDE DEF Later
  <2> QED
    BY <1>2, <2>2, <2>6, <2>7, <2>8, <2>9
<1>10. ASSUME NEW t \in S, t \notin StartsBefore(d)
       PROVE  Cardinality(Later(t)) >= HistoryBuckets - 1
  <2>1. t \in StartsOf(q) /\ t # d[m].start /\ t \in Nat
    BY <1>3, <1>5, <1>10
  <2>2. \A k \in 1 .. m : d[k].start # t
    <3>1. \A k \in 1 .. m : k \in 1 .. m - 1 \/ k = m
      BY <1>2
    <3> QED
      BY <1>10, <2>1, <3>1 DEF StartsBefore
  <2>3. m = HistoryBuckets /\ t < d[1].start
    BY <1>1, <2>1, <2>2 DEF Remembers
  <2>4. ASSUME NEW k \in 1 .. m - 1 PROVE d[k].start \in Later(t)
    <3>1. k \in 1 .. m /\ 1 \in 1 .. m /\ (k = 1 \/ 1 < k)
      BY <1>2
    <3>2. d[k].start \in Nat /\ d[1].start \in Nat /\ d[1].start <= d[k].start
      BY <1>4, <1>6, <3>1
    <3>3. d[k].start \in S
      BY <1>9
    <3>4. d[k].start > t
      BY <2>1, <2>3, <3>2
    <3> HIDE DEF S
    <3> QED
      BY <3>3, <3>4
  <2>5. StartsBefore(d) \in SUBSET Later(t)
    BY <2>4 DEF StartsBefore
  <2>6. IsFiniteSet(Later(t))
    BY <1>7, FS_Subset
  <2>7. Cardinality(StartsBefore(d)) <= Cardinality(Later(t))
    BY <2>5, <2>6, FS_Subset
  <2> HIDE DEF Later
  <2> QED
    BY <1>4, <2>3, <2>7
<1>11. KnownTo(q, n) = {t \in S : Cardinality(Later(t)) < HistoryBuckets - 1}
  BY DEF KnownTo
<1>12. StartsBefore(d) \subseteq KnownTo(q, n)
  <2> HIDE DEF S, Later
  <2> QED
    BY <1>9, <1>11 DEF StartsBefore
<1>13. KnownTo(q, n) \subseteq StartsBefore(d)
  <2> SUFFICES ASSUME NEW t \in S, Cardinality(Later(t)) < HistoryBuckets - 1, t \notin StartsBefore(d)
               PROVE  FALSE
    BY <1>11
  <2>1. Cardinality(Later(t)) \in Nat /\ Cardinality(Later(t)) >= HistoryBuckets - 1
    BY <1>8, <1>10
  <2> HIDE DEF S, Later
  <2> QED
    BY <1>2, <2>1
<1> QED
  BY <1>12, <1>13

(* The conditions of a pulse, but for the cooldown. *)
Notable(d) ==
  /\ Len(d) >= MinHistory + 1
  /\ Imbalance(d[Len(d)]) >= MinPulse
  /\ IF Median2(Earlier(d)) = 0 THEN Imbalance(d[Len(d)]) >= 5 * MinPulse
                                ELSE 2 * Imbalance(d[Len(d)]) >= K * Median2(Earlier(d))

LEMMA PulsesAreNotable ==
  ASSUME NEW d, NEW ts, Pulses(d, ts)
  PROVE  Notable(d)
BY DEF Pulses, Notable

LEMMA NotableStandsOut ==
  ASSUME NEW d \in Seq(Buckets), Len(d) <= HistoryBuckets,
         NEW q \in Seq(Trades), q # <<>>, DequeOf(d, q), Notable(d)
  PROVE  StandsOut(q, Len(q))
<1> DEFINE n == Len(q)
           m == Len(d)
           c == Imbalance(d[m])
           s == Earlier(d)
           Small == {k \in DOMAIN s : K * s[k] <= c}
           Q == Quiet(q, StartsBefore(d), c, n)
<1>1. d # <<>> /\ d[m].start = BucketOf(q[n].ts) /\ Ascends(d)
  BY DEF DequeOf, EndsWith
<1>2. m \in Nat /\ m >= MinHistory + 1 /\ MinHistory \in Nat /\ MinHistory >= 2 /\ K \in Nat
      /\ m \in 1 .. m
  BY <1>1, DetectorAssumption DEF Notable
<1>3. KnownTo(q, n) = StartsBefore(d)
  BY DequeKnows
<1>4. /\ IsFiniteSet(StartsBefore(d)) /\ Cardinality(StartsBefore(d)) = m - 1
      /\ \A k, l \in 1 .. m : d[k].start = d[l].start => k = l
  BY <1>1, StartsBeforeSize
<1>5. \A k \in 1 .. m : FlowIn(q, d[k].start, n) = Imbalance(d[k]) /\ Imbalance(d[k]) \in Nat
  BY FlowIs
<1>6. FlowIn(q, BucketOf(q[n].ts), n) = c /\ c \in Nat
  BY <1>1, <1>2, <1>5, Zenon
<1>7. s \in Seq(Nat) /\ Len(s) = m - 1 /\ DOMAIN s = 1 .. m - 1
      /\ \A k \in 1 .. m - 1 : k \in 1 .. m /\ s[k] = Imbalance(d[k])
  <2>1. m - 1 \in Nat /\ \A k \in 1 .. m - 1 : k \in 1 .. m
    BY <1>2
  <2>2. \A k \in 1 .. m - 1 : Imbalance(d[k]) \in Nat
    BY <1>5, <2>1
  <2>3. s = [k \in 1 .. m - 1 |-> Imbalance(d[k])]
    BY DEF Earlier
  <2>4. s \in [1 .. m - 1 -> Nat]
    BY <2>2, <2>3
  <2>5. DOMAIN s = 1 .. m - 1 /\ \A k \in 1 .. m - 1 : s[k] = Imbalance(d[k])
    BY <2>3
  <2> HIDE DEF s, m
  <2>6. s \in Seq(Nat) /\ Len(s) = m - 1
    BY <2>1, <2>4
  <2> QED
    BY <2>1, <2>5, <2>6
<1>8. 2 * c >= K * Median2(s)
  <2>1. CASE Median2(s) = 0
    <3>1. K * Median2(s) = 0
      BY <1>2, <2>1
    <3> QED
      BY <1>6, <3>1
  <2>2. CASE Median2(s) # 0
    BY <2>2 DEF Notable
  <2> QED
    BY <2>1, <2>2
<1>9. c >= MinPulse
  BY DEF Notable
<1> HIDE DEF c, s
<1>10. 2 * Cardinality(Small) >= m - 1
  <2>1. s # <<>>
    BY <1>2, <1>7
  <2> QED
    BY <1>2, <1>6, <1>7, <1>8, <2>1, HalfIsSmall
<1>11. IsFiniteSet(Q)
  <2>1. Q \in SUBSET StartsBefore(d)
    BY DEF Quiet
  <2> QED
    BY <1>4, <2>1, FS_Subset
<1>12. Cardinality(Small) <= Cardinality(Q) /\ IsFiniteSet(Small)
  <2> DEFINE f == [k \in Small |-> d[k].start]
  <2>1. ASSUME NEW k \in Small PROVE d[k].start \in Q /\ k \in 1 .. m
    <3>1. k \in 1 .. m - 1 /\ k \in 1 .. m /\ s[k] = Imbalance(d[k]) /\ K * s[k] <= c
      BY <1>7
    <3>2. FlowIn(q, d[k].start, n) = Imbalance(d[k])
      BY <1>5, <3>1
    <3>3. d[k].start \in StartsBefore(d)
      BY <3>1 DEF StartsBefore
    <3> QED
      BY <3>1, <3>2, <3>3 DEF Quiet
  <2> HIDE DEF Small, Q
  <2>2. f \in [Small -> Q]
    BY <2>1
  <2>3. \A k, l \in Small : f[k] = f[l] => k = l
    BY <1>4, <2>1
  <2> HIDE DEF f
  <2>4. f \in Injection(Small, Q)
    BY <2>2, <2>3, Zenon DEF Injection, IsInjective
  <2> QED
    BY <1>11, <2>4, FS_Injection
<1>13. Cardinality(Small) \in Nat /\ Cardinality(Q) \in Nat
  BY <1>11, <1>12, FS_CardinalityType
<1> HIDE DEF Small
<1>14. 2 * Cardinality(Q) >= m - 1
  <2> HIDE DEF Q
  <2> QED
    BY <1>2, <1>10, <1>12, <1>13
<1>15. m - 1 >= MinHistory
  BY <1>2
<1> QED
  BY <1>3, <1>4, <1>6, <1>9, <1>14, <1>15 DEF StandsOut

LEMMA PulseStep ==
  ASSUME DetectorTypeOK, Ordered, DequeInv, PulseIsGenuine,
         NEW side, NEW usd, NEW ts, Ticked(side, usd, ts)
  PROVE  PulseIsGenuine'
<1> DEFINE n == Len(tape)
<1>1. /\ n \in Nat /\ Len(tape') = n + 1 /\ DOMAIN tape' = 1 .. n + 1 /\ DOMAIN tape = 1 .. n
      /\ \A k \in 1 .. n : tape'[k] = tape[k]
      /\ ("OFI_PULSE" \in tape'[n + 1].raised) <=> Pulses(buckets', ts)
      /\ tape' \in Seq(Trades)
  <2>1. tape' \in Seq(Trades) /\ Len(tape') = n + 1
    BY DEF Ticked
  <2> QED
    BY <2>1, TapeType DEF Ticked
<1>2. ASSUME NEW i \in 1 .. n, "OFI_PULSE" \in tape'[i].raised PROVE StandsOut(tape', i)
  <2>1. "OFI_PULSE" \in tape[i].raised
    BY <1>1, <1>2
  <2>2. StandsOut(tape, i)
    BY <1>1, <2>1, PulseIsGenuineMeans DEF PulsesStandOut
  <2> QED
    BY <2>2, StandsOutStays
<1>3. ASSUME "OFI_PULSE" \in tape'[n + 1].raised PROVE StandsOut(tape', n + 1)
  <2>1. Notable(buckets')
    BY <1>1, <1>3, PulsesAreNotable
  <2>2. DequeOf(buckets', tape')
    BY DequeTick
  <2>3. buckets' \in Seq(Buckets) /\ Len(buckets') <= HistoryBuckets
    <3>1. DetectorTypeOK'
      BY TickType
    <3> QED
      BY <3>1 DEF DetectorTypeOK, Buckets
  <2>4. tape' # <<>>
    BY <1>1
  <2>5. StandsOut(tape', Len(tape'))
    BY <1>1, <2>1, <2>2, <2>3, <2>4, NotableStandsOut
  <2> QED
    BY <1>1, <2>5
<1>4. \A i \in 1 .. n + 1 : i \in 1 .. n \/ i = n + 1
  BY <1>1
<1> HIDE DEF n
<1>5. PulsesStandOut'
  <2> SUFFICES ASSUME NEW i \in 1 .. n + 1, "OFI_PULSE" \in tape'[i].raised PROVE StandsOut(tape', i)
    BY <1>1 DEF PulsesStandOut
  <2> QED
    BY <1>2, <1>3, <1>4
<1> QED
  BY <1>5, PulseIsGenuineMeans, PTL

AlertsInv == DetectorTypeOK /\ RunInv /\ DequeInv /\ AlertsAreGenuine

LEMMA AlertsStep == AlertsInv /\ [DetectorNext]_detectorVars => AlertsInv'
<1> SUFFICES ASSUME AlertsInv, [DetectorNext]_detectorVars PROVE AlertsInv'
  OBVIOUS
<1>1. DetectorTypeOK /\ RunInv /\ Ordered /\ DequeInv /\ SweepIsGenuine /\ PulseIsGenuine
  BY DEF AlertsInv, AlertsAreGenuine, RunInv
<1>2. DetectorTypeOK' /\ RunInv' /\ DequeInv'
  BY <1>1, DetectorTypeStep, RunInvStep, DequeStep
<1>3. CASE DetectorNext
  <2>1. PICK side \in Sides, usd \in Nat \ {0}, ts \in Nat : Ticked(side, usd, ts)
    BY <1>1, <1>3, TickIs
  <2>2. SweepIsGenuine' /\ PulseIsGenuine'
    BY <1>1, <2>1, SweepStep, PulseStep
  <2> QED
    BY <1>2, <2>2 DEF AlertsInv, AlertsAreGenuine
<1>4. CASE UNCHANGED detectorVars
  <2>1. tape' = tape
    BY <1>4 DEF detectorVars
  <2>2. SweepIsGenuine'
    BY <1>1, <2>1 DEF SweepIsGenuine, Total
  <2>3. PulsesStandOut'
    <3>1. PulsesStandOut
      BY <1>1, PulseIsGenuineMeans
    <3> QED
      BY <2>1, <3>1 DEF PulsesStandOut
  <2>4. PulseIsGenuine'
    BY <2>3, PulseIsGenuineMeans, PTL
  <2> QED
    BY <1>2, <2>2, <2>4 DEF AlertsInv, AlertsAreGenuine
<1> QED
  BY <1>3, <1>4

(* For any windows, cooldowns and sizes: a sweep or a pulse that is raised *)
(* says what the whole tape says, whatever the detectors have forgotten by *)
(* then (process_tick of the sweep and the OFI detector).                  *)
THEOREM AlertsGenuine == DetectorSpec => []AlertsAreGenuine
<1>1. DetectorInit => AlertsInv
  <2> SUFFICES ASSUME DetectorInit PROVE AlertsInv
    OBVIOUS
  <2>1. DetectorTypeOK /\ RunInv /\ DequeInv
    BY DetectorTypeInit, RunInit, DequeInit
  <2>2. SweepIsGenuine /\ PulseIsGenuine
    BY DEF DetectorInit, SweepIsGenuine, PulseIsGenuine
  <2> QED
    BY <2>1, <2>2 DEF AlertsInv, AlertsAreGenuine
<1>2. AlertsInv /\ [DetectorNext]_detectorVars => AlertsInv'
  BY AlertsStep
<1>3. AlertsInv => AlertsAreGenuine
  BY DEF AlertsInv
<1> QED
  BY <1>1, <1>2, <1>3, PTL DEF DetectorSpec
=============================================================================
