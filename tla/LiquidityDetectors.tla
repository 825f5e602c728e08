-------------------------- MODULE LiquidityDetectors --------------------------
(***************************************************************************)
(* The three detectors of LiquidityDetectorBank for one symbol, fed with   *)
(* the trades of that symbol in the order of their exchange timestamps:    *)
(* sweeps (a run of trades of one side), large prints (one big trade) and  *)
(* OFI pulses (a minute whose imbalance stands out).  State is kept per    *)
(* symbol, so one symbol says it all.                                      *)
(***************************************************************************)
EXTENDS Integers, Sequences, FiniteSets, Functions

CONSTANTS
  MinTrades, SweepWindow, MinSweep, SweepCooldown,     \* SweepDetector
  MinPrint, Percent, PrintCooldown,                    \* LargePrintDetector; Percent of the turnover
  BucketSec, HistoryBuckets, K, MinPulse, MinHistory, PulseCooldown, \* OFIPulseDetector
  Usd,         \* the notionals a trade may have
  Gaps,        \* the times that may pass between two trades
  Turnovers,   \* the 24h turnovers the provider may report, 0 if unknown
  MaxTrades    \* bound: the number of trades

ASSUME DetectorAssumption ==
  /\ MinTrades \in Nat /\ MinTrades >= 2
  /\ SweepWindow \in Nat \ {0} /\ MinSweep \in Nat \ {0} /\ SweepCooldown \in Nat
  /\ MinPrint \in Nat \ {0} /\ Percent \in Nat \ {0} /\ PrintCooldown \in Nat
  /\ BucketSec \in Nat \ {0}
  /\ HistoryBuckets \in Nat /\ HistoryBuckets >= 2
  /\ K \in Nat /\ K > 1
  /\ MinPulse \in Nat \ {0} /\ MinHistory \in Nat /\ MinHistory >= 2 /\ PulseCooldown \in Nat
  /\ Usd \subseteq Nat \ {0} /\ Gaps \subseteq Nat /\ Turnovers \subseteq Nat
  /\ MaxTrades \in Nat

VARIABLES
  run,       \* the sweep being accumulated
  buckets,   \* the deque of OFI buckets
  alerted,   \* for each kind, the time of its last alert, if any
  tape       \* observation only: the trades and what was raised at each

detectorVars == <<run, buckets, alerted, tape>>

Sides == {"buy", "sell"}
Kinds == {"SWEEP", "LARGE_PRINT", "OFI_PULSE"}

Cooldown == [SWEEP |-> SweepCooldown, LARGE_PRINT |-> PrintCooldown, OFI_PULSE |-> PulseCooldown]

NoRun == [side |-> "buy", usd |-> 0, count |-> 0, first |-> 0]

Abs(x) == IF x < 0 THEN -x ELSE x

(* The last alert of this kind is too recent. *)
Cooling(kind, ts) == \E t \in alerted[kind] : ts - t < Cooldown[kind]

-----------------------------------------------------------------------------
(* SweepDetector.                                                          *)

(* Mutant: a trade of the other side joins the run. *)
StartsRunEitherSide(side, ts) == run.count = 0 \/ ts - run.first > SweepWindow

StartsRun(side, ts) == run.count = 0 \/ run.side # side \/ ts - run.first > SweepWindow

(* Mutant: the trade that ends a run is in none. *)
AccumulatedForgets(side, usd, ts) ==
  IF run.count = 0 THEN [side |-> side, usd |-> usd, count |-> 1, first |-> ts]
  ELSE IF StartsRun(side, ts) THEN NoRun
  ELSE [run EXCEPT !.usd = @ + usd, !.count = @ + 1]

Accumulated(side, usd, ts) ==
  IF StartsRun(side, ts)
  THEN [side |-> side, usd |-> usd, count |-> 1, first |-> ts]
  ELSE [run EXCEPT !.usd = @ + usd, !.count = @ + 1]

Sweeps(side, usd, ts) ==
  LET r == Accumulated(side, usd, ts)
  IN ~Cooling("SWEEP", ts) /\ r.count >= MinTrades /\ r.usd >= MinSweep

(* During the cooldown and after an alert there is no run. *)
RunAfter(side, usd, ts) ==
  IF Cooling("SWEEP", ts) \/ Sweeps(side, usd, ts) THEN NoRun ELSE Accumulated(side, usd, ts)

-----------------------------------------------------------------------------
(* LargePrintDetector.                                                     *)

IsLarge(usd, ts, turnover) ==
  /\ usd >= MinPrint
  /\ ~Cooling("LARGE_PRINT", ts)
  /\ IF turnover = 0 THEN usd >= 10 * MinPrint ELSE 100 * usd >= Percent * turnover

-----------------------------------------------------------------------------
(* OFIPulseDetector.                                                       *)

Trimmed(q) == IF Len(q) > HistoryBuckets THEN Tail(q) ELSE q

BucketOf(ts) == ts - (ts % BucketSec)

(* The deque with the trade in its last bucket, a new one if need be. *)
Bucketed(side, usd, ts) ==
  LET start == BucketOf(ts)
      opened == IF buckets # <<>> /\ buckets[Len(buckets)].start = start
                THEN buckets
                ELSE Trimmed(Append(buckets, [start |-> start, buy |-> 0, sell |-> 0]))
  IN IF side = "sell" THEN [opened EXCEPT ![Len(opened)].sell = @ + usd]
                      ELSE [opened EXCEPT ![Len(opened)].buy = @ + usd]

Imbalance(b) == Abs(b.buy - b.sell)

(* What stands at place m when s is sorted. *)
Ranked(s, m) ==
  CHOOSE v \in Range(s) :
    /\ Cardinality({i \in DOMAIN s : s[i] < v}) < m
    /\ m <= Cardinality({i \in DOMAIN s : s[i] <= v})

(* Twice the median. *)
Median2(s) ==
  LET half == Len(s) \div 2
  IN IF Len(s) % 2 = 1 THEN 2 * Ranked(s, half + 1) ELSE Ranked(s, half) + Ranked(s, half + 1)

Earlier(q) == [i \in 1 .. Len(q) - 1 |-> Imbalance(q[i])]

Pulses(q, ts) ==
  LET current == Imbalance(q[Len(q)]) IN
  /\ Len(q) >= MinHistory + 1
  /\ current >= MinPulse
  /\ LET median2 == Median2(Earlier(q))
     IN IF median2 = 0 THEN current >= 5 * MinPulse ELSE 2 * current >= K * median2
  /\ ~Cooling("OFI_PULSE", ts)

-----------------------------------------------------------------------------

DetectorInit ==
  /\ run = NoRun
  /\ buckets = <<>>
  /\ alerted = [kind \in Kinds |-> {}]
  /\ tape = <<>>

Now == IF tape = <<>> THEN 0 ELSE tape[Len(tape)].ts

Alerted(raised, ts) ==
  [kind \in Kinds |-> IF kind \in raised THEN {ts} ELSE alerted[kind]]

(* A trade goes through all three detectors. *)
ProcessTick(side, usd, gap, turnover) ==
  LET ts == Now + gap
      q == Bucketed(side, usd, ts)
      raised == {kind \in Kinds :
                   \/ kind = "SWEEP" /\ Sweeps(side, usd, ts)
                   \/ kind = "LARGE_PRINT" /\ IsLarge(usd, ts, turnover)
                   \/ kind = "OFI_PULSE" /\ Pulses(q, ts)}
  IN /\ Len(tape) < MaxTrades
     /\ run' = RunAfter(side, usd, ts)
     /\ buckets' = q
     /\ alerted' = Alerted(raised, ts)
     /\ tape' = Append(tape, [side |-> side, usd |-> usd, ts |-> ts, raised |-> raised])

DetectorNext == \E side \in Sides, usd \in Usd, gap \in Gaps, turnover \in Turnovers :
          ProcessTick(side, usd, gap, turnover)

DetectorSpec == DetectorInit /\ [][DetectorNext]_detectorVars

-----------------------------------------------------------------------------
(* Properties.                                                             *)

DetectorTypeOK ==
  /\ run \in [side : Sides, usd : Nat, count : Nat, first : Nat]
  /\ buckets \in Seq([start : Nat, buy : Nat, sell : Nat])
  /\ Len(buckets) <= HistoryBuckets
  /\ \A kind \in Kinds : alerted[kind] \subseteq Nat /\ Cardinality(alerted[kind]) <= 1
  /\ tape \in Seq([side : Sides, usd : Nat, ts : Nat, raised : SUBSET Kinds])

Total(I) == SumFunctionOnSet([i \in I |-> tape[i].usd], I)

(* A burst is heard: if 2 * MinTrades - 1 consecutive trades of one side   *)
(* fall into one window and any MinTrades of them in a row are worth       *)
(* MinSweep, a sweep is raised during the burst, unless one was raised     *)
(* within the cooldown before some trade of it.  (MinTrades alone would    *)
(* not do: the window of a run starts at its first trade and is not slid.) *)
BurstIsHeard ==
  \A j \in DOMAIN tape : \A i \in DOMAIN tape :
    (/\ i - j + 1 = 2 * MinTrades - 1
     /\ \A k \in j .. i : tape[k].side = tape[i].side
     /\ tape[i].ts - tape[j].ts <= SweepWindow
     /\ \A k \in j .. i - MinTrades + 1 : Total(k .. k + MinTrades - 1) >= MinSweep)
    => \/ \E k \in j .. i : "SWEEP" \in tape[k].raised
       \/ \E k \in 1 .. j - 1 : /\ "SWEEP" \in tape[k].raised
                                /\ tape[j].ts - tape[k].ts < SweepCooldown

(* A sweep is one: the trade it is raised at ends a run of at least        *)
(* MinTrades trades of its side, all within one window, worth MinSweep     *)
(* together, none of which another side interrupts or an earlier sweep     *)
(* used.                                                                   *)
SweepIsGenuine ==
  \A i \in DOMAIN tape : "SWEEP" \in tape[i].raised =>
    \E j \in 1 .. i - MinTrades + 1 :
      /\ \A k \in j .. i : tape[k].side = tape[i].side
      /\ tape[i].ts - tape[j].ts <= SweepWindow
      /\ Total(j .. i) >= MinSweep
      /\ \A k \in j .. i - 1 : "SWEEP" \notin tape[k].raised

(* What the trades up to i say of the bucket that starts at t. *)
Flow(t, i) ==
  LET I == {k \in 1 .. i : BucketOf(tape[k].ts) = t}
  IN Abs(Total({k \in I : tape[k].side = "buy"}) - Total({k \in I : tape[k].side = "sell"}))

(* A pulse stands out: of the buckets with trades before the one it is     *)
(* raised in, as far back as the detector remembers, there are enough, and *)
(* at least half have no more than 1/K of its imbalance.                   *)
PulseIsGenuine ==
  \A i \in DOMAIN tape : "OFI_PULSE" \in tape[i].raised =>
    LET current == BucketOf(tape[i].ts)
        starts == {BucketOf(tape[k].ts) : k \in 1 .. i} \ {current}
        known == {t \in starts : Cardinality({u \in starts : u > t}) < HistoryBuckets - 1}
    IN /\ Cardinality(known) >= MinHistory
       /\ Flow(current, i) >= MinPulse
       /\ 2 * Cardinality({t \in known : K * Flow(t, i) <= Flow(current, i)})
            >= Cardinality(known)

(* What the detectors raise is there: the alerts of sweeps and pulses say  *)
(* what the whole tape says, whatever windows tumbled, cooldowns ran and   *)
(* buckets were forgotten on the way.                                      *)
AlertsAreGenuine == SweepIsGenuine /\ PulseIsGenuine
=============================================================================
