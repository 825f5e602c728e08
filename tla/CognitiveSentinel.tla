------------------------- MODULE CognitiveSentinel -------------------------
(***************************************************************************)
(* The tilt breaker: what CognitiveSentinel and its three detectors do     *)
(* with a heartbeat, a silence and an unlock, as operators on a record.    *)
(* A tick of the clock is a second.  Scores are in 400ths, so that the     *)
(* weights .40, .35 and .25 of drift / 2, streak / 4 and spam / 5 are      *)
(* whole numbers.                                                          *)
(***************************************************************************)
EXTENDS Integers, FiniteSetsExt

CONSTANTS
  HeartbeatTimeout,  \* _heartbeat_timeout_sec, 5 in the code
  Cooldown,          \* _cooldown_sec, 60
  RapidWindow,       \* the rapid-fire window, 10
  MinSamples         \* samples before a drift counts, 5

ASSUME SentinelAssumption ==
  /\ HeartbeatTimeout \in Nat /\ Cooldown \in Nat \ {0}
  /\ RapidWindow \in Nat /\ MinSamples \in Nat \ {0}

States == {"CLEAR", "ELEVATED", "LOCKED", "COOLDOWN", "BLIND"}
Critical == 280   \* _threshold_critical
Elevated == 160   \* _threshold_elevated
Hysteresis == 140 \* _threshold_clear_hysteresis
MaxTokens == 5
BurstCapacity == 10

(* The detectors, with the clocks of the click detector unset.             *)
Rested == [samples |-> 0, drift |-> 0, streak |-> 0, tokens |-> MaxTokens,
           refilled |-> 0, burst |-> 0, burstAt |-> 0, rapid |-> 0, rapidFrom |-> 0]

Sentinel(now) ==
  [state |-> "CLEAR", gen |-> 0, lockedUntil |-> 0, lastBeat |-> now, senses |-> Rested]

Allowed(s) == s.state \in {"CLEAR", "ELEVATED"}

NoSample == -1

(* A reaction time is a sample that drifts by 0, 1 or 2 from the average   *)
(* (the ring and the average are left out); without one the drift stays    *)
(* that of the last.                                                       *)
Reacted(d, r) ==
  IF r = NoSample THEN d
  ELSE LET n == Min({MinSamples, d.samples + 1})
       IN [d EXCEPT !.samples = n, !.drift = IF n < MinSamples THEN 0 ELSE r]

(* k calls of record_click in the same second.                             *)
Clicked(d, k, now) ==
  IF k = 0 THEN d
  ELSE LET since == IF d.refilled = 0 THEN now ELSE d.refilled
           from == IF d.rapidFrom = 0 THEN now ELSE d.rapidFrom
           over == now - from > RapidWindow
       IN [d EXCEPT
             !.tokens = Max({0, Min({MaxTokens, @ + (now - since)}) - k}),
             !.refilled = now,
             !.burst = Min({BurstCapacity, k + IF d.burstAt = now THEN @ ELSE 0}),
             !.burstAt = now,
             !.rapid = k + IF over THEN 0 ELSE @,
             !.rapidFrom = IF over THEN now ELSE from]

Erred(d, bad, good) == [d EXCEPT !.streak = Max({0, @ + bad - 2 * good})]

(* get_spam_intensity in 20ths: missing tokens, clicks of the last half    *)
(* second beyond two, clicks per second of the window beyond one half.     *)
Spam(d, now) ==
  LET recent == IF d.burstAt = now THEN d.burst ELSE 0
      rate == IF now = d.rapidFrom THEN 200 * d.rapid
              ELSE (20 * d.rapid) \div (now - d.rapidFrom)
  IN 8 * (MaxTokens - d.tokens) + 20 * Max({0, recent - 2}) + Max({0, rate - 10})

Composite(d, now) ==
  80 * Min({2, d.drift}) + 35 * Min({4, d.streak}) + Min({100, Spam(d, now)})

(* Phase 1: a lock becomes a cooldown with the next heartbeat, and ends    *)
(* with the first one after its time.  Mutant: it ends with the next one.  *)
ResolvedWithoutTimer(s, now) ==
  IF s.state \notin {"LOCKED", "COOLDOWN"} THEN s
  ELSE [s EXCEPT !.state = "CLEAR", !.lockedUntil = 0, !.senses = Rested]

Resolved(s, now) ==
  IF s.state \notin {"LOCKED", "COOLDOWN"} THEN s
  ELSE IF now < s.lockedUntil THEN [s EXCEPT !.state = "COOLDOWN"]
  ELSE [s EXCEPT !.state = "CLEAR", !.lockedUntil = 0, !.senses = Rested]

(* Phase 3.  A blind sentinel stays blind.                                 *)
Judged(s, now) ==
  LET score == Composite(s.senses, now)
  IN IF ~Allowed(s) THEN s
     ELSE IF score >= Critical
          THEN [s EXCEPT !.state = "LOCKED", !.lockedUntil = now + Cooldown]
     ELSE IF score >= Elevated THEN [s EXCEPT !.state = "ELEVATED"]
     ELSE IF score < Hysteresis THEN [s EXCEPT !.state = "CLEAR"]
     ELSE s

Evaluated(s, now) == [Judged(Resolved(s, now), now) EXCEPT !.gen = @ + 1]

Heartbeat(s, b, now) ==
  LET heard == Erred(Clicked(Reacted(s.senses, b.reaction), b.clicks, now), b.bad, b.good)
  IN Evaluated([s EXCEPT !.lastBeat = now, !.senses = heard], now)

Silent(s, now) == now - s.lastBeat > HeartbeatTimeout

Blinded(s, now) ==
  IF Silent(s, now) /\ s.state # "BLIND"
  THEN [s EXCEPT !.state = "BLIND", !.gen = @ + 1] ELSE s

(* Mutant: an unlock that leaves the generation alone. *)
UnlockedQuietly(s) == [s EXCEPT !.state = "CLEAR", !.lockedUntil = 0, !.senses = Rested]

Unlocked(s) ==
  [s EXCEPT !.state = "CLEAR", !.lockedUntil = 0, !.gen = @ + 1, !.senses = Rested]

SentinelType ==
  [state: States, gen: Nat, lockedUntil: Nat, lastBeat: Nat,
   senses: [samples: 0 .. MinSamples, drift: 0 .. 2, streak: Nat, tokens: 0 .. MaxTokens,
            refilled: Nat, burst: 0 .. BurstCapacity, burstAt: Nat, rapid: Nat, rapidFrom: Nat]]
=============================================================================
