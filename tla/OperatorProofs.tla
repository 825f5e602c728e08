---------------------------- MODULE OperatorProofs ----------------------------
(***************************************************************************)
(* Theorems about the two components that face the operator.               *)
(* OperatorGate: for any timeouts, cache size, heartbeats and bounds.      *)
(* BlindnessWatch: for a queue of any size and any number of other notices. *)
(***************************************************************************)
EXTENDS OperatorGate, BlindnessWatch, FiniteSetTheorems, SequenceTheorems, TLAPS

-----------------------------------------------------------------------------
(* The sentinel keeps its type through heartbeats, silence and unlocks.    *)

LEMMA MinOfTwo ==
  ASSUME NEW a \in Int, NEW b \in Int
  PROVE  Min({a, b}) = IF a <= b THEN a ELSE b
<1>1. \E x \in {a, b} : \A y \in {a, b} : x <= y
  BY a <= b \/ b <= a
<1>2. Min({a, b}) \in {a, b} /\ \A y \in {a, b} : Min({a, b}) <= y
  BY <1>1 DEF Min
<1> QED BY <1>2

LEMMA MaxOfTwo ==
  ASSUME NEW a \in Int, NEW b \in Int
  PROVE  Max({a, b}) = IF a >= b THEN a ELSE b
<1>1. \E x \in {a, b} : \A y \in {a, b} : x >= y
  BY a <= b \/ b <= a
<1>2. Max({a, b}) \in {a, b} /\ \A y \in {a, b} : Max({a, b}) >= y
  BY <1>1 DEF Max
<1> QED BY <1>2

Senses ==
  [samples: 0 .. MinSamples, drift: 0 .. 2, streak: Nat, tokens: 0 .. MaxTokens,
   refilled: Nat, burst: 0 .. BurstCapacity, burstAt: Nat, rapid: Nat, rapidFrom: Nat]

LEMMA ReactedType ==
  ASSUME NEW d \in Senses, NEW r \in {NoSample} \cup 0 .. 2
  PROVE  Reacted(d, r) \in Senses
<1>1. CASE r = NoSample
  BY <1>1 DEF Reacted
<1>2. CASE r # NoSample
  <2> DEFINE n == Min({MinSamples, d.samples + 1})
  <2>1. n = IF MinSamples <= d.samples + 1 THEN MinSamples ELSE d.samples + 1
    BY MinOfTwo, SentinelAssumption DEF Senses
  <2>2. n \in 0 .. MinSamples
    BY <2>1, SentinelAssumption DEF Senses
  <2>3. Reacted(d, r) = [d EXCEPT !.samples = n, !.drift = IF n < MinSamples THEN 0 ELSE r]
    BY <1>2 DEF Reacted
  <2> HIDE DEF n
  <2>4. (IF n < MinSamples THEN 0 ELSE r) \in 0 .. 2
    BY <1>2
  <2> QED BY <2>2, <2>3, <2>4 DEF Senses
<1> QED BY <1>1, <1>2

LEMMA ClickedType ==
  ASSUME NEW d \in Senses, NEW k \in Nat, NEW t \in Nat
  PROVE  Clicked(d, k, t) \in Senses
<1>1. CASE k = 0
  BY <1>1 DEF Clicked
<1>2. CASE k # 0
  <2> DEFINE since == IF d.refilled = 0 THEN t ELSE d.refilled
             from == IF d.rapidFrom = 0 THEN t ELSE d.rapidFrom
             over == t - from > RapidWindow
             tokens == Max({0, Min({MaxTokens, d.tokens + (t - since)}) - k})
             burst == Min({BurstCapacity, k + IF d.burstAt = t THEN d.burst ELSE 0})
             rapid == k + IF over THEN 0 ELSE d.rapid
             rapidFrom == IF over THEN t ELSE from
  <2>1. tokens \in 0 .. MaxTokens
    <3>1. d.tokens + (t - since) \in Int
      BY DEF Senses, MaxTokens
    <3>2. Min({MaxTokens, d.tokens + (t - since)}) \in Int
             /\ Min({MaxTokens, d.tokens + (t - since)}) <= MaxTokens
      BY <3>1, MinOfTwo DEF MaxTokens
    <3> DEFINE left == Min({MaxTokens, d.tokens + (t - since)}) - k
    <3>3. left \in Int /\ left <= MaxTokens
      BY <3>2 DEF MaxTokens
    <3> HIDE DEF left
    <3>4. Max({0, left}) = IF 0 >= left THEN 0 ELSE left
      BY <3>3, MaxOfTwo
    <3>5. Max({0, left}) \in 0 .. MaxTokens
      BY <3>3, <3>4 DEF MaxTokens
    <3> QED BY <3>5 DEF left
  <2>2. burst \in 0 .. BurstCapacity
    <3>1. k + (IF d.burstAt = t THEN d.burst ELSE 0) \in Nat
      BY DEF Senses, BurstCapacity
    <3> QED BY <3>1, MinOfTwo DEF BurstCapacity
  <2>3. rapid \in Nat /\ rapidFrom \in Nat
    BY DEF Senses
  <2>4. Clicked(d, k, t) =
          [d EXCEPT !.tokens = tokens, !.refilled = t, !.burst = burst, !.burstAt = t,
                    !.rapid = rapid, !.rapidFrom = rapidFrom]
    BY <1>2 DEF Clicked
  <2> HIDE DEF tokens, burst, rapid, rapidFrom
  <2> QED BY <2>1, <2>2, <2>3, <2>4 DEF Senses
<1> QED BY <1>1, <1>2

LEMMA ErredType ==
  ASSUME NEW d \in Senses, NEW bad \in Nat, NEW good \in Nat
  PROVE  Erred(d, bad, good) \in Senses
<1>1. d.streak + bad - 2 * good \in Int
  BY DEF Senses
<1>2. Max({0, d.streak + bad - 2 * good}) \in Nat
  BY <1>1, MaxOfTwo
<1> QED BY <1>2 DEF Erred, Senses

LEMMA RestedType == Rested \in Senses
  BY SentinelAssumption DEF Rested, Senses, MaxTokens, BurstCapacity

LEMMA JudgedType ==
  ASSUME NEW s \in SentinelType, NEW t \in Nat
  PROVE  /\ Judged(s, t) \in SentinelType /\ Judged(s, t).gen = s.gen
         /\ ~Allowed(s) => Judged(s, t) = s
<1> DEFINE locked == [s EXCEPT !.state = "LOCKED", !.lockedUntil = t + Cooldown]
           elevated == [s EXCEPT !.state = "ELEVATED"]
           clear == [s EXCEPT !.state = "CLEAR"]
<1>1. Judged(s, t) \in {s, locked, elevated, clear} /\ (~Allowed(s) => Judged(s, t) = s)
  <2> DEFINE score == Composite(s.senses, t)
  <2>1. CASE ~Allowed(s)
    BY <2>1 DEF Judged
  <2>2. CASE Allowed(s) /\ score >= Critical
    BY <2>2 DEF Judged
  <2>3. CASE Allowed(s) /\ ~(score >= Critical) /\ score >= Elevated
    BY <2>3 DEF Judged
  <2>4. CASE Allowed(s) /\ ~(score >= Critical) /\ ~(score >= Elevated) /\ score < Hysteresis
    BY <2>4 DEF Judged
  <2>5. CASE Allowed(s) /\ ~(score >= Critical) /\ ~(score >= Elevated) /\ ~(score < Hysteresis)
    BY <2>5 DEF Judged
  <2> QED BY <2>1, <2>2, <2>3, <2>4, <2>5
<1>2. locked \in SentinelType /\ locked.gen = s.gen
  <2>1. t + Cooldown \in Nat
    BY SentinelAssumption
  <2> QED BY <2>1 DEF SentinelType, States
<1>3. elevated \in SentinelType /\ elevated.gen = s.gen
  BY DEF SentinelType, States
<1>4. clear \in SentinelType /\ clear.gen = s.gen
  BY DEF SentinelType, States
<1> HIDE DEF locked, elevated, clear
<1> QED BY <1>1, <1>2, <1>3, <1>4

(* What a heartbeat leaves of the state of the sentinel; in particular a   *)
(* lock that has not run out becomes a cooldown with the same end, and     *)
(* nothing but a new lock writes LOCKED.                                   *)
LEMMA HeartbeatEffect ==
  ASSUME NEW s \in SentinelType, NEW b \in Beats, NEW t \in Nat
  PROVE  LET h == Heartbeat(s, b, t)
         IN /\ h \in SentinelType
            /\ h.gen = s.gen + 1
            /\ s.state = "BLIND" => h.state = "BLIND"
            /\ s.state \in {"LOCKED", "COOLDOWN"} /\ t < s.lockedUntil =>
                  h.state = "COOLDOWN" /\ h.lockedUntil = s.lockedUntil
<1> DEFINE heard == Erred(Clicked(Reacted(s.senses, b.reaction), b.clicks, t), b.bad, b.good)
           s1 == [s EXCEPT !.lastBeat = t, !.senses = heard]
           s2 == Resolved(s1, t)
           s3 == Judged(s2, t)
<1>1. heard \in Senses
  <2>1. /\ b.reaction \in {NoSample} \cup 0 .. 2
        /\ b.clicks \in Nat /\ b.bad \in Nat /\ b.good \in Nat
    BY GateAssumption
  <2>2. s.senses \in Senses
    BY DEF SentinelType, Senses
  <2> QED BY <2>1, <2>2, ReactedType, ClickedType, ErredType
<1>2. /\ s1 \in SentinelType
      /\ s1.state = s.state /\ s1.gen = s.gen /\ s1.lockedUntil = s.lockedUntil
  <2> HIDE DEF heard
  <2> QED BY <1>1 DEF SentinelType, Senses
<1>3. /\ s2 \in SentinelType /\ s2.gen = s.gen
      /\ s.state = "BLIND" => s2.state = "BLIND"
      /\ s.state \in {"LOCKED", "COOLDOWN"} /\ t < s.lockedUntil =>
           s2.state = "COOLDOWN" /\ s2.lockedUntil = s.lockedUntil
  <2> HIDE DEF s1
  <2> QED BY <1>2, RestedType DEF Resolved, SentinelType, Senses, States
<1>4. /\ s3 \in SentinelType /\ s3.gen = s.gen
      /\ ~Allowed(s2) => s3 = s2
  BY <1>3, JudgedType, Zenon
<1>5. Heartbeat(s, b, t) = [s3 EXCEPT !.gen = @ + 1]
  BY DEF Heartbeat, Evaluated
<1> HIDE DEF s3, s2
<1>6. /\ Heartbeat(s, b, t) \in SentinelType
      /\ Heartbeat(s, b, t).gen = s.gen + 1
      /\ Heartbeat(s, b, t).state = s3.state
      /\ Heartbeat(s, b, t).lockedUntil = s3.lockedUntil
  BY <1>4, <1>5 DEF SentinelType
<1> QED BY <1>3, <1>4, <1>6 DEF Allowed

LEMMA UnlockedEffect ==
  ASSUME NEW s \in SentinelType
  PROVE  Unlocked(s) \in SentinelType /\ Unlocked(s).gen = s.gen + 1
<1> DEFINE R == Rested
           T == [state: States, gen: Nat, lockedUntil: Nat, lastBeat: Nat, senses: Senses]
           s1 == [s EXCEPT !.state = "CLEAR", !.lockedUntil = 0]
           s2 == [s1 EXCEPT !.gen = @ + 1, !.senses = R]
<1>1. s \in T /\ R \in Senses
  BY RestedType DEF SentinelType, Senses
<1> HIDE DEF R
<1>2. s1 \in T /\ s1.gen = s.gen
  BY <1>1 DEF States
<1>3. s2 \in T /\ s2.gen = s.gen + 1
  <2> HIDE DEF s1
  <2>1. s1.gen \in Nat /\ s1.gen + 1 \in Nat
    BY <1>2
  <2> DEFINE g == s1.gen + 1
             s3 == [s1 EXCEPT !.gen = g]
  <2>2. s3 \in T /\ s3.gen = g
    <3> HIDE DEF g
    <3> QED BY <1>2, <2>1 DEF g
  <2>3. s2 = [s3 EXCEPT !.senses = R]
    BY <1>2
  <2> HIDE DEF s3
  <2> QED BY <1>1, <1>2, <2>2, <2>3
<1>4. Unlocked(s) = s2
  BY Zenon DEF Unlocked, R
<1> QED BY <1>3, <1>4 DEF SentinelType, Senses

LEMMA BlindedEffect ==
  ASSUME NEW s \in SentinelType, NEW t, Silent(s, t), s.state # "BLIND"
  PROVE  /\ Blinded(s, t) \in SentinelType
         /\ Blinded(s, t).gen = s.gen + 1 /\ Blinded(s, t).state = "BLIND"
<1>1. Blinded(s, t) = [s EXCEPT !.state = "BLIND", !.gen = @ + 1]
  BY DEF Blinded
<1>2. s.gen + 1 \in Nat
  BY DEF SentinelType
<1> QED BY <1>1, <1>2 DEF SentinelType, States

-----------------------------------------------------------------------------
(* Capsules are numbered as they are shown.                                *)
CapsulesNumbered ==
  /\ IsFiniteSet(shown)
  /\ \A c \in shown : c.capsule.nonce <= Cardinality(shown)
  /\ \A c, d \in shown : c.capsule.nonce = d.capsule.nonce => c = d

(* Beside a capsule stands an intent that was emitted, the active one or   *)
(* an older, or none.                                                      *)
VersionsGrow ==
  /\ intent.active # None => intent.active.version > 0
  /\ \A c \in shown : c.version <= intent.active.version

(* The cache holds the nonces spent last.                                  *)
CacheIsTail ==
  /\ Len(used) <= Len(spent)
  /\ Len(used) < MaxNonceCache => Len(used) = Len(spent)
  /\ \A i \in 1 .. Len(used) : used[i] = spent[i + (Len(spent) - Len(used))]

(* A lock that has not run out is kept by the tilt state or by blindness.  *)
LockHolds ==
  now < lockEnds =>
    \/ sentinel.state = "BLIND"
    \/ sentinel.state \in {"LOCKED", "COOLDOWN"} /\ sentinel.lockedUntil = lockEnds

(* A capsule shown before the latest change of tilt state or session can   *)
(* be told by its fields, and one shown before the latest change of intent *)
(* by the version beside it.                                               *)
OutdatedShows ==
  \A c \in shown : c.capsule.nonce \in outdated =>
    c.capsule.session < session \/ c.capsule.gen < sentinel.gen

SupersededShows ==
  \A c \in shown : c.capsule.nonce \in superseded =>
    c.version < intent.active.version \/ intent.active.revoked

StaleShows ==
  /\ outdated \subseteq NoncesShown /\ superseded \subseteq NoncesShown
  /\ OutdatedShows /\ SupersededShows

(* The intent that is live was never pushed as revoked.                    *)
PushedIsOver ==
  \A v \in pushed :
    \/ v < intent.active.version
    \/ v = intent.active.version /\ intent.active.revoked

-----------------------------------------------------------------------------
(* Type correctness, which needs the numbering of the capsules.            *)

GateType ==
  /\ TypeOK /\ CapsulesNumbered /\ VersionsGrow
  /\ session <= admin + 1

(* The capsules shown stay well-typed as the bounds of their fields grow.  *)
CapsuleType(maxSession, maxGen, maxAt, maxVersion) ==
  [capsule: [nonce: 1 .. MaxCapsules, session: 1 .. maxSession, gen: 0 .. maxGen,
             at: 1 .. maxAt],
   version: 0 .. maxVersion]

LEMMA CapsuleTypeGrows ==
  ASSUME NEW i \in Int, NEW j \in Int, NEW k \in Int, NEW l \in Int,
         NEW p \in Int, NEW q \in Int, NEW r \in Int, NEW s \in Int,
         i <= p, j <= q, k <= r, l <= s
  PROVE  CapsuleType(i, j, k, l) \subseteq CapsuleType(p, q, r, s)
  BY DEF CapsuleType

LEMMA GateTypeInit == Init => GateType
<1> SUFFICES ASSUME Init PROVE GateType
  OBVIOUS
<1>1. sentinel \in SentinelType
  <2>1. sentinel = [state |-> "CLEAR", gen |-> 0, lockedUntil |-> 0, lastBeat |-> 1, senses |-> Rested]
    BY DEF Init, Sentinel
  <2> QED BY <2>1, RestedType DEF SentinelType, Senses, States
<1>2. /\ used \in Seq(1 .. MaxCapsules) /\ Len(used) = 0
      /\ spent \in Seq(1 .. MaxCapsules) /\ Len(spent) = 0
  BY EmptySeq DEF Init
<1>3. IsFiniteSet(shown)
  BY FS_EmptySet DEF Init
<1>4. /\ now = 1 /\ session = 1 /\ shown = {} /\ executed = 0 /\ admin = 0 /\ beats = 0
      /\ lockEnds = 0 /\ named = 0
      /\ outdated = {} /\ superseded = {} /\ pushed = {}
      /\ intent = [version |-> 0, active |-> [version |-> 0, at |-> 0, revoked |-> FALSE]]
  BY DEF Init, None
<1>5. TypeOK
  BY <1>1, <1>2, <1>4, GateAssumption DEF TypeOK
<1>6. CapsulesNumbered
  BY <1>3, <1>4 DEF CapsulesNumbered
<1>7. VersionsGrow
  BY <1>4 DEF VersionsGrow, None
<1> QED BY <1>4, <1>5, <1>6, <1>7 DEF GateType

(* Every step keeps generation, session, clock and versions from falling,  *)
(* which is what a capsule is compared with.                               *)
Grows ==
  /\ sentinel' \in SentinelType /\ sentinel.gen <= sentinel'.gen
  /\ session' \in 1 .. MaxAdmin + 1 /\ session <= session'
  /\ now' \in 1 .. MaxNow /\ now <= now'
  /\ intent'.version \in Nat /\ intent.version <= intent'.version
  /\ intent'.active \in [version: 0 .. intent'.version, at: 0 .. now', revoked: BOOLEAN]
  /\ intent.active.version <= intent'.active.version
  /\ intent'.active # None => intent'.active.version > 0

(* A step that shows no new capsule.                                       *)
LEMMA GateTypeKept ==
  ASSUME GateType, Grows, shown' = shown,
         admin' \in 0 .. MaxAdmin, session' <= admin' + 1, beats' \in 0 .. MaxBeats,
         lockEnds' \in Nat, named' \in Nat,
         outdated' \subseteq outdated \cup NoncesShown,
         superseded' \subseteq superseded \cup NoncesShown,
         pushed' \subseteq pushed \cup {intent.active.version},
         used' \in Seq(1 .. MaxCapsules), Len(used') <= MaxNonceCache,
         spent' \in Seq(1 .. MaxCapsules), executed' \in 0 .. Len(spent')
  PROVE  GateType'
<1>0. /\ TypeOK /\ CapsulesNumbered /\ VersionsGrow
  BY DEF GateType
<1>a. /\ session \in Int /\ sentinel.gen \in Int /\ now \in Int /\ intent.version \in Int
      /\ intent.active.version \in Nat
      /\ shown \subseteq CapsuleType(session, sentinel.gen, now, intent.version)
  <2>1. sentinel \in SentinelType => sentinel.gen \in Nat
    BY DEF SentinelType
  <2>2. \A v \in Nat : 0 .. v \subseteq Nat
    OBVIOUS
  <2>3. intent.active.version \in Nat
    BY <1>0, <2>2 DEF TypeOK
  <2>4. shown \subseteq CapsuleType(session, sentinel.gen, now, intent.version)
    BY <1>0 DEF TypeOK, CapsuleType
  <2>5. /\ session \in 1 .. MaxAdmin + 1 /\ sentinel \in SentinelType
        /\ now \in 1 .. MaxNow /\ intent.version \in Nat
    BY <1>0 DEF TypeOK
  <2>6. \A m, n : n \in 1 .. m => n \in Int
    OBVIOUS
  <2>7. session \in Int /\ now \in Int
    BY <2>5, <2>6
  <2>8. sentinel.gen \in Int /\ intent.version \in Int
    BY <2>1, <2>5
  <2> QED BY <2>3, <2>4, <2>7, <2>8
<1>b. /\ session' \in Int /\ sentinel'.gen \in Int /\ now' \in Int /\ intent'.version \in Int
      /\ session <= session' /\ sentinel.gen <= sentinel'.gen /\ now <= now'
      /\ intent.version <= intent'.version
      /\ intent'.active.version \in Nat
  <2>1. sentinel' \in SentinelType => sentinel'.gen \in Nat
    BY DEF SentinelType
  <2>2. \A m, n : n \in 1 .. m => n \in Int
    OBVIOUS
  <2>3. \A v \in Nat : 0 .. v \subseteq Nat
    OBVIOUS
  <2>4. /\ sentinel' \in SentinelType /\ sentinel.gen <= sentinel'.gen
        /\ session' \in 1 .. MaxAdmin + 1 /\ session <= session'
        /\ now' \in 1 .. MaxNow /\ now <= now'
        /\ intent'.version \in Nat /\ intent.version <= intent'.version
    BY DEF Grows
  <2>5. intent'.active.version \in Nat
    BY <2>3 DEF Grows
  <2> QED BY <2>1, <2>2, <2>4, <2>5
<1>1. shown' \subseteq CapsuleType(session', sentinel'.gen, now', intent'.version)
  <2>1. CapsuleType(session, sentinel.gen, now, intent.version)
          \subseteq CapsuleType(session', sentinel'.gen, now', intent'.version)
    <3> HIDE DEF GateType, Grows
    <3>1. /\ session \in Int /\ sentinel.gen \in Int /\ now \in Int /\ intent.version \in Int
          /\ session' \in Int /\ sentinel'.gen \in Int /\ now' \in Int /\ intent'.version \in Int
      BY <1>a, <1>b
    <3>2. /\ session <= session' /\ sentinel.gen <= sentinel'.gen /\ now <= now'
          /\ intent.version <= intent'.version
      BY <1>b
    <3> DEFINE g == sentinel.gen
               h == sentinel'.gen
               v == intent.version
               w == intent'.version
    <3>3. /\ session \in Int /\ g \in Int /\ now \in Int /\ v \in Int
          /\ session' \in Int /\ h \in Int /\ now' \in Int /\ w \in Int
          /\ session <= session' /\ g <= h /\ now <= now' /\ v <= w
      BY <3>1, <3>2
    <3> HIDE DEF g, h, v, w
    <3>4. CapsuleType(session, g, now, v) \subseteq CapsuleType(session', h, now', w)
      BY ONLY <3>3, CapsuleTypeGrows
    <3> QED BY <3>4 DEF g, h, v, w
  <2> QED BY <1>a, <2>1
<1>2. /\ outdated' \subseteq 1 .. MaxCapsules /\ superseded' \subseteq 1 .. MaxCapsules
      /\ pushed' \subseteq Nat
  <2>1. /\ outdated \subseteq 1 .. MaxCapsules /\ superseded \subseteq 1 .. MaxCapsules
        /\ pushed \subseteq Nat
    BY <1>0 DEF TypeOK
  <2>2. NoncesShown \subseteq 1 .. MaxCapsules
    BY <1>a DEF CapsuleType, NoncesShown
  <2> QED BY <1>a, <2>1, <2>2
<1>3. TypeOK'
  BY <1>0, <1>1, <1>2 DEF TypeOK, Grows, CapsuleType
<1>4. CapsulesNumbered'
  BY <1>0 DEF CapsulesNumbered
<1>5. VersionsGrow'
  <2>1. \A c \in shown : c.version \in Int /\ c.version <= intent.active.version
    BY <1>0, <1>a DEF CapsuleType, VersionsGrow
  <2>2. \A c \in shown : c.version <= intent'.active.version
    <3>1. intent.active.version <= intent'.active.version
      BY DEF Grows
    <3> DEFINE v == intent.active.version
               w == intent'.active.version
    <3>2. v \in Nat /\ w \in Nat /\ v <= w
      BY <1>a, <1>b, <3>1
    <3>3. \A c \in shown : c.version \in Int /\ c.version <= v
      BY <2>1
    <3> HIDE DEF v, w
    <3>4. \A c \in shown : c.version <= w
      BY <3>2, <3>3
    <3> QED BY <3>4 DEF w
  <2> QED BY <2>2 DEF VersionsGrow, Grows
<1> QED BY <1>3, <1>4, <1>5 DEF GateType

(* Spending a nonce keeps the cache within its bound.                      *)
LEMMA ConsumedType ==
  ASSUME TypeOK, NEW n \in 1 .. MaxCapsules
  PROVE  /\ Append(spent, n) \in Seq(1 .. MaxCapsules)
         /\ Len(Append(spent, n)) = Len(spent) + 1
         /\ Consumed(n) \in Seq(1 .. MaxCapsules)
         /\ Len(Consumed(n)) <= MaxNonceCache
<1> DEFINE all == Append(used, n)
<1>1. /\ used \in Seq(1 .. MaxCapsules) /\ Len(used) <= MaxNonceCache
      /\ spent \in Seq(1 .. MaxCapsules)
  BY DEF TypeOK
<1>2. all \in Seq(1 .. MaxCapsules) /\ Len(all) = Len(used) + 1 /\ Len(used) \in Nat
  BY <1>1
<1>3. all # <<>>
  BY <1>2
<1>4. Tail(all) \in Seq(1 .. MaxCapsules) /\ Len(Tail(all)) = Len(used)
  BY <1>2, <1>3, HeadTailProperties
<1>5. Consumed(n) = IF Len(all) > MaxNonceCache THEN Tail(all) ELSE all
  BY DEF Consumed
<1> HIDE DEF all
<1>6. Consumed(n) \in Seq(1 .. MaxCapsules) /\ Len(Consumed(n)) <= MaxNonceCache
  <2>1. MaxNonceCache \in Nat
    BY GateAssumption
  <2>2. CASE Len(all) > MaxNonceCache
    BY <1>1, <1>4, <1>5, <2>2
  <2>3. CASE ~(Len(all) > MaxNonceCache)
    BY <1>2, <1>5, <2>1, <2>3
  <2> QED BY <2>2, <2>3
<1> QED BY <1>1, <1>6

LEMMA GateTypeStep ==
  ASSUME GateType, [Next]_vars
  PROVE  GateType' /\ Grows
<1>0. /\ TypeOK /\ CapsulesNumbered /\ VersionsGrow /\ session <= admin + 1
  BY DEF GateType
<1>a. /\ now \in 1 .. MaxNow /\ sentinel \in SentinelType /\ session \in 1 .. MaxAdmin + 1
      /\ admin \in 0 .. MaxAdmin /\ beats \in 0 .. MaxBeats /\ lockEnds \in Nat
      /\ sentinel.gen \in Nat /\ MaxAdmin \in Nat /\ MaxBeats \in Nat /\ MaxNow \in Nat
  BY <1>0, GateAssumption DEF TypeOK, SentinelType
<1>b. /\ intent.version \in Nat
      /\ intent.active \in [version: 0 .. intent.version, at: 0 .. now, revoked: BOOLEAN]
      /\ intent.active.version \in 0 .. intent.version
      /\ intent.active # None => intent.active.version > 0
  BY <1>0 DEF TypeOK, VersionsGrow
<1>c. ASSUME UNCHANGED <<used, spent, executed>>
      PROVE  /\ used' \in Seq(1 .. MaxCapsules) /\ Len(used') <= MaxNonceCache
             /\ spent' \in Seq(1 .. MaxCapsules) /\ executed' \in 0 .. Len(spent')
  BY <1>0, <1>c DEF TypeOK
<1>d. (UNCHANGED named => named' \in Nat) /\ NoncesShown \subseteq outdated \cup NoncesShown
  BY <1>0 DEF TypeOK
<1>1. ASSUME UNCHANGED intent, sentinel' \in SentinelType, sentinel.gen <= sentinel'.gen,
             session' \in 1 .. MaxAdmin + 1, session <= session',
             now' \in 1 .. MaxNow, now <= now'
      PROVE  Grows
  BY <1>1, <1>a, <1>b DEF Grows
<1>2. CASE Tick
  <2>1. Grows
    BY <1>1, <1>2, <1>a DEF Tick, gateVars
  <2> QED BY <1>0, <1>2, <1>a, <1>c, <1>d, <2>1, GateTypeKept DEF Tick, gateVars
<1>3. CASE CheckBlind
  <2>1. sentinel' \in SentinelType /\ sentinel'.gen = sentinel.gen + 1
    BY <1>3, <1>a, BlindedEffect DEF CheckBlind, Becomes
  <2>2. Grows
    BY <1>1, <1>3, <1>a, <2>1 DEF CheckBlind, gateVars
  <2> QED BY <1>0, <1>3, <1>a, <1>c, <1>d, <2>2, GateTypeKept DEF CheckBlind, Becomes, Outdated, gateVars
<1>4. CASE ForceUnlock
  <2>1. sentinel' \in SentinelType /\ sentinel'.gen = sentinel.gen + 1
    BY <1>4, <1>a, UnlockedEffect DEF ForceUnlock, Becomes
  <2>2. Grows
    BY <1>1, <1>4, <1>a, <2>1 DEF ForceUnlock, gateVars
  <2> QED BY <1>0, <1>4, <1>a, <1>c, <1>d, <2>2, GateTypeKept DEF ForceUnlock, Becomes, Outdated, gateVars
<1>5. CASE RotateSession
  <2>1. Grows
    BY <1>0, <1>1, <1>5, <1>a DEF RotateSession
  <2> QED BY <1>0, <1>5, <1>a, <1>c, <1>d, <2>1, GateTypeKept DEF RotateSession, Outdated
<1>6. CASE EmitIntent
  <2>1. intent' = [version |-> intent.version + 1,
                   active |-> [version |-> intent.version + 1, at |-> now, revoked |-> FALSE]]
        /\ UNCHANGED <<now, sentinel, session>>
    BY <1>6 DEF EmitIntent, gateVars
  <2>2. Grows
    BY <1>a, <1>b, <2>1 DEF Grows
  <2> QED BY <1>0, <1>6, <1>a, <1>c, <1>d, <2>2, GateTypeKept DEF EmitIntent, Superseded, gateVars
<1>7. ASSUME Revoked, UNCHANGED <<now, sentinel, session>>, intent.active # None
      PROVE  Grows
  <2>1. intent' = [intent EXCEPT !.version = @ + 1, !.active.revoked = TRUE]
    BY <1>7 DEF Revoked
  <2>2. /\ intent'.version = intent.version + 1
        /\ intent'.active = [intent.active EXCEPT !.revoked = TRUE]
    BY <2>1
  <2>3. /\ intent'.active \in [version: 0 .. intent'.version, at: 0 .. now, revoked: BOOLEAN]
        /\ intent'.active.version = intent.active.version
    <3> DEFINE a == intent.active
               v == intent.version
               n == now
    <3>1. a \in [version: 0 .. v + 1, at: 0 .. n, revoked: BOOLEAN]
      BY <1>a, <1>b
    <3> HIDE DEF a, v, n
    <3>2. /\ [a EXCEPT !.revoked = TRUE] \in [version: 0 .. v + 1, at: 0 .. n, revoked: BOOLEAN]
          /\ [a EXCEPT !.revoked = TRUE].version = a.version
      BY <3>1
    <3> QED BY <2>2, <3>2 DEF a, v, n
  <2> QED BY <1>7, <1>a, <1>b, <2>2, <2>3 DEF Grows
<1>8. CASE Revoke
  <2>1. Grows
    BY <1>7, <1>8 DEF Revoke, Live, gateVars
  <2> QED BY <1>0, <1>8, <1>a, <1>c, <1>d, <2>1, GateTypeKept DEF Revoke, Revoked, Superseded, gateVars
<1>9. CASE IssueCapsule
  <2>1. Grows
    BY <1>1, <1>9, <1>a DEF IssueCapsule
  <2> DEFINE new == [capsule |-> Capsule, version |-> intent.active.version]
  <2>2. /\ shown' = shown \cup {new}
        /\ Cardinality(shown) < MaxCapsules
        /\ UNCHANGED <<now, sentinel, session, used, intent, executed, admin, beats,
                       spent, lockEnds, named, outdated, superseded, pushed>>
    BY <1>9 DEF IssueCapsule
  <2>3. IsFiniteSet(shown) /\ Cardinality(shown) \in Nat
    BY <1>0, FS_CardinalityType DEF CapsulesNumbered
  <2>4. /\ new.capsule.nonce = Cardinality(shown) + 1 /\ new.version = intent.active.version
        /\ new \in CapsuleType(session, sentinel.gen, now, intent.version)
    BY <1>a, <1>b, <2>2, <2>3, GateAssumption DEF Capsule, CapsuleType
  <2> HIDE DEF new
  <2>5. new \notin shown
    BY <1>0, <2>3, <2>4 DEF CapsulesNumbered
  <2>6. IsFiniteSet(shown') /\ Cardinality(shown') = Cardinality(shown) + 1
    BY <2>2, <2>3, <2>5, FS_AddElement
  <2>7. TypeOK'
    BY <1>0, <2>2, <2>4 DEF TypeOK, CapsuleType
  <2>8. CapsulesNumbered'
    <3>1. \A c \in shown : c.capsule.nonce \in Nat /\ c.capsule.nonce <= Cardinality(shown)
      BY <1>0 DEF TypeOK, CapsulesNumbered
    <3> DEFINE k == Cardinality(shown)
    <3>2. /\ shown' = shown \cup {new} /\ new.capsule.nonce = k + 1 /\ k \in Nat
          /\ Cardinality(shown') = k + 1
      BY <2>2, <2>3, <2>4, <2>6
    <3>3. \A c \in shown : c.capsule.nonce <= k /\ c.capsule.nonce \in Nat
      BY <3>1
    <3>4. \A c, d \in shown : c.capsule.nonce = d.capsule.nonce => c = d
      BY <1>0 DEF CapsulesNumbered
    <3> HIDE DEF k
    <3>5. \A c \in shown' : c.capsule.nonce <= k + 1
      BY <3>2, <3>3
    <3>6. \A c \in shown : c.capsule.nonce # new.capsule.nonce
      BY <3>2, <3>3
    <3>7. \A c, d \in shown' : c.capsule.nonce = d.capsule.nonce => c = d
      BY <3>2, <3>4, <3>6
    <3> QED BY <2>6, <3>2, <3>5, <3>7 DEF CapsulesNumbered
  <2>9. VersionsGrow'
    BY <1>0, <1>b, <2>2, <2>4 DEF VersionsGrow
  <2> QED BY <1>0, <2>1, <2>2, <2>7, <2>8, <2>9 DEF GateType
<1>10. ASSUME NEW b \in Beats, IngestHeartbeat(b)
       PROVE  GateType' /\ Grows
  <2> DEFINE h == Heartbeat(sentinel, b, now)
  <2>1. h \in SentinelType /\ h.gen = sentinel.gen + 1 /\ sentinel' = h
    BY <1>10, <1>a, HeartbeatEffect DEF IngestHeartbeat, Becomes
  <2>2. h.lockedUntil \in Nat
    BY <2>1 DEF SentinelType
  <2>3. lockEnds' \in Nat
    BY <1>10, <1>a, <2>2 DEF IngestHeartbeat
  <2>4. /\ UNCHANGED <<now, intent, admin, superseded, pushed, gateVars>>
        /\ beats' \in 0 .. MaxBeats
        /\ outdated' \in {outdated, NoncesShown}
    BY <1>10, <1>a DEF IngestHeartbeat, Becomes, Outdated
  <2> HIDE DEF h
  <2>5. Grows
    BY <1>1, <1>a, <2>1, <2>4 DEF gateVars
  <2> QED BY <1>0, <1>a, <1>c, <1>d, <2>3, <2>4, <2>5, GateTypeKept DEF gateVars
<1>11. ASSUME NEW c \in shown, NEW v \in 0 .. intent.version, Click(c.capsule, v)
       PROVE  GateType' /\ Grows
  <2>1. /\ UNCHANGED <<now, sentinel, session, shown, admin, beats, lockEnds, outdated>>
        /\ used' = Consumed(c.capsule.nonce) /\ spent' = Append(spent, c.capsule.nonce)
    BY <1>11 DEF Click
  <2>2. \/ UNCHANGED <<intent, executed, named, superseded, pushed>>
        \/ ~Stale(v) /\ Revoked /\ Superseded /\ UNCHANGED <<executed, named>>
        \/ executed' = executed + 1 /\ named' = v /\ UNCHANGED <<intent, superseded, pushed>>
    BY <1>11 DEF Click
  <2>3. Grows
    BY <1>1, <1>7, <1>a, <2>1, <2>2 DEF Stale, Live
  <2>4. \A d \in shown : d.capsule.nonce \in 1 .. MaxCapsules
    BY <1>0 DEF TypeOK
  <2>5. /\ used' \in Seq(1 .. MaxCapsules) /\ Len(used') <= MaxNonceCache
        /\ spent' \in Seq(1 .. MaxCapsules) /\ Len(spent') = Len(spent) + 1
    BY <1>0, <2>1, <2>4, ConsumedType
  <2>6. executed' \in 0 .. Len(spent')
    <3>1. executed \in 0 .. Len(spent) /\ Len(spent) \in Nat
      BY <1>0 DEF TypeOK
    <3> QED BY <2>2, <2>5, <3>1
  <2>7. /\ superseded' \subseteq superseded \cup NoncesShown
        /\ pushed' \subseteq pushed \cup {intent.active.version}
    BY <2>2 DEF Revoked, Superseded
  <2>8. named' \in Nat
    <3>1. named \in Nat /\ v \in Nat
      BY <1>0, <1>b DEF TypeOK
    <3> QED BY <2>2, <3>1
  <2> QED BY <1>0, <1>a, <2>1, <2>3, <2>5, <2>6, <2>7, <2>8, GateTypeKept
<1>12. CASE UNCHANGED vars
  <2>1. Grows
    BY <1>1, <1>12, <1>a DEF vars
  <2> QED BY <1>0, <1>12, <1>a, <1>c, <1>d, <2>1, GateTypeKept DEF vars
<1> QED BY <1>2, <1>3, <1>4, <1>5, <1>6, <1>8, <1>9, <1>10, <1>11, <1>12 DEF Next
-----------------------------------------------------------------------------
(* The types hold in every reachable state; the nonce cache in particular  *)
(* never outgrows MaxNonceCache, and no capsule shown comes from a session,*)
(* a generation or a version of the future.                                *)
THEOREM TypeCorrect == Spec => []TypeOK
<1>1. Init => GateType
  BY GateTypeInit
<1>2. GateType /\ [Next]_vars => GateType'
  BY GateTypeStep
<1>3. GateType => TypeOK
  BY DEF GateType
<1> QED BY <1>1, <1>2, <1>3, PTL DEF Spec

-----------------------------------------------------------------------------
(* What a strike consists of.                                              *)
LEMMA StrikeIsClick ==
  ASSUME [Next]_vars, executed' # executed
  PROVE  \E c \in shown : /\ Accepts(c.capsule) /\ ~Stale(named')
                          /\ spent' = Append(spent, c.capsule.nonce)
  BY DEF Next, vars, gateVars, Tick, CheckBlind, ForceUnlock, RotateSession, EmitIntent,
         Revoke, IssueCapsule, IngestHeartbeat, Click

(* The capsule a strike spends is the one capsule with that nonce.         *)
LEMMA StrikeOfCapsule ==
  ASSUME GateType, [Next]_vars, NEW c \in shown, Struck(c)
  PROVE  Accepts(c.capsule) /\ ~Stale(named')
<1>1. PICK d \in shown : /\ Accepts(d.capsule) /\ ~Stale(named')
                         /\ spent' = Append(spent, d.capsule.nonce)
  BY StrikeIsClick DEF Struck
<1>2. spent \in Seq(1 .. MaxCapsules) /\ d.capsule.nonce \in 1 .. MaxCapsules
  BY DEF GateType, TypeOK
<1>3. Last(spent') = d.capsule.nonce
  BY <1>1, <1>2, AppendProperties DEF Last
<1>4. c.capsule.nonce = d.capsule.nonce
  BY <1>3 DEF Struck
<1> QED BY <1>1, <1>4 DEF GateType, CapsulesNumbered

-----------------------------------------------------------------------------
(* A replay needs an eviction: the cache holds the nonces spent last.      *)

LEMMA CacheIsTailStep ==
  ASSUME TypeOK, CacheIsTail, NEW n \in 1 .. MaxCapsules,
         used' = Consumed(n), spent' = Append(spent, n)
  PROVE  CacheIsTail'
<1> DEFINE U == Len(used)
           L == Len(spent)
           M == MaxNonceCache
           all == Append(used, n)
<1>1. /\ used \in Seq(1 .. MaxCapsules) /\ spent \in Seq(1 .. MaxCapsules)
      /\ U \in Nat /\ L \in Nat /\ M \in Nat \ {0} /\ U <= M /\ U <= L
      /\ U < M => U = L
      /\ \A i \in 1 .. U : used[i] = spent[i + (L - U)]
  <2>1. /\ used \in Seq(1 .. MaxCapsules) /\ spent \in Seq(1 .. MaxCapsules)
        /\ U <= M /\ M \in Nat \ {0}
    BY GateAssumption DEF TypeOK
  <2>2. U \in Nat /\ L \in Nat
    BY <2>1
  <2>3. /\ U <= L
        /\ U < M => U = L
        /\ \A i \in 1 .. U : used[i] = spent[i + (L - U)]
    BY DEF CacheIsTail
  <2> HIDE DEF U, L, M
  <2> QED BY <2>1, <2>2, <2>3
<1>2. /\ all \in Seq(1 .. MaxCapsules) /\ Len(all) = U + 1
      /\ \A i \in 1 .. U : all[i] = used[i]
      /\ all[U + 1] = n
  BY <1>1, AppendProperties
<1>3. /\ Len(spent') = L + 1
      /\ \A i \in 1 .. L : spent'[i] = spent[i]
      /\ spent'[L + 1] = n
  BY <1>1, AppendProperties
<1>4. used' = IF U + 1 > M THEN Tail(all) ELSE all
  BY <1>2 DEF Consumed
<1>5. all # <<>>
  <2> HIDE DEF all, U
  <2> QED BY <1>1, <1>2
<1>6. /\ Len(Tail(all)) = U
      /\ \A i \in 1 .. U : Tail(all)[i] = all[i + 1]
  BY <1>1, <1>2, <1>5, HeadTailProperties
<1> HIDE DEF all, U, L, M
<1>7. CASE U + 1 > M
  <2>1. used' = Tail(all) /\ Len(used') = U /\ U = M
    BY <1>1, <1>4, <1>6, <1>7
  <2>2. ASSUME NEW i \in 1 .. U
        PROVE  used'[i] = spent'[i + (L + 1 - U)]
    <3>1. used'[i] = all[i + 1]
      BY <1>6, <2>1
    <3>2. CASE i = U
      BY <1>1, <1>2, <1>3, <3>1, <3>2
    <3>3. CASE i # U
      <4>1. i + 1 \in 1 .. U /\ i + 1 + (L - U) \in 1 .. L
        BY <1>1, <3>3
      <4>2. all[i + 1] = spent[i + 1 + (L - U)]
        BY <1>1, <1>2, <4>1
      <4>3. spent'[i + 1 + (L - U)] = spent[i + 1 + (L - U)]
        BY <1>3, <4>1
      <4>4. i + 1 + (L - U) = i + (L + 1 - U)
        BY <1>1
      <4> QED BY <3>1, <4>2, <4>3, <4>4
    <3> QED BY <3>2, <3>3
  <2>3. /\ Len(used') <= Len(spent')
        /\ ~(Len(used') < MaxNonceCache)
        /\ Len(spent') - Len(used') = L + 1 - U
    <3>1. Len(used') = M /\ Len(spent') = L + 1 /\ Len(used') = U
      BY <1>3, <2>1
    <3> QED BY <1>1, <3>1 DEF M
  <2>4. \A i \in 1 .. Len(used') : used'[i] = spent'[i + (Len(spent') - Len(used'))]
    BY <2>1, <2>2, <2>3
  <2> QED BY <2>3, <2>4 DEF CacheIsTail
<1>8. CASE ~(U + 1 > M)
  <2>1. used' = all /\ Len(used') = U + 1 /\ U = L
    BY <1>1, <1>2, <1>4, <1>8
  <2>2. ASSUME NEW i \in 1 .. U + 1
        PROVE  used'[i] = spent'[i]
    <3>1. CASE i = U + 1
      BY <1>2, <1>3, <2>1, <3>1
    <3>2. CASE i # U + 1
      <4>1. i \in 1 .. U /\ i + (L - U) = i
        BY <1>1, <2>1, <3>2
      <4> QED BY <1>1, <1>2, <1>3, <2>1, <4>1
    <3> QED BY <3>1, <3>2
  <2>3. Len(spent') = Len(used') /\ Len(used') \in Nat
    BY <1>1, <1>3, <2>1
  <2>4. \A i \in 1 .. Len(used') : i + (Len(spent') - Len(used')) = i
    BY <2>3
  <2>5. \A i \in 1 .. Len(used') : used'[i] = spent'[i + (Len(spent') - Len(used'))]
    BY <2>1, <2>2, <2>4
  <2>6. Len(used') <= Len(spent')
    BY <2>3
  <2> QED BY <2>3, <2>5, <2>6 DEF CacheIsTail
<1> QED BY <1>1, <1>7, <1>8

LEMMA ReplayStep ==
  ASSUME TypeOK, CacheIsTail, ReplayOnlyAfterEviction,
         NEW n \in 1 .. MaxCapsules, n \notin ToSet(used), spent' = Append(spent, n)
  PROVE  ReplayOnlyAfterEviction'
<1> DEFINE U == Len(used)
           L == Len(spent)
           M == MaxNonceCache
<1>1. /\ used \in Seq(1 .. MaxCapsules) /\ spent \in Seq(1 .. MaxCapsules)
      /\ U \in Nat /\ L \in Nat /\ M \in Nat /\ U <= M /\ U <= L
      /\ U < M => U = L
      /\ \A i \in 1 .. U : used[i] = spent[i + (L - U)]
  <2>1. /\ used \in Seq(1 .. MaxCapsules) /\ spent \in Seq(1 .. MaxCapsules)
        /\ U <= M /\ M \in Nat \ {0}
    BY GateAssumption DEF TypeOK
  <2>2. U \in Nat /\ L \in Nat
    BY <2>1
  <2>3. /\ U <= L
        /\ U < M => U = L
        /\ \A i \in 1 .. U : used[i] = spent[i + (L - U)]
    BY DEF CacheIsTail
  <2> HIDE DEF U, L, M
  <2> QED BY <2>1, <2>2, <2>3
<1>2. /\ DOMAIN spent' = 1 .. L + 1 /\ DOMAIN spent = 1 .. L
      /\ \A i \in 1 .. L : spent'[i] = spent[i]
      /\ spent'[L + 1] = n
  BY <1>1, AppendProperties
<1>3. \A k \in 1 .. U : used[k] # n
  BY <1>1 DEF ToSet
<1>4. \A i, j \in 1 .. L : i < j /\ spent[i] = spent[j] => j - i > M
  BY <1>2 DEF ReplayOnlyAfterEviction
<1> HIDE DEF U, L, M
<1>5. ASSUME NEW i \in 1 .. L, spent[i] = n
      PROVE  L + 1 - i > M
  <2>1. SUFFICES ASSUME ~(L + 1 - i > M) PROVE FALSE
    OBVIOUS
  <2>2. i - (L - U) \in 1 .. U
    BY <1>1, <2>1
  <2>3. used[i - (L - U)] = spent[i]
    <3>1. i - (L - U) + (L - U) = i
      BY <1>1
    <3> QED BY <1>1, <2>2, <3>1
  <2> QED BY <1>3, <1>5, <2>2, <2>3
<1>6. ASSUME NEW i \in 1 .. L + 1, NEW j \in 1 .. L + 1, i < j, spent'[i] = spent'[j]
      PROVE  j - i > M
  <2>1. i \in 1 .. L
    BY <1>1, <1>6
  <2>2. CASE j = L + 1
    <3>1. spent[i] = n
      BY <1>2, <1>6, <2>1, <2>2
    <3>2. L + 1 - i > M
      BY <1>5, <2>1, <3>1
    <3>3. j - i = L + 1 - i
      BY <1>1, <2>2
    <3> QED BY <3>2, <3>3
  <2>3. CASE j # L + 1
    <3>1. j \in 1 .. L
      BY <1>1, <2>3
    <3> QED BY <1>2, <1>4, <1>6, <2>1, <3>1
  <2> QED BY <2>2, <2>3
<1> QED BY <1>2, <1>6 DEF ReplayOnlyAfterEviction, M

(* A click spends a nonce the cache does not hold; no other step spends.   *)
LEMMA SpendingIsClick ==
  ASSUME [Next]_vars
  PROVE  \/ UNCHANGED <<used, spent>>
         \/ \E c \in shown : /\ c.capsule.nonce \notin ToSet(used)
                             /\ used' = Consumed(c.capsule.nonce) /\ spent' = Append(spent, c.capsule.nonce)
  BY DEF Next, vars, gateVars, Tick, CheckBlind, ForceUnlock, RotateSession, EmitIntent,
         Revoke, IssueCapsule, IngestHeartbeat, Click, Accepts

(* For any cache size, a nonce is consumed a second time only after more   *)
(* than MaxNonceCache others: a double click, a duplicated message or a    *)
(* capsule the ledger turned down is never accepted again while the cache  *)
(* remembers it.                                                           *)
THEOREM SpentOnce == Spec => []ReplayOnlyAfterEviction
<1> DEFINE Inv == GateType /\ CacheIsTail /\ ReplayOnlyAfterEviction
<1>1. Init => Inv
  <2> SUFFICES ASSUME Init PROVE Inv
    OBVIOUS
  <2>1. GateType /\ used = <<>> /\ spent = <<>>
    BY GateTypeInit DEF Init
  <2>2. Len(used) = 0 /\ Len(spent) = 0 /\ DOMAIN spent = {}
    BY <2>1
  <2>3. CacheIsTail
    BY <2>2 DEF CacheIsTail
  <2>4. ReplayOnlyAfterEviction
    BY <2>2 DEF ReplayOnlyAfterEviction
  <2> QED BY <2>1, <2>3, <2>4
<1>2. Inv /\ [Next]_vars => Inv'
  <2> SUFFICES ASSUME GateType, CacheIsTail, ReplayOnlyAfterEviction, [Next]_vars
               PROVE  Inv'
    OBVIOUS
  <2>1. GateType' /\ TypeOK
    BY GateTypeStep DEF GateType
  <2>2. CASE UNCHANGED <<used, spent>>
    BY <2>1, <2>2 DEF CacheIsTail, ReplayOnlyAfterEviction
  <2>3. CASE ~UNCHANGED <<used, spent>>
    <3>1. PICK c \in shown : /\ c.capsule.nonce \notin ToSet(used)
                             /\ used' = Consumed(c.capsule.nonce) /\ spent' = Append(spent, c.capsule.nonce)
      BY <2>3, SpendingIsClick
    <3>2. c.capsule.nonce \in 1 .. MaxCapsules
      BY <2>1 DEF TypeOK
    <3> QED BY <2>1, <3>1, <3>2, CacheIsTailStep, ReplayStep
  <2> QED BY <2>2, <2>3
<1>3. Inv => ReplayOnlyAfterEviction
  OBVIOUS
<1> HIDE DEF Inv
<1> QED BY <1>1, <1>2, <1>3, PTL DEF Spec

-----------------------------------------------------------------------------
(* Nothing executes during a lock.                                         *)

LEMMA LockHoldsStep ==
  ASSUME GateType, LockHolds, [Next]_vars
  PROVE  LockHolds'
<1>1. /\ now \in Nat /\ now > 0 /\ lockEnds \in Nat /\ sentinel \in SentinelType
      /\ sentinel.lockedUntil \in Nat
  <2>1. sentinel \in SentinelType => sentinel.lockedUntil \in Nat
    BY DEF SentinelType
  <2> QED BY <2>1, GateAssumption DEF GateType, TypeOK
<1>2. CASE UNCHANGED <<now, sentinel, lockEnds>>
  BY <1>2 DEF LockHolds
<1>3. CASE Tick
  BY <1>1, <1>3 DEF Tick, LockHolds
<1>4. CASE CheckBlind
  <2>1. sentinel'.state = "BLIND"
    BY <1>1, <1>4, BlindedEffect DEF CheckBlind, Becomes
  <2> QED BY <2>1 DEF LockHolds
<1>5. CASE ForceUnlock
  <2>1. lockEnds' = 0 /\ now' = now
    BY <1>5 DEF ForceUnlock
  <2> QED BY <1>1, <2>1 DEF LockHolds
<1>6. ASSUME NEW b \in Beats, IngestHeartbeat(b)
      PROVE  LockHolds'
  <2> DEFINE h == Heartbeat(sentinel, b, now)
  <2>1. /\ sentinel.state = "BLIND" => h.state = "BLIND"
        /\ sentinel.state \in {"LOCKED", "COOLDOWN"} /\ now < sentinel.lockedUntil =>
             h.state = "COOLDOWN" /\ h.lockedUntil = sentinel.lockedUntil
    BY <1>1, HeartbeatEffect
  <2>2. /\ sentinel' = h /\ now' = now
        /\ lockEnds' = IF h.state = "LOCKED" THEN h.lockedUntil ELSE lockEnds
    BY <1>6 DEF IngestHeartbeat, Becomes
  <2> HIDE DEF h
  <2>3. CASE h.state = "LOCKED"
    BY <2>2, <2>3 DEF LockHolds
  <2>4. CASE h.state # "LOCKED"
    BY <1>1, <2>1, <2>2, <2>4 DEF LockHolds
  <2> QED BY <2>3, <2>4
<1>7. ASSUME \/ RotateSession \/ EmitIntent \/ Revoke \/ IssueCapsule
             \/ \E c \in shown, v \in 0 .. intent.version : Click(c.capsule, v)
      PROVE  UNCHANGED <<now, sentinel, lockEnds>>
  BY <1>7 DEF RotateSession, EmitIntent, Revoke, IssueCapsule, Click, gateVars
<1>8. UNCHANGED vars => UNCHANGED <<now, sentinel, lockEnds>>
  BY DEF vars
<1> QED BY <1>2, <1>3, <1>4, <1>5, <1>6, <1>7, <1>8 DEF Next

(* For any cooldown and heartbeats: after a lock no strike happens before  *)
(* its end, unless an unlock lifted it.                                    *)
THEOREM LockIsKept == Spec => NoStrikeDuringLock
<1> DEFINE Inv == GateType /\ LockHolds
<1>1. Init => Inv
  <2> SUFFICES ASSUME Init PROVE Inv
    OBVIOUS
  <2>1. now = 1 /\ lockEnds = 0
    BY DEF Init
  <2> QED BY <2>1, GateTypeInit DEF LockHolds
<1>2. Inv /\ [Next]_vars => Inv'
  BY GateTypeStep, LockHoldsStep
<1>3. Inv /\ [Next]_vars => [executed' # executed => now >= lockEnds]_vars
  <2> SUFFICES ASSUME Inv, [Next]_vars, executed' # executed
               PROVE  now >= lockEnds
    OBVIOUS
  <2>1. Allowed(sentinel)
    BY StrikeIsClick DEF Accepts
  <2>2. ~(now < lockEnds)
    BY <2>1 DEF LockHolds, Allowed
  <2>3. now \in Int /\ lockEnds \in Int
    BY DEF GateType, TypeOK
  <2> QED BY <2>2, <2>3
<1> HIDE DEF Inv
<1> QED BY <1>1, <1>2, <1>3, PTL DEF Spec, NoStrikeDuringLock

-----------------------------------------------------------------------------
(* What was shown before a change is told by its fields.                   *)

(* The generation, the session and the version only move forward.          *)
LEMMA StaleKept ==
  ASSUME GateType, StaleShows, Grows, UNCHANGED <<shown, outdated>>
  PROVE  OutdatedShows'
<1>1. ASSUME NEW c \in shown, c.capsule.nonce \in outdated
      PROVE  c.capsule.session < session' \/ c.capsule.gen < sentinel'.gen
  <2>1. c.capsule.session \in Int /\ c.capsule.gen \in Int
    BY DEF GateType, TypeOK
  <2>2. /\ session \in Int /\ session' \in Int /\ session <= session'
        /\ sentinel.gen \in Int /\ sentinel'.gen \in Int /\ sentinel.gen <= sentinel'.gen
    <3>1. \A s \in SentinelType : s.gen \in Int
      BY DEF SentinelType
    <3> QED BY <3>1 DEF GateType, TypeOK, Grows
  <2>3. c.capsule.session < session \/ c.capsule.gen < sentinel.gen
    BY <1>1 DEF StaleShows, OutdatedShows
  <2> QED BY <2>1, <2>2, <2>3
<1> QED BY <1>1 DEF OutdatedShows

LEMMA OutdatedMarked ==
  ASSUME GateType, Outdated, shown' = shown,
         session' = session + 1 \/ sentinel'.gen = sentinel.gen + 1
  PROVE  OutdatedShows' /\ outdated' \subseteq NoncesShown'
<1>1. ASSUME NEW c \in shown
      PROVE  c.capsule.session < session' \/ c.capsule.gen < sentinel'.gen
  <2>1. /\ c.capsule.session \in 1 .. session /\ c.capsule.gen \in 0 .. sentinel.gen
        /\ session \in Int /\ sentinel.gen \in Int
    <3>1. \A s \in SentinelType : s.gen \in Int
      BY DEF SentinelType
    <3>2. session \in Int /\ sentinel \in SentinelType
      BY DEF GateType, TypeOK
    <3>3. c.capsule.session \in 1 .. session /\ c.capsule.gen \in 0 .. sentinel.gen
      BY DEF GateType, TypeOK
    <3> QED BY <3>1, <3>2, <3>3
  <2> QED BY <2>1
<1>2. outdated' = NoncesShown /\ NoncesShown' = NoncesShown
  BY DEF Outdated, NoncesShown
<1> QED BY <1>1, <1>2 DEF OutdatedShows

LEMMA SupersededMarked ==
  ASSUME GateType, Superseded, shown' = shown,
         \/ intent'.active.version = intent.version + 1
         \/ intent'.active.revoked
  PROVE  SupersededShows' /\ superseded' \subseteq NoncesShown'
<1>1. ASSUME NEW c \in shown
      PROVE  c.version < intent'.active.version \/ intent'.active.revoked
  <2>1. c.version \in 0 .. intent.version /\ intent.version \in Int
    BY DEF GateType, TypeOK
  <2> QED BY <2>1
<1>2. superseded' = NoncesShown /\ NoncesShown' = NoncesShown
  BY DEF Superseded, NoncesShown
<1> QED BY <1>1, <1>2 DEF SupersededShows

LEMMA StaleIssued ==
  ASSUME GateType, StaleShows, IssueCapsule
  PROVE  StaleShows'
<1> DEFINE new == [capsule |-> Capsule, version |-> intent.active.version]
<1>1. /\ shown' = shown \cup {new}
      /\ UNCHANGED <<outdated, superseded, session, sentinel, intent>>
  BY DEF IssueCapsule
<1>2. /\ \A c \in shown : c.capsule.nonce \in Int /\ c.capsule.nonce <= Cardinality(shown)
      /\ Cardinality(shown) \in Int
  BY FS_CardinalityType DEF GateType, TypeOK, CapsulesNumbered
<1>3. new.capsule.nonce = Cardinality(shown) + 1
  BY DEF Capsule
<1> HIDE DEF new
<1>4. new.capsule.nonce \notin outdated /\ new.capsule.nonce \notin superseded
  <2>1. \A c \in shown : c.capsule.nonce # new.capsule.nonce
    BY <1>2, <1>3
  <2>2. new.capsule.nonce \notin NoncesShown
    BY <2>1 DEF NoncesShown
  <2> QED BY <2>2 DEF StaleShows
<1>5. NoncesShown \subseteq NoncesShown'
  BY <1>1 DEF NoncesShown
<1>6. OutdatedShows'
  BY <1>1, <1>4 DEF StaleShows, OutdatedShows
<1>7. SupersededShows'
  BY <1>1, <1>4 DEF StaleShows, SupersededShows
<1> QED BY <1>1, <1>5, <1>6, <1>7 DEF StaleShows

LEMMA StaleShowsStep ==
  ASSUME GateType, StaleShows, [Next]_vars
  PROVE  StaleShows'
<1>1. Grows /\ sentinel \in SentinelType /\ now \in Nat
  <2>1. Grows
    BY GateTypeStep
  <2>2. sentinel \in SentinelType /\ now \in 1 .. MaxNow
    BY DEF GateType, TypeOK
  <2> QED BY <2>1, <2>2, GateAssumption
<1>2. CASE IssueCapsule
  BY <1>2, StaleIssued
<1>3. CASE ~IssueCapsule
  <2>1. shown' = shown
    BY <1>3 DEF Next, vars, gateVars, Tick, CheckBlind, ForceUnlock, RotateSession, EmitIntent,
                Revoke, IngestHeartbeat, Click
  <2>2. OutdatedShows' /\ outdated' \subseteq NoncesShown'
    <3>1. CASE UNCHANGED outdated
      <4>1. NoncesShown' = NoncesShown
        BY <2>1 DEF NoncesShown
      <4> QED BY <1>1, <2>1, <3>1, <4>1, StaleKept DEF StaleShows
    <3>2. CASE ~UNCHANGED outdated
      <4>1. CASE CheckBlind
        <5>1. sentinel'.gen = sentinel.gen + 1
          BY <1>1, <4>1, BlindedEffect DEF CheckBlind, Becomes
        <5> QED BY <1>1, <2>1, <3>2, <4>1, <5>1, OutdatedMarked DEF CheckBlind, Becomes
      <4>2. CASE ForceUnlock
        <5>1. sentinel'.gen = sentinel.gen + 1
          BY <1>1, <4>2, UnlockedEffect DEF ForceUnlock, Becomes
        <5> QED BY <1>1, <2>1, <3>2, <4>2, <5>1, OutdatedMarked DEF ForceUnlock, Becomes
      <4>3. ASSUME NEW b \in Beats, IngestHeartbeat(b)
            PROVE  OutdatedShows' /\ outdated' \subseteq NoncesShown'
        <5>1. sentinel'.gen = sentinel.gen + 1
          BY <1>1, <4>3, HeartbeatEffect DEF IngestHeartbeat, Becomes
        <5>2. Outdated
          BY <3>2, <4>3 DEF IngestHeartbeat, Becomes
        <5> QED BY <1>1, <2>1, <5>1, <5>2, OutdatedMarked
      <4>4. CASE RotateSession
        BY <1>1, <2>1, <4>4, OutdatedMarked DEF RotateSession
      <4> QED BY <3>2, <1>3, <4>1, <4>2, <4>3, <4>4
              DEF Next, vars, gateVars, Tick, EmitIntent, Revoke, Click
    <3> QED BY <3>1, <3>2
  <2>3. SupersededShows' /\ superseded' \subseteq NoncesShown'
    <3>1. CASE UNCHANGED <<superseded, intent>>
      <4>1. NoncesShown' = NoncesShown
        BY <2>1 DEF NoncesShown
      <4> QED BY <2>1, <3>1, <4>1 DEF StaleShows, SupersededShows
    <3>2. CASE EmitIntent
      <4>1. intent'.active.version = intent.version + 1 /\ Superseded
        BY <3>2 DEF EmitIntent
      <4> QED BY <2>1, <4>1, SupersededMarked
    <3>3. CASE Revoked /\ Superseded
      <4>1. intent'.active.revoked
        BY <3>3 DEF GateType, TypeOK, Revoked
      <4> QED BY <2>1, <3>3, <4>1, SupersededMarked
    <3>4. \/ UNCHANGED <<superseded, intent>>
          \/ EmitIntent
          \/ Revoked /\ Superseded
      BY <1>3 DEF Next, vars, gateVars, Tick, CheckBlind, ForceUnlock, RotateSession,
                  Revoke, IngestHeartbeat, Click
    <3> QED BY <3>1, <3>2, <3>3, <3>4
  <2> QED BY <2>2, <2>3 DEF StaleShows
<1> QED BY <1>2, <1>3

(* For any timeouts and bounds: a strike never spends a capsule that was   *)
(* shown before a change of tilt state or session, nor, with the version   *)
(* shown beside it, before a change of intent; because the generation, the *)
(* session's key and the version only ever move forward and a revoked      *)
(* record stays revoked until it is replaced.                              *)
THEOREM StrikesWhatIsSeen == Spec => SeenIsStillTrue
<1> DEFINE Inv == GateType /\ StaleShows
           SeenTrue == \A c \in shown : Struck(c) =>
                         /\ c.capsule.nonce \notin outdated
                         /\ named' = c.version => c.capsule.nonce \notin superseded
<1>1. Init => Inv
  BY GateTypeInit DEF Init, StaleShows, OutdatedShows, SupersededShows
<1>2. Inv /\ [Next]_vars => Inv'
  BY GateTypeStep, StaleShowsStep
<1>3. Inv /\ [Next]_vars => [SeenTrue]_vars
  <2> SUFFICES ASSUME Inv, [Next]_vars, NEW c \in shown, Struck(c)
               PROVE  /\ c.capsule.nonce \notin outdated
                      /\ named' = c.version => c.capsule.nonce \notin superseded
    OBVIOUS
  <2>1. /\ c.capsule.session = session /\ c.capsule.gen = sentinel.gen
        /\ named' = intent.active.version /\ ~intent.active.revoked
    BY StrikeOfCapsule DEF Accepts, Signed, Stale, Live
  <2>2. /\ session \in Int /\ sentinel.gen \in Int /\ intent.active.version \in Int
    <3>1. \A s \in SentinelType : s.gen \in Int
      BY DEF SentinelType
    <3>2. session \in Int /\ sentinel \in SentinelType
      BY DEF GateType, TypeOK
    <3>3. intent.active.version \in Int
      BY DEF GateType, TypeOK
    <3> QED BY <3>1, <3>2, <3>3
  <2>3. c.capsule.nonce \notin outdated
    BY <2>1, <2>2 DEF StaleShows, OutdatedShows
  <2>4. named' = c.version => c.capsule.nonce \notin superseded
    BY <2>1, <2>2 DEF StaleShows, SupersededShows
  <2> QED BY <2>3, <2>4
<1> HIDE DEF Inv
<1> QED BY <1>1, <1>2, <1>3, PTL DEF Spec, SeenIsStillTrue

-----------------------------------------------------------------------------
(* An intent pushed as revoked is over.                                    *)

LEMMA PushedIsOverStep ==
  ASSUME GateType, PushedIsOver, [Next]_vars
  PROVE  PushedIsOver'
<1>1. /\ intent.version \in Nat /\ intent.active.version \in 0 .. intent.version
      /\ intent.active \in [version: 0 .. intent.version, at: 0 .. now, revoked: BOOLEAN]
      /\ pushed \subseteq Nat
  BY DEF GateType, TypeOK
<1>2. CASE UNCHANGED <<intent, pushed>>
  BY <1>2 DEF PushedIsOver
<1>3. CASE Revoked
  <2>1. /\ intent'.active.version = intent.active.version /\ intent'.active.revoked
        /\ pushed' = pushed \cup {intent.active.version}
    BY <1>1, <1>3 DEF Revoked
  <2> QED BY <2>1 DEF PushedIsOver
<1>4. CASE EmitIntent
  <2>1. intent'.active.version = intent.version + 1 /\ pushed' = pushed
    BY <1>4 DEF EmitIntent
  <2>2. \A v \in pushed : v \in Nat /\ v <= intent.active.version
    BY <1>1 DEF PushedIsOver
  <2> QED BY <1>1, <2>1, <2>2 DEF PushedIsOver
<1>5. \/ UNCHANGED <<intent, pushed>>
      \/ Revoked
      \/ EmitIntent
  BY DEF Next, vars, gateVars, Tick, CheckBlind, ForceUnlock, RotateSession, Revoke,
         IssueCapsule, IngestHeartbeat, Click
<1> QED BY <1>2, <1>3, <1>4, <1>5

(* For any interleaving of revocations, expiries and new intents: once the *)
(* frontend was told an intent is revoked, no click that names it strikes, *)
(* whatever capsule it brings.                                             *)
THEOREM RevokedIsOver == Spec => RevokedNeverStrikes
<1> DEFINE Inv == GateType /\ PushedIsOver
<1>1. Init => Inv
  BY GateTypeInit DEF Init, PushedIsOver
<1>2. Inv /\ [Next]_vars => Inv'
  BY GateTypeStep, PushedIsOverStep
<1>3. Inv /\ [Next]_vars => [executed' # executed => named' \notin pushed]_vars
  <2> SUFFICES ASSUME Inv, [Next]_vars, executed' # executed, named' \in pushed
               PROVE  FALSE
    OBVIOUS
  <2>1. named' = intent.active.version /\ ~intent.active.revoked
    BY StrikeIsClick DEF Stale, Live
  <2>2. intent.active.version \in Int
    BY DEF GateType, TypeOK
  <2> QED BY <2>1, <2>2 DEF PushedIsOver
<1> HIDE DEF Inv
<1> QED BY <1>1, <1>2, <1>3, PTL DEF Spec, RevokedNeverStrikes

-----------------------------------------------------------------------------
(***************************************************************************)
(* BlindnessWatch: the model is type correct, and the screen shows what    *)
(* the watchdog said last once everything is worked off, unless a notice   *)
(* was dropped or held back.                                               *)
(*                                                                         *)
(* A notice of the watchdog that was not dropped is in the queue, then in  *)
(* the worker's hands, then on the screen, or held back.  The latest one is *)
(* the rearmost of these places that holds any.                            *)
(***************************************************************************)

(* The places of the queue with notices of the watchdog. *)
Ours == {i \in DOMAIN queue : queue[i] # Plain}

(* The rearmost of them is what the watchdog said last. *)
RearmostIsLatest ==
  ~lost => \A i \in Ours : (\A j \in Ours : j <= i) => queue[i] = told

(* With none in the queue the worker has it, or else the screen. *)
WorkedOffIsShown ==
  ~lost /\ ~held /\ Ours = {} =>
    IF worker = "posting" /\ packet # Plain THEN packet = told ELSE screen = told

WatchInv == WatchTypeOK /\ RearmostIsLatest /\ WorkedOffIsShown

-----------------------------------------------------------------------------

(* The three kinds of notices are three. *)
LEMMA NoticesDiffer == Blind # Cleared /\ Blind # Plain /\ Cleared # Plain
                       /\ NoNotice \notin Notices
                       /\ Notices = {Blind, Cleared, Plain}
BY DEF Blind, Cleared, Plain, NoNotice, Notices

LEMMA InitWatch == WatchInit => WatchInv
<1> SUFFICES ASSUME WatchInit PROVE WatchInv
  OBVIOUS
<1>1. WatchTypeOK
  <2>1. queue \in Seq(Notices) /\ Len(queue) = 0 /\ 0 <= QueueSize /\ plain \in 0 .. MaxPlain
    BY WatchAssumption DEF WatchInit
  <2> QED
    BY <2>1 DEF WatchInit, WatchTypeOK
<1>2. Ours = {}
  BY DEF WatchInit, Ours
<1> QED
  BY <1>1, <1>2 DEF WatchInit, WatchInv, RearmostIsLatest, WorkedOffIsShown

(* A notice is queued, or lost. *)
LEMMA PutQueues ==
  ASSUME WatchTypeOK, NEW n \in Notices, Put(n)
  PROVE  /\ queue' \in Seq(Notices) /\ Len(queue') <= QueueSize
         /\ lost' \in BOOLEAN /\ (lost => lost')
         /\ ~lost' => queue' = Append(queue, n)
<1>1. queue \in Seq(Notices) /\ Len(queue) <= QueueSize /\ lost \in BOOLEAN
      /\ QueueSize \in Nat /\ Len(queue) \in Nat
  BY WatchAssumption DEF WatchTypeOK
<1>2. CASE Len(queue) < QueueSize /\ queue' = Append(queue, n) /\ lost' = lost
  <2>1. Append(queue, n) \in Seq(Notices) /\ Len(Append(queue, n)) = Len(queue) + 1
    BY <1>1
  <2> QED
    BY <1>1, <1>2, <2>1
<1>3. CASE lost' = TRUE /\ queue' = queue
  BY <1>1, <1>3
<1> QED
  BY <1>2, <1>3 DEF Put

LEMMA NextType == WatchTypeOK /\ [WatchNext]_watchVars => WatchTypeOK'
<1> SUFFICES ASSUME WatchTypeOK, [WatchNext]_watchVars PROVE WatchTypeOK'
  OBVIOUS
<1>1. CASE TradeArrives \/ FallSilent \/ GraceOver
  BY <1>1 DEF TradeArrives, FallSilent, GraceOver, WatchTypeOK
<1>2. ASSUME NEW n \in Notices, CoolDown(n) PROVE WatchTypeOK'
  BY <1>2 DEF CoolDown, WatchTypeOK
<1>3. CASE NotifyPlain
  <2>1. Plain \in Notices
    BY NoticesDiffer
  <2>2. plain' \in 0 .. MaxPlain
    BY <1>3, WatchAssumption DEF NotifyPlain, WatchTypeOK
  <2> QED
    BY <1>3, <2>1, <2>2, PutQueues DEF NotifyPlain, WatchTypeOK
<1>4. CASE TickBlind
  BY <1>4, NoticesDiffer, PutQueues DEF TickBlind, WatchTypeOK
<1>5. CASE TickCleared
  BY <1>5, NoticesDiffer, PutQueues DEF TickCleared, WatchTypeOK
<1>6. CASE Take
  <2>1. Head(queue) \in Notices /\ Tail(queue) \in Seq(Notices) /\ Len(Tail(queue)) <= QueueSize
    BY <1>6, WatchAssumption DEF Take, WatchTypeOK
  <2>2. held' \in BOOLEAN
    BY <1>6 DEF Take, WatchTypeOK, Debounced
  <2>3. cooling' \subseteq {Blind, Cleared}
    BY <1>6, <2>1, NoticesDiffer DEF Take, WatchTypeOK
  <2>4. worker' \in {"waiting", "posting"} /\ packet' \in Notices \cup {NoNotice}
    BY <1>6, <2>1 DEF Take, WatchTypeOK
  <2> QED
    BY <1>6, <2>1, <2>2, <2>3, <2>4 DEF Take, WatchTypeOK
<1>7. CASE Post \/ PostFails
  BY <1>7, NoticesDiffer DEF Post, PostFails, WatchTypeOK
<1>8. CASE UNCHANGED watchVars
  BY <1>8 DEF watchVars, WatchTypeOK
<1> QED
  BY <1>1, <1>2, <1>3, <1>4, <1>5, <1>6, <1>7, <1>8 DEF WatchNext, Watchdog, Worker

(* The model is type correct. *)
THEOREM WatchTypeCorrect == WatchSpec => []WatchTypeOK
<1>1. WatchInit => WatchTypeOK
  BY InitWatch DEF WatchInv
<1> QED
  BY <1>1, NextType, PTL DEF WatchSpec

(* What has been queued behind the rest. *)
LEMMA AppendedOurs ==
  ASSUME queue \in Seq(Notices), NEW n \in Notices, queue' = Append(queue, n)
  PROVE  /\ n = Plain => Ours' = Ours /\ \A i \in Ours : queue'[i] = queue[i]
         /\ n # Plain => /\ Len(queue) + 1 \in Ours' /\ queue'[Len(queue) + 1] = n
                         /\ \A i \in Ours' : i <= Len(queue) + 1
<1>1. /\ Len(queue) \in Nat /\ DOMAIN queue = 1 .. Len(queue)
      /\ DOMAIN queue' = 1 .. Len(queue) + 1
      /\ \A i \in 1 .. Len(queue) : queue'[i] = queue[i]
      /\ queue'[Len(queue) + 1] = n
  OBVIOUS
<1> QED
  BY <1>1 DEF Ours

(* What is left when the head is taken. *)
LEMMA TakenOurs ==
  ASSUME queue \in Seq(Notices), queue # <<>>, queue' = Tail(queue)
  PROVE  /\ \A i \in Ours' : i \in Nat /\ i + 1 \in Ours /\ queue'[i] = queue[i + 1]
         /\ \A i \in Ours : i \in Nat /\ (i # 1 => i > 1 /\ i - 1 \in Ours')
         /\ 1 \in Ours <=> Head(queue) # Plain
<1>1. PICK n \in Nat : n = Len(queue) /\ n # 0
  OBVIOUS
<1>2. /\ DOMAIN queue = 1 .. n /\ DOMAIN queue' = 1 .. n - 1
      /\ \A i \in 1 .. n - 1 : queue'[i] = queue[i + 1]
      /\ Head(queue) = queue[1]
  BY <1>1
<1> QED
  BY <1>1, <1>2 DEF Ours

LEMMA NextWatch == WatchInv /\ [WatchNext]_watchVars => WatchInv'
<1> SUFFICES ASSUME WatchInv, [WatchNext]_watchVars PROVE RearmostIsLatest' /\ WorkedOffIsShown'
  BY NextType DEF WatchInv
<1>t. WatchTypeOK /\ queue \in Seq(Notices)
  BY DEF WatchInv, WatchTypeOK
<1>1. CASE UNCHANGED <<queue, worker, packet, told, screen, lost, held>>
  <2>1. Ours' = Ours
    BY <1>1 DEF Ours
  <2> QED
    BY <1>1, <2>1 DEF WatchInv, RearmostIsLatest, WorkedOffIsShown
<1>2. CASE NotifyPlain
  <2> SUFFICES ASSUME ~lost' PROVE RearmostIsLatest' /\ WorkedOffIsShown'
    BY DEF RearmostIsLatest, WorkedOffIsShown
  <2>1. ~lost /\ queue' = Append(queue, Plain) /\ Plain \in Notices
    BY <1>2, <1>t, PutQueues, NoticesDiffer DEF NotifyPlain
  <2>2. Ours' = Ours /\ \A i \in Ours : queue'[i] = queue[i]
    BY <1>t, <2>1, AppendedOurs
  <2> QED
    BY <1>2, <2>1, <2>2 DEF NotifyPlain, WatchInv, RearmostIsLatest, WorkedOffIsShown
<1>3. ASSUME NEW n \in {Blind, Cleared}, Put(n), told' = n
      PROVE  RearmostIsLatest' /\ WorkedOffIsShown'
  <2> SUFFICES ASSUME ~lost' PROVE RearmostIsLatest' /\ WorkedOffIsShown'
    BY DEF RearmostIsLatest, WorkedOffIsShown
  <2>1. queue' = Append(queue, n) /\ n \in Notices /\ n # Plain
    BY <1>3, <1>t, PutQueues, NoticesDiffer
  <2>2. PICK k \in Nat : k = Len(queue) + 1
    BY <1>t
  <2>3. /\ k \in Ours' /\ queue'[k] = n
        /\ \A i \in Ours' : i <= k
    BY <1>t, <2>1, <2>2, AppendedOurs
  <2>4. \A i \in Ours' : i \in Nat
    BY <1>t, <2>1 DEF Ours
  <2>5. \A i \in Ours' : (\A j \in Ours' : j <= i) => i = k
    BY <2>3, <2>4
  <2> QED
    BY <1>3, <2>3, <2>5 DEF RearmostIsLatest, WorkedOffIsShown
<1>4. CASE Take
  <2> SUFFICES ASSUME ~lost' PROVE RearmostIsLatest' /\ WorkedOffIsShown'
    BY DEF RearmostIsLatest, WorkedOffIsShown
  <2>1. /\ ~lost /\ told' = told /\ screen' = screen /\ worker = "waiting"
        /\ queue' = Tail(queue) /\ queue # <<>>
    BY <1>4 DEF Take
  <2>2. /\ \A i \in Ours' : i \in Nat /\ i + 1 \in Ours /\ queue'[i] = queue[i + 1]
        /\ \A i \in Ours : i \in Nat /\ (i # 1 => i > 1 /\ i - 1 \in Ours')
        /\ 1 \in Ours <=> Head(queue) # Plain
    BY <1>t, <2>1, TakenOurs
  <2>3. RearmostIsLatest'
    <3>1. ASSUME NEW i \in Ours', \A j \in Ours' : j <= i
          PROVE  queue'[i] = told
      <4>1. \A j \in Ours : j <= i + 1
        BY <2>2, <3>1
      <4> QED
        BY <2>1, <2>2, <4>1 DEF WatchInv, RearmostIsLatest
    <3> QED
      BY <2>1, <3>1 DEF RearmostIsLatest
  <2>4. ASSUME ~held', Ours' = {}
        PROVE  IF worker' = "posting" /\ packet' # Plain THEN packet' = told ELSE screen = told
    <3>1. CASE Head(queue) = Plain
      <4>1. Ours = {} /\ ~held
        BY <1>4, <2>2, <2>4, <3>1 DEF Take
      <4>2. screen = told
        BY <2>1, <4>1 DEF WatchInv, WorkedOffIsShown
      <4>3. packet' = Plain \/ worker' = "waiting"
        BY <1>4, <2>1, <3>1 DEF Take
      <4> QED
        BY <4>2, <4>3
    <3>2. CASE Head(queue) # Plain
      <4>1. ~Debounced(Head(queue)) /\ worker' = "posting" /\ packet' = Head(queue)
        BY <1>4, <2>4, <3>2 DEF Take
      <4>2. 1 \in Ours /\ \A j \in Ours : j <= 1
        BY <2>2, <2>4, <3>2
      <4>3. queue[1] = told
        BY <2>1, <4>2 DEF WatchInv, RearmostIsLatest
      <4> QED
        BY <1>t, <2>1, <3>2, <4>1, <4>3
    <3> QED
      BY <3>1, <3>2
  <2> QED
    BY <2>1, <2>3, <2>4 DEF WorkedOffIsShown
<1>5. CASE Post
  <2>1. Ours' = Ours
    BY <1>5 DEF Post, Ours
  <2> QED
    BY <1>5, <2>1 DEF Post, WatchInv, RearmostIsLatest, WorkedOffIsShown
<1>6. CASE PostFails
  BY <1>6 DEF PostFails, RearmostIsLatest, WorkedOffIsShown
<1>7. CASE TradeArrives \/ FallSilent \/ GraceOver \/ \E n \in Notices : CoolDown(n)
  BY <1>1, <1>7 DEF TradeArrives, FallSilent, GraceOver, CoolDown
<1>8. CASE TickBlind \/ TickCleared
  BY <1>3, <1>8 DEF TickBlind, TickCleared
<1>9. CASE UNCHANGED watchVars
  BY <1>1, <1>9 DEF watchVars
<1> QED
  BY <1>2, <1>4, <1>5, <1>6, <1>7, <1>8, <1>9 DEF WatchNext, Watchdog, Worker

(* Once all is worked off the screen shows what the watchdog said last,    *)
(* unless a notice was dropped or the latest was held back.                *)
THEOREM ScreenIsTrue == WatchSpec => []ScreenIsLastToldUnlessHeld
<1>1. WatchInv => ScreenIsLastToldUnlessHeld
  BY DEF WatchInv, WorkedOffIsShown, ScreenIsLastToldUnlessHeld, Ours
<1> QED
  BY <1>1, InitWatch, NextWatch, PTL DEF WatchSpec
=============================================================================
