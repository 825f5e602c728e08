---------------------------- MODULE OperatorGate ----------------------------
(***************************************************************************)
(* The gate between the operator's EXECUTE button and a strike: capsules   *)
(* bound to a session and a generation of the sentinel, spent once, and    *)
(* intents that expire, are revoked or superseded.  Each handler runs in   *)
(* one piece on the event loop; what interleaves is the world between      *)
(* showing a capsule and the click that brings it back, which may be late, *)
(* repeated, or for something long gone.  A click carries a capsule and,   *)
(* unsigned, the version of an intent: the gate never asks whether they    *)
(* were shown together.                                                    *)
(***************************************************************************)
EXTENDS CognitiveSentinel, Sequences, SequencesExt

CONSTANTS
  CapsuleTtl,      \* _ttl_sec of the validator, 1.2 in the code
  IntentTtl,       \* ttl_sec of emit_intent, 5
  MaxNonceCache,   \* 10000 in the code
  Beats,           \* heartbeats of the frontend
  MaxNow, MaxVersion, MaxCapsules, MaxBeats, MaxAdmin, MaxClicks   \* bounds of the model

ASSUME GateAssumption ==
  /\ CapsuleTtl \in Nat /\ IntentTtl \in Nat /\ MaxNonceCache \in Nat \ {0}
  /\ Beats \subseteq [reaction: {NoSample} \cup 0 .. 2, clicks: Nat, bad: Nat, good: Nat]
  /\ {MaxVersion, MaxCapsules, MaxBeats, MaxAdmin, MaxClicks} \subseteq Nat
  /\ MaxNow \in Nat \ {0}

VARIABLES
  now,       \* time.monotonic(), in seconds
  sentinel,
  session,   \* which ephemeral key the forge holds
  shown,     \* on the operator's screens: a capsule, and the version of the intent beside it
  used,      \* _nonce_order, and as a set _used_nonces
  intent,    \* _version and _active of the intent ledger
  executed,  \* _total_executed
  admin,     \* unlocks and rotations so far
  beats,     \* heartbeats so far
  spent,     \* history: the nonces consumed, in order
  lockEnds,  \* history: when the latest lock ends, 0 if it was lifted
  named,     \* history: the version that the click of the latest strike carried
  outdated,  \* history: nonces shown before the latest change of tilt state or session
  superseded,\* history: nonces shown before the latest change of intent
  pushed     \* history: versions whose REVOKE was pushed to the frontend

gateVars == <<session, shown, used, executed, spent, named>>
vars == <<now, sentinel, session, shown, used, intent, executed, admin, beats,
          spent, lockEnds, named, outdated, superseded, pushed>>

None == [version |-> 0, at |-> 0, revoked |-> FALSE]

Init ==
  /\ now = 1
  /\ sentinel = Sentinel(1)
  /\ session = 1 /\ shown = {} /\ used = <<>> /\ executed = 0
  /\ intent = [version |-> 0, active |-> None]
  /\ admin = 0 /\ beats = 0
  /\ spent = <<>> /\ lockEnds = 0 /\ named = 0
  /\ outdated = {} /\ superseded = {} /\ pushed = {}

(* What the operator was shown no longer holds: of the operator and the    *)
(* session, or of the intent.                                              *)
NoncesShown == {c.capsule.nonce : c \in shown}
Outdated    == outdated' = NoncesShown
Superseded  == superseded' = NoncesShown

Becomes(s) ==
  /\ sentinel' = s
  /\ IF s.state = sentinel.state THEN UNCHANGED outdated ELSE Outdated

Tick ==
  /\ now < MaxNow
  /\ now' = now + 1
  /\ UNCHANGED <<sentinel, intent, admin, beats, lockEnds, outdated, superseded, pushed,
                 gateVars>>

IngestHeartbeat(b) ==
  /\ beats < MaxBeats
  /\ beats' = beats + 1
  /\ LET s == Heartbeat(sentinel, b, now)
     IN /\ Becomes(s)
        /\ lockEnds' = IF s.state = "LOCKED" THEN s.lockedUntil ELSE lockEnds
  /\ UNCHANGED <<now, intent, admin, superseded, pushed, gateVars>>

CheckBlind ==
  /\ Silent(sentinel, now) /\ sentinel.state # "BLIND"
  /\ Becomes(Blinded(sentinel, now))
  /\ UNCHANGED <<now, intent, admin, beats, lockEnds, superseded, pushed, gateVars>>

ForceUnlock ==
  /\ admin < MaxAdmin
  /\ admin' = admin + 1
  /\ Becomes(Unlocked(sentinel))
  /\ lockEnds' = 0
  /\ UNCHANGED <<now, intent, beats, superseded, pushed, gateVars>>

RotateSession ==
  /\ admin < MaxAdmin
  /\ admin' = admin + 1
  /\ session' = session + 1
  /\ Outdated
  /\ UNCHANGED <<now, sentinel, shown, used, intent, executed, beats, spent, lockEnds,
                 named, superseded, pushed>>

(* A new intent replaces the active one, which is not pushed as revoked.   *)
EmitIntent ==
  /\ intent.version < MaxVersion
  /\ intent' = [version |-> intent.version + 1,
                active |-> [version |-> intent.version + 1, at |-> now, revoked |-> FALSE]]
  /\ Superseded
  /\ UNCHANGED <<now, sentinel, admin, beats, lockEnds, outdated, pushed, gateVars>>

Live == intent.active # None /\ ~intent.active.revoked

(* Mutant: the push goes out but the record is not marked. *)
RevokedQuietly ==
  /\ intent' = [intent EXCEPT !.version = @ + 1]
  /\ pushed' = pushed \cup {intent.active.version}

(* revoke, of a live intent; otherwise it returns at once.                 *)
Revoked ==
  /\ intent' = [intent EXCEPT !.version = @ + 1, !.active.revoked = TRUE]
  /\ pushed' = pushed \cup {intent.active.version}

(* A macro shock, alpha decay or the operator revokes.                     *)
Revoke ==
  /\ Live
  /\ Revoked
  /\ Superseded
  /\ UNCHANGED <<now, sentinel, admin, beats, lockEnds, outdated, gateVars>>

(* What the forge signs with the key of the session.  The signal it is for *)
(* is abstracted; the version of an intent is not among its fields.        *)
Capsule == [nonce |-> Cardinality(shown) + 1, session |-> session,
            gen |-> sentinel.gen, at |-> now]

Signed(c) == c.session = session

(* issue_capsule asks nobody: it may be called in any tilt state, with an  *)
(* intent that is revoked already, or with none.                           *)
IssueCapsule ==
  /\ Cardinality(shown) < MaxCapsules
  /\ shown' = shown \cup {[capsule |-> Capsule, version |-> intent.active.version]}
  /\ UNCHANGED <<now, sentinel, session, used, intent, executed, admin, beats,
                 spent, lockEnds, named, outdated, superseded, pushed>>

(* The validator's cascade: signature, replay, age, generation, sentinel.  *)
Accepts(c) ==
  /\ Signed(c)
  /\ c.nonce \notin ToSet(used)
  /\ now - c.at <= CapsuleTtl
  /\ c.gen = sentinel.gen
  /\ Allowed(sentinel)

(* Mutant: evicts when the cache is full, not when it has overflowed. *)
ConsumedEarly(n) ==
  LET all == Append(used, n) IN IF Len(all) >= MaxNonceCache THEN Tail(all) ELSE all

(* _consume_nonce: the oldest makes room.                                  *)
Consumed(n) ==
  LET all == Append(used, n) IN IF Len(all) > MaxNonceCache THEN Tail(all) ELSE all

(* validate_click: a stale, revoked or late version is turned down, and    *)
(* the late one revokes its intent.                                        *)
Stale(v) == ~Live \/ v # intent.active.version
Expired == now - intent.active.at > IntentTtl

(* validate_execution, of a capsule and a version.  The nonce is spent     *)
(* before the ledger is asked.  A rejected capsule changes only counters,  *)
(* so that click is not a step.                                            *)
Click(c, v) ==
  /\ Accepts(c)
  /\ Len(spent) < MaxClicks
  /\ used' = Consumed(c.nonce) /\ spent' = Append(spent, c.nonce)
  /\ UNCHANGED <<now, sentinel, session, shown, admin, beats, lockEnds, outdated>>
  /\ IF Stale(v)
     THEN UNCHANGED <<intent, executed, named, superseded, pushed>>   \* INTENT_INVALID
     ELSE IF Expired
     THEN Revoked /\ Superseded /\ UNCHANGED <<executed, named>>
     ELSE /\ executed' = executed + 1 /\ named' = v
          /\ UNCHANGED <<intent, superseded, pushed>>

Next ==
  \/ Tick \/ CheckBlind \/ ForceUnlock \/ RotateSession
  \/ EmitIntent \/ Revoke \/ IssueCapsule
  \/ \E b \in Beats : IngestHeartbeat(b)
  \/ \E c \in shown, v \in 0 .. intent.version : Click(c.capsule, v)

Spec == Init /\ [][Next]_vars

-----------------------------------------------------------------------------
(* The types of the state; the cache never exceeds its bound.              *)
TypeOK ==
  /\ now \in 1 .. MaxNow
  /\ sentinel \in SentinelType
  /\ session \in 1 .. MaxAdmin + 1
  /\ shown \subseteq
       [capsule: [nonce: 1 .. MaxCapsules, session: 1 .. session, gen: 0 .. sentinel.gen,
                  at: 1 .. now],
        version: 0 .. intent.version]
  /\ used \in Seq(1 .. MaxCapsules) /\ Len(used) <= MaxNonceCache
  /\ intent.version \in Nat
  /\ intent.active \in [version: 0 .. intent.version, at: 0 .. now, revoked: BOOLEAN]
  /\ spent \in Seq(1 .. MaxCapsules) /\ executed \in 0 .. Len(spent)
  /\ admin \in 0 .. MaxAdmin /\ beats \in 0 .. MaxBeats
  /\ lockEnds \in Nat /\ named \in Nat /\ pushed \subseteq Nat
  /\ outdated \subseteq 1 .. MaxCapsules /\ superseded \subseteq 1 .. MaxCapsules

(* A capsule is spent twice only if so many others were spent in between   *)
(* that the cache had to forget it: never among fewer clicks than it holds,*)
(* whatever the intent ledger said of them.                                *)
ReplayOnlyAfterEviction ==
  \A i, j \in DOMAIN spent : i < j /\ spent[i] = spent[j] => j - i > MaxNonceCache

(* A strike, and the capsule it spends.                                    *)
Struck(c) == executed' # executed /\ c.capsule.nonce = Last(spent')

(* Once the operator is locked nothing executes until the cooldown has     *)
(* run, through heartbeats, blindness and reconnects, unless an unlock     *)
(* lifts it.                                                               *)
NoStrikeDuringLock == [][executed' # executed => now >= lockEnds]_vars

(* What executes is what the operator saw: between the capsule's issue and *)
(* its click the tilt state did not change and the session was not rotated,*)
(* and if the click names the intent shown beside the capsule, that intent *)
(* was neither replaced nor revoked, even if all of it was undone          *)
(* meanwhile.  Nothing of the intent holds for an older capsule that comes *)
(* with a newer version.                                                   *)
SeenIsStillTrue ==
  [][\A c \in shown : Struck(c) =>
       /\ c.capsule.nonce \notin outdated
       /\ named' = c.version => c.capsule.nonce \notin superseded]_vars

(* An intent whose REVOKE reached the frontend never executes again, with  *)
(* whatever capsule its version comes.                                     *)
RevokedNeverStrikes == [][executed' # executed => named' \notin pushed]_vars
=============================================================================
