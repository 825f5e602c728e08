---------------------------- MODULE BlindnessWatch ----------------------------
(***************************************************************************)
(* The PartialBlindnessWatchdog and the channel its notices take to the    *)
(* operator: main's _watchdog_sink calls notify_manual, which puts them in *)
(* the bounded queue of TelegramRadarNotifier; _process_worker takes them  *)
(* out, asks the AlertDebouncer, and posts them once.                      *)
(*                                                                         *)
(* Time is not counted.  The environment says when the last trade has      *)
(* become older than silence_threshold_sec and when the cooldown of a      *)
(* debounced notice is over.                                               *)
(***************************************************************************)
EXTENDS Naturals, Sequences

CONSTANTS
  QueueSize,   \* maxsize of the queue (100 in the code)
  MaxPlain     \* bound: other notices raised

ASSUME WatchAssumption == QueueSize \in Nat \ {0} /\ MaxPlain \in Nat

VARIABLES
  silent,     \* the last trade is older than the threshold, or there is none
  awake,      \* the watchdog's grace period is over
  alerted,    \* _already_alerted
  queue,      \* the notifier's queue
  worker,     \* "waiting" in queue.get, or "posting"
  packet,     \* the notice the worker took
  cooling,    \* the notices the debouncer holds back
  \* observation only
  told,       \* the last notice the watchdog raised
  screen,     \* the last of its notices the operator saw
  lost,       \* a notice was dropped for a full queue or by the network
  held,       \* the debouncer held back the latest notice it was asked about
  plain       \* other notices raised so far

watchVars == <<silent, awake, alerted, queue, worker, packet, cooling, told, screen, lost, held, plain>>

Blind   == "PARTIAL_BLINDNESS"
Cleared == "PARTIAL_BLINDNESS_CLEARED"
Plain   == "DEFAULT"   \* one of those that bypass the debouncer
Notices == {Blind, Cleared, Plain}
NoNotice == "none"

WatchInit ==
  /\ silent = TRUE /\ awake = FALSE /\ alerted = FALSE
  /\ queue = <<>> /\ worker = "waiting" /\ packet = NoNotice /\ cooling = {}
  /\ told = NoNotice /\ screen = NoNotice /\ lost = FALSE /\ held = FALSE /\ plain = 0

-----------------------------------------------------------------------------
(* Time and the feed.                                                      *)

TradeArrives ==
  /\ silent
  /\ silent' = FALSE
  /\ UNCHANGED <<awake, alerted, queue, worker, packet, cooling, told, screen, lost, held, plain>>

(* No trade for silence_threshold_sec; or the last one processed was an    *)
(* old one, of a reader that is behind.                                    *)
FallSilent ==
  /\ ~silent
  /\ silent' = TRUE
  /\ UNCHANGED <<awake, alerted, queue, worker, packet, cooling, told, screen, lost, held, plain>>

CoolDown(n) ==
  /\ n \in cooling
  /\ cooling' = cooling \ {n}
  /\ UNCHANGED <<silent, awake, alerted, queue, worker, packet, told, screen, lost, held, plain>>

-----------------------------------------------------------------------------
(* notify_manual: put_nowait, and a packet that does not fit is dropped.   *)

(* Mutant: the newest notice goes to the front. *)
PutInFront(n) ==
  \/ /\ Len(queue) < QueueSize
     /\ queue' = <<n>> \o queue
     /\ UNCHANGED lost
  \/ /\ Len(queue) = QueueSize
     /\ lost' = TRUE
     /\ UNCHANGED queue

Put(n) ==
  \/ /\ Len(queue) < QueueSize
     /\ queue' = Append(queue, n)
     /\ UNCHANGED lost
  \/ /\ Len(queue) = QueueSize
     /\ lost' = TRUE
     /\ UNCHANGED queue

NotifyPlain ==
  /\ plain < MaxPlain
  /\ plain' = plain + 1
  /\ Put(Plain)
  /\ UNCHANGED <<silent, awake, alerted, worker, packet, cooling, told, screen, held>>

-----------------------------------------------------------------------------
(* The watchdog.                                                           *)

GraceOver ==
  /\ ~awake
  /\ awake' = TRUE
  /\ UNCHANGED <<silent, alerted, queue, worker, packet, cooling, told, screen, lost, held, plain>>

(* Mutant: recovery does not re-arm. *)
TickClearedKeepsFlag ==
  /\ awake /\ ~silent /\ alerted /\ told = Blind
  /\ Put(Cleared)
  /\ told' = Cleared
  /\ UNCHANGED <<silent, awake, alerted, worker, packet, cooling, screen, held, plain>>

TickBlind ==
  /\ awake /\ silent /\ ~alerted
  /\ alerted' = TRUE
  /\ Put(Blind)
  /\ told' = Blind
  /\ UNCHANGED <<silent, awake, worker, packet, cooling, screen, held, plain>>

TickCleared ==
  /\ awake /\ ~silent /\ alerted
  /\ alerted' = FALSE
  /\ Put(Cleared)
  /\ told' = Cleared
  /\ UNCHANGED <<silent, awake, worker, packet, cooling, screen, held, plain>>

-----------------------------------------------------------------------------
(* The worker.                                                             *)

Debounced(n) == n # Plain /\ n \in cooling

Take ==
  /\ worker = "waiting"
  /\ queue # <<>>
  /\ queue' = Tail(queue)
  /\ held' = IF Head(queue) = Plain THEN held ELSE Debounced(Head(queue))
  /\ IF Debounced(Head(queue))
       THEN UNCHANGED <<worker, packet, cooling>>
       ELSE /\ worker' = "posting"
            /\ packet' = Head(queue)
            /\ cooling' = cooling \cup ({Head(queue)} \ {Plain})
  /\ UNCHANGED <<silent, awake, alerted, told, screen, lost, plain>>

Post ==
  /\ worker = "posting"
  /\ worker' = "waiting"
  /\ packet' = NoNotice
  /\ screen' = IF packet = Plain THEN screen ELSE packet
  /\ UNCHANGED <<silent, awake, alerted, queue, cooling, told, lost, held, plain>>

(* A timeout, an error status or an exception: the packet is dropped.  An  *)
(* unreachable proxy too: its exception is an OSError, which the clause    *)
(* before the one that would requeue the packet catches.  A timeout may    *)
(* hide a message that did arrive.                                         *)
PostFails ==
  /\ worker = "posting"
  /\ worker' = "waiting"
  /\ packet' = NoNotice
  /\ lost' = TRUE
  /\ screen' \in {screen, IF packet = Plain THEN screen ELSE packet}
  /\ UNCHANGED <<silent, awake, alerted, queue, cooling, told, held, plain>>

-----------------------------------------------------------------------------

Watchdog == GraceOver \/ TickBlind \/ TickCleared
Worker   == Take \/ Post \/ PostFails

WatchNext == \/ TradeArrives \/ FallSilent \/ NotifyPlain
        \/ \E n \in Notices : CoolDown(n)
        \/ Watchdog \/ Worker

WatchSpec == WatchInit /\ [][WatchNext]_watchVars

(* Both tasks are scheduled, a cooldown ends, and a post is answered or    *)
(* times out.                                                              *)
Fairness == /\ WF_watchVars(Watchdog) /\ WF_watchVars(Worker)
            /\ \A n \in Notices : WF_watchVars(CoolDown(n))

WatchFairSpec == WatchSpec /\ Fairness

-----------------------------------------------------------------------------
(* Properties.                                                             *)

WatchTypeOK ==
  /\ silent \in BOOLEAN /\ awake \in BOOLEAN /\ alerted \in BOOLEAN
  /\ queue \in Seq(Notices) /\ Len(queue) <= QueueSize
  /\ worker \in {"waiting", "posting"}
  /\ packet \in Notices \cup {NoNotice}
  /\ cooling \subseteq {Blind, Cleared}
  /\ told \in {NoNotice, Blind, Cleared} /\ screen \in {NoNotice, Blind, Cleared}
  /\ lost \in BOOLEAN /\ held \in BOOLEAN
  /\ plain \in 0 .. MaxPlain

(* The watchdog does not sleep through a silence: if trades stay away it   *)
(* says so, and once they are back for good it says that.                  *)
SilenceNoticed == /\ (silent /\ awake) ~> (~silent \/ told = Blind)
                  /\ (~silent /\ alerted) ~> (silent \/ told = Cleared)

(* The operator's screen shows what the watchdog said last, once all is    *)
(* worked off, unless a notice was dropped or the debouncer held back the  *)
(* latest one, which may be the warning of a new silence.                  *)
ScreenIsLastToldUnlessHeld ==
  ~lost /\ ~held /\ queue = <<>> /\ worker = "waiting" => screen = told
=============================================================================
