------------------------------ MODULE BybitFeed ------------------------------
(***************************************************************************)
(* BybitIngestor: the task of start() connects, subscribes and puts the    *)
(* frames of the socket into a queue, the drain task validates them with a *)
(* sequence guard per symbol and hands them on, the watchdog kills a       *)
(* socket that is silent.  A kill forgets the guards but not the queue, so *)
(* frames of a dead connection meet fresh guards.  A kill first awaits the *)
(* close of the socket: of a half-open one it may wait for ten seconds,    *)
(* while the task of start() opens the next.                               *)
(*                                                                         *)
(* Of a sequence number u a delta keeps only whether the exchange made     *)
(* updates that no frame before it in the queue carries (its hole): the    *)
(* queue is first-in first-out and the exchange never counts backwards.    *)
(***************************************************************************)
EXTENDS Naturals, Sequences

CONSTANTS
  Symbols,      \* orderbook subscriptions
  QueueSize,    \* size of _ingest_queue with the batch in work, 75000 and 100 in the code
  MaxFaults     \* bound: losses, refusals, stalls, skipped updates, full queues, toggles, short back-offs

ASSUME FeedAssumption == QueueSize \in Nat \ {0} /\ MaxFaults \in Nat

VARIABLES
  running,   \* _running
  pc,        \* where the task of start() is
  link,      \* the socket of that task: "none", "live" or "half" (nothing comes any more)
  held,      \* _ws is that socket, not None
  closing,   \* the tasks that await close() in _force_kill_socket: "drain", "watchdog"
  served,    \* what the exchange sends next of a symbol: "nothing", "snapshot" or "deltas"
  hole,      \* symbols with an update after the last frame of theirs that was queued
  bboOnly,   \* _bbo_only_mode
  queue,     \* _ingest_queue, the rest of the drain's batch in front
  delivering,\* on_snapshot is awaited with the frame in front
  guard,     \* _sequence_guards: "none", "unsynced" or "synced"
  book,      \* the book behind on_snapshot: "none", "exact", "missed" an update it was
             \* not shown, or "refused" one: it raised since the last snapshot it took
  stoppedAt, \* history: pc when stop() was called
  faults

client == <<running, pc, stoppedAt>>
socket == <<link, held, closing>>
exchange == <<served, hole>>
drain == <<queue, delivering, guard, book>>
feedVars == <<client, socket, exchange, bboOnly, drain, faults>>

NoGuards == [s \in Symbols |-> "none"]
Nothing == [s \in Symbols |-> "nothing"]

FeedTypeOK ==
  /\ running \in BOOLEAN /\ bboOnly \in BOOLEAN /\ faults \in 0..MaxFaults
  /\ pc \in {"connect", "hello", "read", "sleep", "done"}
  /\ link \in {"none", "live", "half"} /\ held \in BOOLEAN
  /\ pc \notin {"hello", "read"} => link = "none" /\ ~held
  /\ closing \subseteq {"drain", "watchdog"}
  /\ served \in [Symbols -> {"nothing", "snapshot", "deltas"}] /\ hole \subseteq Symbols
  /\ queue \in Seq([symbol : Symbols, type : {"snapshot", "delta"}, hole : BOOLEAN])
  /\ Len(queue) <= QueueSize
  /\ delivering \in BOOLEAN /\ (delivering => queue # <<>>)
  /\ guard \in [Symbols -> {"none", "unsynced", "synced"}]
  /\ book \in [Symbols -> {"none", "exact", "missed", "refused"}]

FeedInit ==
  /\ running = TRUE /\ pc = "connect" /\ bboOnly = FALSE /\ faults = 0
  /\ link = "none" /\ held = FALSE /\ closing = {}
  /\ served = Nothing /\ hole = Symbols /\ queue = <<>> /\ delivering = FALSE
  /\ guard = NoGuards /\ book = [s \in Symbols |-> "none"]
  /\ stoppedAt = "no"

Fault == faults < MaxFaults /\ faults' = faults + 1

-----------------------------------------------------------------------------
(* The task of start().                                                    *)

(* After the session is closed: the back-off, unless stop() was called.    *)
GoOn == pc' = IF running THEN "sleep" ELSE "done"

Connected ==
  /\ pc = "connect" /\ pc' = "hello" /\ link' = "live" /\ held' = TRUE
  /\ served' = Nothing
  /\ UNCHANGED <<running, stoppedAt, closing, hole, bboOnly, drain, faults>>

Refused ==
  /\ pc = "connect" /\ Fault /\ GoOn
  /\ UNCHANGED <<running, stoppedAt, socket, exchange, bboOnly, drain>>

(* on_reconnect returns and the subscriptions are sent; the exchange       *)
(* answers each with a snapshot unless the link is dead.  From here on the *)
(* task reads its socket whatever becomes of _ws.                          *)
Subscribe ==
  /\ pc = "hello" /\ held /\ link # "none" /\ pc' = "read"
  /\ served' = [s \in Symbols |-> IF link = "live" THEN "snapshot" ELSE "nothing"]
  /\ UNCHANGED <<running, stoppedAt, socket, hole, bboOnly, drain, faults>>

(* The socket was closed, or the reader meets its end, or there is no _ws  *)
(* to read: the session ends, and the socket with it.                      *)
SocketGone ==
  /\ pc \in {"hello", "read"} /\ (link = "none" \/ (pc = "hello" /\ ~held)) /\ GoOn
  /\ link' = "none" /\ held' = FALSE
  /\ UNCHANGED <<running, stoppedAt, closing, exchange, bboOnly, drain, faults>>

(* _on_ws_message: a full queue, or the BBO-only mode, drops the frame.    *)
Type(s) == IF served[s] = "snapshot" THEN "snapshot" ELSE "delta"
Receives(s) == pc = "read" /\ link = "live" /\ served[s] # "nothing"

Frame(s) ==
  /\ Receives(s) /\ ~bboOnly /\ Len(queue) < QueueSize
  /\ queue' = Append(queue, [symbol |-> s, type |-> Type(s),
                             hole |-> Type(s) = "delta" /\ s \in hole])
  /\ served' = [served EXCEPT ![s] = "deltas"]
  /\ hole' = hole \ {s}
  /\ UNCHANGED <<client, socket, bboOnly, delivering, guard, book, faults>>

FrameDropped(s) ==
  /\ Receives(s)
  /\ \/ bboOnly /\ UNCHANGED faults
     \/ ~bboOnly /\ Len(queue) = QueueSize /\ IF running THEN Fault ELSE UNCHANGED faults
  /\ served' = [served EXCEPT ![s] = "deltas"]
  /\ hole' = hole \cup {s}
  /\ UNCHANGED <<client, socket, bboOnly, drain>>

(* The top of the loop purges before it connects, the queue excepted.  The *)
(* back-off of 0.8 s or more is over before the drain, when no close()     *)
(* holds it up, has emptied the queue at most MaxFaults times.             *)
Wake ==
  /\ pc = "sleep"
  /\ IF running /\ queue # <<>> /\ "drain" \notin closing THEN Fault ELSE UNCHANGED faults
  /\ IF running THEN pc' = "connect" /\ guard' = NoGuards
                ELSE pc' = "done" /\ UNCHANGED guard
  /\ UNCHANGED <<running, stoppedAt, socket, exchange, bboOnly, queue, delivering, book>>

-----------------------------------------------------------------------------
(* _force_kill_socket, by a task.  A peer that is there answers the close  *)
(* frame and what follows the await is done before the back-off is over:   *)
(* one step.  A half-open link answers nothing, and unless the reader      *)
(* waits inside receive() (it may be in on_reconnect, or at its yield)     *)
(* close() goes on waiting: the kill has begun.  After the await _ws is    *)
(* set to None and the guards go, whatever _ws is by then.                 *)
KillBegins(task, guards) ==
  /\ held /\ link = "half" /\ link' = "none"
  /\ closing' = closing \cup {task} /\ guard' = guards
  /\ UNCHANGED held

KillAtOnce ==
  /\ ~(held /\ link = "half") /\ link' = (IF held THEN "none" ELSE link)
  /\ held' = FALSE /\ guard' = NoGuards
  /\ UNCHANGED closing

Kill(task, guards) == KillBegins(task, guards) \/ KillAtOnce

KillEnds(task) ==
  /\ task \in closing /\ closing' = closing \ {task}
  /\ held' = FALSE /\ guard' = NoGuards
  /\ UNCHANGED <<client, link, exchange, bboOnly, queue, delivering, book, faults>>

(* OrderBookSequenceGuard.validate.  Mutant: any later u will do.          *)
ValidLater(f) == f.type = "snapshot" \/ guard[f.symbol] = "synced"
Valid(f) == f.type = "snapshot" \/ (guard[f.symbol] = "synced" /\ ~f.hole)

(* The drain takes the next frame.  The guard moves first, then            *)
(* on_snapshot is awaited; a frame the guard refuses is gone, and the      *)
(* drain awaits the kill.                                                  *)
Handle ==
  /\ running /\ queue # <<>> /\ ~delivering /\ "drain" \notin closing
  /\ LET f == Head(queue)
         s == f.symbol
     IN IF Valid(f)
        THEN /\ guard' = [guard EXCEPT ![s] = "synced"] /\ delivering' = TRUE
             /\ UNCHANGED <<socket, queue, book>>
        ELSE /\ Kill("drain", [guard EXCEPT ![s] = "unsynced"])
             /\ queue' = Tail(queue) /\ book' = [book EXCEPT ![s] = "missed"]
             /\ UNCHANGED delivering
  /\ UNCHANGED <<client, exchange, bboOnly, faults>>

(* on_snapshot returns: a snapshot restores the book, a delta leaves it as *)
(* it was when nothing is missing in between.  Or it raises: _process_batch*)
(* logs that and goes on, and nobody takes the guard back.                 *)
Delivered(raised) ==
  /\ running /\ delivering /\ delivering' = FALSE /\ queue' = Tail(queue)
  /\ LET f == Head(queue)
     IN book' = [book EXCEPT ![f.symbol] =
          IF raised THEN "refused"
          ELSE IF f.type = "snapshot" THEN "exact" ELSE IF f.hole THEN "missed" ELSE @]
  /\ UNCHANGED <<client, socket, exchange, bboOnly, guard, faults>>

(* _watchdog_loop: no data for 5 s or no pong for 20 s.  A dead link is    *)
(* always found; a live one is killed when the market or the pongs pause;  *)
(* while nothing is connected only the guards go.                          *)
Watches == running /\ "watchdog" \notin closing

WatchdogOfLive ==
  /\ Watches /\ link = "live" /\ Fault
  /\ Kill("watchdog", guard)
  /\ UNCHANGED <<client, exchange, bboOnly, queue, delivering, book>>

WatchdogOfNothing ==
  /\ Watches /\ link = "none"
  /\ Kill("watchdog", guard)
  /\ UNCHANGED <<client, exchange, bboOnly, queue, delivering, book, faults>>

(* Mutant: silence is looked for only after a first pong. *)
WatchdogOfDeadReading ==
  /\ Watches /\ link = "half" /\ pc = "read" /\ \E s \in Symbols : guard[s] # "none"
  /\ Kill("watchdog", guard)
  /\ UNCHANGED <<client, exchange, bboOnly, queue, delivering, book, faults>>

WatchdogOfDead ==
  /\ Watches /\ link = "half"
  /\ Kill("watchdog", guard)
  /\ UNCHANGED <<client, exchange, bboOnly, queue, delivering, book, faults>>

Toggle ==
  /\ Fault /\ bboOnly' = ~bboOnly
  /\ UNCHANGED <<client, socket, exchange, drain>>

(* stop() closes the socket _ws holds and cancels drain and watchdog,      *)
(* wherever they are, not the task of start().  Mutant: it relies on the   *)
(* flag.                                                                   *)
StopByFlag ==
  /\ running /\ running' = FALSE /\ stoppedAt' = pc
  /\ closing' = {}
  /\ UNCHANGED <<pc, link, held, exchange, bboOnly, drain, faults>>

Stop ==
  /\ running /\ running' = FALSE /\ stoppedAt' = pc
  /\ link' = (IF held THEN "none" ELSE link) /\ held' = FALSE
  /\ closing' = {}
  /\ UNCHANGED <<pc, exchange, bboOnly, drain, faults>>

-----------------------------------------------------------------------------
(* The exchange and the network.                                           *)

Lost ==
  /\ link # "none" /\ Fault /\ link' = "none"
  /\ UNCHANGED <<client, held, closing, exchange, bboOnly, drain>>

Stall ==
  /\ link = "live" /\ Fault /\ link' = "half"
  /\ UNCHANGED <<client, held, closing, exchange, bboOnly, drain>>

(* An update the connection does not carry.                                *)
Skip(s) ==
  /\ s \notin hole /\ hole' = hole \cup {s}
  /\ IF link = "live" /\ served[s] = "deltas" THEN Fault ELSE UNCHANGED faults
  /\ UNCHANGED <<client, socket, served, bboOnly, drain>>

FeedNext ==
  \/ Connected \/ Refused \/ Subscribe \/ SocketGone \/ Wake
  \/ \E s \in Symbols : Frame(s) \/ FrameDropped(s) \/ Skip(s)
  \/ Handle \/ \E raised \in BOOLEAN : Delivered(raised)
  \/ WatchdogOfLive \/ WatchdogOfNothing \/ WatchdogOfDead
  \/ \E task \in {"drain", "watchdog"} : KillEnds(task)
  \/ Toggle \/ Stop \/ Lost \/ Stall

(* The tasks are scheduled, a connection attempt and a close() end, the    *)
(* consumer returns or raises, and every symbol goes on trading.           *)
Fairness ==
  /\ WF_feedVars(Connected) /\ WF_feedVars(Subscribe) /\ WF_feedVars(SocketGone) /\ WF_feedVars(Wake)
  /\ WF_feedVars(Handle) /\ WF_feedVars(\E raised \in BOOLEAN : Delivered(raised))
  /\ WF_feedVars(WatchdogOfDead) /\ \A task \in {"drain", "watchdog"} : WF_feedVars(KillEnds(task))
  /\ \A s \in Symbols : SF_feedVars(Frame(s))

FeedSpec == FeedInit /\ [][FeedNext]_feedVars /\ Fairness

-----------------------------------------------------------------------------
(* A symbol whose guard is synced has a book behind it that was shown      *)
(* every update up to the last it was given, in order, unless its snapshot *)
(* is being handed over: no mixture of dropped frames, skipped updates,    *)
(* kills, late ends of kills and frames left over from a dead connection   *)
(* gets past the guard.  What the guard does not know is whether the book  *)
(* took them: a consumer that raised is vouched for all the same.          *)
SnapshotInHand(s) == delivering /\ Head(queue).symbol = s /\ Head(queue).type = "snapshot"
SyncedMissesNothing ==
  \A s \in Symbols : guard[s] = "synced" => book[s] \in {"exact", "refused"} \/ SnapshotInHand(s)

(* The late end of a kill has taken _ws from the connection that came up   *)
(* meanwhile: it is read, but no kill and no stop() finds it any more.     *)
Orphaned == pc = "read" /\ ~held /\ link # "none"

(* Once faults are over every symbol is synced and stays so, although the  *)
(* frames left in the queue by a dead connection make the drain kill       *)
(* healthy sockets; unless the ingestor is stopped, left in BBO-only mode, *)
(* or left with an orphaned connection, which nobody closes and subscribes *)
(* anew once its guards are gone.  Without the bound on back-offs the      *)
(* drain does not outlast the kills may go on for ever: each connection    *)
(* leaves frames for the next.                                             *)
Settled == \A s \in Symbols : guard[s] = "synced"
SettlesAfterFaults == <>[](Settled \/ ~running \/ bboOnly \/ Orphaned)

(* A stopped ingestor ends, unless it was stopped while it connected, when *)
(* nothing closes the socket it is about to open, or while its connection  *)
(* was orphaned.                                                           *)
StopEnds == ~running /\ stoppedAt # "connect" /\ ~Orphaned ~> pc = "done"
=============================================================================
