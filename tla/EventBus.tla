------------------------------- MODULE EventBus -------------------------------
(***************************************************************************)
(* The event bus: publishers put an event into a queue in memory and, if   *)
(* it is critical, an INSERT into the queue of the thread that alone       *)
(* writes to SQLite; a consumer hands every event to its handlers in a     *)
(* task of its own, which acknowledges it with an UPDATE.  The process     *)
(* may stop or crash between any two of these, and starts again.           *)
(***************************************************************************)
EXTENDS Integers, Sequences, SequencesExt

CONSTANTS
  Signals,    \* events of a class that takes new attributes, as SignalEvent would
  Slotted,    \* ExecutionEvent, ConflatedEvent: declared with slots
  Plain,      \* the other classes, which are not critical
  MaxQueue,   \* max_queue_size, 5000 in the code
  MaxStarts   \* bound: times the process is started

ASSUME BusAssumption ==
  /\ Signals \cap Slotted = {} /\ (Signals \cup Slotted) \cap Plain = {}
  /\ MaxQueue \in Nat \ {0} /\ MaxStarts \in Nat \ {0}
  /\ IsFiniteSet(Slotted)

Events == Signals \cup Slotted \cup Plain
Critical == Signals \cup Slotted

VARIABLES
  phase,      \* new, up, stopping (the writer is awaited) or down
  writes,     \* _write_queue
  rows,       \* status of each event's row, "none" if there is none
  queue,      \* _queue
  tasks,      \* events handed to a task
  published,
  starts,
  handled,    \* history: how often an event's handlers have run
  shed,       \* history: events that found the queue full
  cut         \* history: events whose row or delivery was under way when the process ended

vars == <<phase, writes, rows, queue, tasks, published, starts, handled, shed, cut>>

Init ==
  /\ phase = "new" /\ starts = 1
  /\ writes = <<>> /\ queue = <<>> /\ tasks = {}
  /\ rows = [e \in Events |-> "none"]
  /\ published = {} /\ handled = [e \in Events |-> 0] /\ shed = {} /\ cut = {}

Alive == phase # "down"

(* The object must take the mark of its row: a class with slots raises.    *)
Marks(e) == e \in Signals

(* publish_nowait.  For a slotted event the INSERT is queued, then the     *)
(* mark raises: its publisher gets the exception and it is not queued.     *)
Publish(e) ==
  /\ Alive /\ e \notin published
  /\ published' = published \cup {e}
  /\ writes' = IF e \in Critical THEN Append(writes, <<"INSERT", e>>) ELSE writes
  /\ IF e \in Critical /\ ~Marks(e) THEN UNCHANGED <<queue, shed>>
     ELSE IF Len(queue) < MaxQueue
     THEN queue' = Append(queue, e) /\ UNCHANGED shed
     ELSE shed' = shed \cup {e} /\ UNCHANGED queue
  /\ UNCHANGED <<phase, rows, tasks, starts, handled, cut>>

(* What an operation makes of its row.  An UPDATE finds its row or nothing.*)
Written(op, status) ==
  CASE op = "INSERT" -> "PENDING"
    [] op = "UPDATE" /\ status # "none" -> "PROCESSED"
    [] op = "CORRUPT" /\ status # "none" -> "CORRUPTED"
    [] OTHER -> status

(* The writer thread works while it is running or its queue is not empty.  *)
Write ==
  /\ Alive /\ writes # <<>>
  /\ LET op == Head(writes)
     IN rows' = [rows EXCEPT ![op[2]] = Written(op[1], @)]
  /\ writes' = Tail(writes)
  /\ UNCHANGED <<phase, queue, tasks, published, starts, handled, shed, cut>>

(* An SQLite error is logged and the operation gone.                       *)
WriteFails ==
  /\ Alive /\ writes # <<>>
  /\ cut' = cut \cup {Head(writes)[2]}
  /\ writes' = Tail(writes)
  /\ UNCHANGED <<phase, rows, queue, tasks, published, starts, handled, shed>>

(* Mutant: acknowledged when taken from the queue. *)
ConsumeAcked ==
  /\ phase = "up" /\ queue # <<>>
  /\ tasks' = tasks \cup {Head(queue)}
  /\ queue' = Tail(queue)
  /\ writes' = Append(writes, <<"UPDATE", Head(queue)>>)
  /\ UNCHANGED <<phase, rows, published, starts, handled, shed, cut>>

(* _consume_loop.                                                          *)
Consume ==
  /\ phase = "up" /\ queue # <<>>
  /\ tasks' = tasks \cup {Head(queue)}
  /\ queue' = Tail(queue)
  /\ UNCHANGED <<phase, writes, rows, published, starts, handled, shed, cut>>

(* Mutant: an exception of a handler ends the task. *)
ProcessMayRaise(e) ==
  /\ e \in tasks
  /\ tasks' = tasks \ {e}
  /\ handled' = [handled EXCEPT ![e] = @ + 1]
  /\ writes' \in {writes} \cup (IF e \in Signals THEN {Append(writes, <<"UPDATE", e>>)} ELSE {})
  /\ UNCHANGED <<phase, rows, queue, published, starts, shed, cut>>

(* _process_and_ack: every handler runs, one that raises is logged, and    *)
(* the event is acknowledged in either case.                               *)
Process(e) ==
  /\ e \in tasks
  /\ tasks' = tasks \ {e}
  /\ handled' = [handled EXCEPT ![e] = @ + 1]
  /\ writes' = IF e \in Signals THEN Append(writes, <<"UPDATE", e>>) ELSE writes
  /\ UNCHANGED <<phase, rows, queue, published, starts, shed, cut>>

(* The recovery rebuilds rows of the two classes it knows, and skips the   *)
(* others; to the rebuilt object it cannot attach the mark.                *)
Revived(e) == e \in Slotted /\ Marks(e)
Corrupt(e) == e \in Slotted /\ ~Marks(e)

PendingRows == {e \in Events : rows[e] = "PENDING"}

(* start, with _run_recovery_relay.                                        *)
Start ==
  /\ phase = "new"
  /\ phase' = "up"
  /\ queue' = queue \o SetToSeq({e \in PendingRows : Revived(e)})
  /\ writes' = writes \o SetToSeq({<<"CORRUPT", e>> : e \in {f \in PendingRows : Corrupt(f)}})
  /\ UNCHANGED <<rows, tasks, published, starts, handled, shed, cut>>

(* What was still to be delivered or written.                              *)
UnderWay == ToSet(queue) \cup tasks \cup {op[2] : op \in ToSet(writes)}

(* stop: the consumer is cancelled, then the writer is awaited.            *)
Stop ==
  /\ phase = "up"
  /\ phase' = "stopping"
  /\ cut' = cut \cup ToSet(queue)
  /\ UNCHANGED <<writes, rows, queue, tasks, published, starts, handled, shed>>

(* DELETE of the rows that are PROCESSED.                                  *)
Purged(status) == IF status = "PROCESSED" THEN "none" ELSE status

StopEnds ==
  /\ phase = "stopping" /\ writes = <<>>
  /\ phase' = "down"
  /\ rows' = [e \in Events |-> Purged(rows[e])]
  /\ cut' = cut \cup UnderWay
  /\ queue' = <<>> /\ tasks' = {}
  /\ UNCHANGED <<writes, published, starts, handled, shed>>

(* The process is started again, after a stop or a crash; the file stays.  *)
Restart ==
  /\ starts < MaxStarts
  /\ starts' = starts + 1
  /\ phase' = "new"
  /\ cut' = cut \cup UnderWay
  /\ queue' = <<>> /\ tasks' = {} /\ writes' = <<>>
  /\ UNCHANGED <<rows, published, handled, shed>>

Next ==
  \/ \E e \in Events : Publish(e) \/ Process(e)
  \/ Write \/ WriteFails \/ Consume \/ Start \/ Stop \/ StopEnds \/ Restart

(* The writer thread and the tasks of the loop run, and a stop comes to an *)
(* end; nobody need stop the bus or start it again.                        *)
Fairness ==
  /\ WF_vars(Write) /\ WF_vars(Consume) /\ WF_vars(Start) /\ WF_vars(StopEnds)
  /\ \A e \in Events : WF_vars(Process(e))

Spec == Init /\ [][Next]_vars /\ Fairness

-----------------------------------------------------------------------------
(* The types of the state.                                                 *)
TypeOK ==
  /\ phase \in {"new", "up", "stopping", "down"}
  /\ writes \in Seq({"INSERT", "UPDATE", "CORRUPT"} \X Events)
  /\ rows \in [Events -> {"none", "PENDING", "PROCESSED", "CORRUPTED"}]
  /\ queue \in Seq(Events) /\ tasks \subseteq Events /\ published \subseteq Events
  /\ starts \in 1 .. MaxStarts /\ handled \in [Events -> Nat]
  /\ shed \subseteq Events /\ cut \subseteq Events

(* An acknowledgement never overtakes the delivery: no UPDATE is queued or *)
(* written for an event whose handlers have not run.                       *)
NotAcknowledgedUnhandled ==
  \A e \in Events :
    rows[e] = "PROCESSED" \/ <<"UPDATE", e>> \in ToSet(writes) => handled[e] > 0

(* No event is lost between its publisher and its handlers, nor its row    *)
(* between PENDING and PROCESSED, but by a full queue, a failed write or   *)
(* the end of the process: when nothing of it is under way any more, its   *)
(* handlers have run, once, and its row is settled.                        *)
NothingVanishes ==
  \A e \in Signals \cup Plain :
    e \in published \ (shed \cup cut \cup UnderWay) =>
      handled[e] = 1 /\ rows[e] \in {"none", "PROCESSED"}

(* An event that found room in the queue is handled, and its row settled,  *)
(* unless the process ended or a write failed meanwhile.                   *)
QueuedIsHandled ==
  \A e \in Signals \cup Plain :
    e \in published ~> \/ e \in shed \cup cut
                       \/ handled[e] = 1 /\ rows[e] \in {"none", "PROCESSED"}
=============================================================================
