--------------------------- MODULE IngestionBuffer ---------------------------
(***************************************************************************)
(* ReliableIngestionBuffer: statements on their way to the database.  A    *)
(* healthy push goes to a Redis list, from which the worker moves it to a  *)
(* processing list while it executes it; an unhealthy one to a queue in    *)
(* memory, a daemon, a file, and back to Redis by the sentinel.  A sweeper *)
(* reclaims what stays in processing.  Redis, the database and the disk    *)
(* fail; the process is restarted at any point, in the middle of a line of *)
(* the file too.  The file is written by a thread, through a handle that   *)
(* follows it wherever the sentinel renames it.                            *)
(***************************************************************************)
EXTENDS Integers, Sequences, SequencesExt

CONSTANTS
  Items,          \* statements
  MaxSpill,       \* size of _spill_queue, 100000 in the code
  MaxFaults       \* bound: outages, restarts, errors of disk and database, lost replies, races

ASSUME BufferAssumption == MaxSpill \in Nat \ {0} /\ MaxFaults \in Nat

VARIABLES
  pushed,       \* statements handed to push_query
  redis,        \* whether it answers, and its lists
  available,    \* _redis_available
  worker,       \* _worker_task, and where it is in _process_queue
  sweeper,      \* _sweeper_task, and what it still has to look at
  spill, batch, \* _spill_queue, and what of the daemon's batch is not written yet
  writer,       \* what the thread of _write_batch_sync has open: "none", "file", "temp",
                \* or "gone", a file that was removed or replaced
  file, temp,   \* lines of spillover.jsonl and spillover.jsonl.recovering
  drain,        \* next line of temp the sentinel reads, 0 when it sleeps
  applied,      \* statements the database executed
  faults,       \* how many happened
  reached,      \* history: statements that got into Redis
  forgotten,    \* history: what was in a place that was cleared, full or unwritable
  spoilt        \* history: what was in a line cut off, in one glued to it, or written
                \* into a file the sentinel had taken

spillVars == <<spill, batch, writer, file, temp, drain>>
history == <<reached, forgotten, spoilt>>
bufferVars == <<pushed, redis, available, worker, sweeper, spillVars, applied, faults, history>>

(* A payload: a statement and its ts, which the sweeper renews.            *)
Payload(i) == [item |-> i, renewed |-> FALSE]
ItemsOf(s) == {e.item : e \in ToSet(s)}

(* A line of a file.  The last one may lack its newline: it was cut off    *)
(* there ("open") or before ("cut"), and what is written next is glued to  *)
(* it ("corrupt").  A "late" line was written while the sentinel read the  *)
(* file: it meets the line whole, or in two halves.                        *)
Line(e, kind) == [entry |-> e, kind |-> kind]
Readable(l) == l.kind \in {"whole", "open", "late"}
Unended(s) == s # <<>> /\ s[Len(s)].kind \in {"open", "cut"}
ReadableIn(s) == {l.entry.item : l \in {k \in ToSet(s) : Readable(k)}}

Resting == [on |-> TRUE, at |-> "idle", entry |-> <<>>]
Stopped == [on |-> FALSE, at |-> "idle", entry |-> <<>>]

BufferInit ==
  /\ pushed = {} /\ applied = {} /\ reached = {} /\ forgotten = {} /\ spoilt = {}
  /\ redis = [up |-> TRUE, queue |-> <<>>, processing |-> <<>>, dlq |-> {}]
  /\ available = TRUE /\ worker = Resting
  /\ sweeper = [on |-> TRUE, todo |-> <<>>]
  /\ spill = <<>> /\ batch = <<>> /\ writer = "none" /\ file = <<>> /\ temp = <<>> /\ drain = 0
  /\ faults = 0

-----------------------------------------------------------------------------
Fault == faults < MaxFaults /\ faults' = faults + 1

(* Redis goes away and comes back, with its lists.                         *)
Outage ==
  /\ redis.up /\ Fault
  /\ redis' = [redis EXCEPT !.up = FALSE]
  /\ UNCHANGED <<pushed, available, worker, sweeper, spillVars, applied, history>>

Back ==
  /\ ~redis.up
  /\ redis' = [redis EXCEPT !.up = TRUE]
  /\ UNCHANGED <<pushed, available, worker, sweeper, spillVars, applied, faults,
                 history>>

(* LPUSH, and what has reached Redis with it.                              *)
LPush(e) ==
  /\ redis' = [redis EXCEPT !.queue = <<e>> \o @]
  /\ reached' = reached \cup {e.item}

(* put_nowait on the spill queue.                                          *)
Room == Len(spill) < MaxSpill
PutSpill(e) ==
  IF Room THEN spill' = Append(spill, e) /\ UNCHANGED forgotten
  ELSE forgotten' = forgotten \cup {e.item} /\ UNCHANGED spill

(* push_query while Redis is believed there and answers.                   *)
PushToRedis(i) ==
  /\ i \notin pushed /\ available /\ redis.up
  /\ pushed' = pushed \cup {i}
  /\ LPush(Payload(i))
  /\ UNCHANGED <<available, worker, sweeper, spillVars, applied, faults, forgotten, spoilt>>

(* push_query when Redis is not available, fails or is short of memory.    *)
PushToSpill(i) ==
  /\ i \notin pushed
  /\ pushed' = pushed \cup {i}
  /\ PutSpill(Payload(i))
  /\ UNCHANGED <<redis, available, worker, sweeper, batch, writer, file, temp, drain, applied,
                 faults, reached, spoilt>>

(* The LPUSH takes effect and its reply is lost.                           *)
PushTwice(i) ==
  /\ i \notin pushed /\ available /\ redis.up
  /\ Fault
  /\ pushed' = pushed \cup {i}
  /\ LPush(Payload(i)) /\ PutSpill(Payload(i))
  /\ UNCHANGED <<available, worker, sweeper, batch, writer, file, temp, drain, applied, spoilt>>

-----------------------------------------------------------------------------
(* _process_queue.                                                         *)

(* Mutant: the entry leaves Redis when it is taken. *)
PoppedOff(r) == [r EXCEPT !.queue = Tail(@)]

(* LMOVE LEFT RIGHT: the newest entry, kept in processing meanwhile.       *)
Moved(r) == [r EXCEPT !.queue = Tail(@), !.processing = Append(@, Head(r.queue))]

Take ==
  /\ worker.on /\ worker.at = "idle" /\ redis.up /\ redis.queue # <<>>
  /\ redis' = Moved(redis)
  /\ worker' = [worker EXCEPT !.at = "claimed", !.entry = Head(redis.queue)]
  /\ UNCHANGED <<pushed, available, sweeper, spillVars, applied, faults, history>>

(* The reply of the LMOVE is lost: an entry no worker knows of.            *)
TakeLost ==
  /\ worker.on /\ worker.at = "idle" /\ redis.up /\ redis.queue # <<>>
  /\ Fault
  /\ redis' = Moved(redis)
  /\ available' = FALSE
  /\ UNCHANGED <<pushed, worker, sweeper, spillVars, applied, history>>

(* Redis does not answer: "Worker Error".                                  *)
TakeFails ==
  /\ worker.on /\ worker.at \in {"idle", "failed"} /\ ~redis.up
  /\ worker' = Resting
  /\ available' = FALSE
  /\ UNCHANGED <<pushed, redis, sweeper, spillVars, applied, faults, history>>

Execute ==
  /\ worker.at = "claimed"
  /\ applied' = applied \cup {worker.entry.item}
  /\ worker' = [worker EXCEPT !.at = "committed"]
  /\ UNCHANGED <<pushed, redis, available, sweeper, spillVars, faults, history>>

(* The statement fails, or commits and the answer is lost.                 *)
ExecuteFails ==
  /\ worker.at = "claimed"
  /\ applied' \in {applied, applied \cup {worker.entry.item}}
  /\ worker' = [worker EXCEPT !.at = "failed"]
  /\ UNCHANGED <<pushed, redis, available, sweeper, spillVars, faults, history>>

(* LREM; if Redis fails the statement goes on as one that failed.          *)
Ack ==
  /\ worker.at = "committed"
  /\ IF redis.up
     THEN /\ redis' = [redis EXCEPT !.processing = RemoveFirst(@, worker.entry)]
          /\ worker' = Resting
     ELSE /\ worker' = [worker EXCEPT !.at = "failed"]
          /\ UNCHANGED redis
  /\ UNCHANGED <<pushed, available, sweeper, spillVars, applied, faults, history>>

(* LREM and LPUSH to the dead letters, in one transaction.                 *)
DeadLetter ==
  /\ worker.at = "failed" /\ redis.up
  /\ redis' = [redis EXCEPT !.processing = RemoveFirst(@, worker.entry),
                            !.dlq = @ \cup {worker.entry.item}]
  /\ worker' = Resting
  /\ UNCHANGED <<pushed, available, sweeper, spillVars, applied, faults, history>>

-----------------------------------------------------------------------------
(* _active_sweeper: the list it reads may be stale by the time it acts.    *)
SweepLists ==
  /\ sweeper.on /\ sweeper.todo = <<>> /\ available /\ redis.up /\ redis.processing # <<>>
  /\ sweeper' = [sweeper EXCEPT !.todo = redis.processing]
  /\ UNCHANGED <<pushed, redis, available, worker, spillVars, applied, faults, history>>

(* Mutant: removed from processing only. *)
Dropped(r, e) == [r EXCEPT !.processing = RemoveFirst(@, e)]

(* LREM and LPUSH with a new ts, in one transaction; the LREM may find     *)
(* nothing.                                                                *)
Reclaimed(r, e) ==
  [r EXCEPT !.processing = RemoveFirst(@, e), !.queue = <<[e EXCEPT !.renewed = TRUE]>> \o @]

(* An entry is overdue a minute after its ts, which is when it was pushed: *)
(* it may be executing right now, or have left the list since it was read. *)
(* The sweeps are 300 s apart, so such a race is an exception, counted as  *)
(* one.                                                                    *)
Race(e) == e = worker.entry \/ e \notin ToSet(redis.processing)

SweepReclaims ==
  /\ sweeper.todo # <<>> /\ redis.up
  /\ LET e == Head(sweeper.todo)
     IN /\ redis' = Reclaimed(redis, e)
        /\ IF Race(e) THEN Fault ELSE UNCHANGED faults
  /\ sweeper' = [sweeper EXCEPT !.todo = Tail(@)]
  /\ UNCHANGED <<pushed, available, worker, spillVars, applied, history>>

SweepSkips ==
  /\ sweeper.todo # <<>>
  /\ sweeper' = [sweeper EXCEPT !.todo = IF redis.up THEN Tail(@) ELSE <<>>]
  /\ UNCHANGED <<pushed, redis, available, worker, spillVars, applied, faults, history>>

-----------------------------------------------------------------------------
(* _spill_to_disk_daemon: everything in the queue, up to 500.              *)
TakeBatch ==
  /\ spill # <<>> /\ batch = <<>>
  /\ batch' = spill /\ spill' = <<>>
  /\ UNCHANGED <<pushed, redis, available, worker, sweeper, writer, file, temp, drain, applied,
                 faults, history>>

(* The thread of _write_batch_sync opens the file.                         *)
OpenFile ==
  /\ batch # <<>> /\ writer = "none" /\ writer' = "file"
  /\ UNCHANGED <<pushed, redis, available, worker, sweeper, spill, batch, file, temp, drain,
                 applied, faults, history>>

(* Text of e at the end of a file, and what cannot be read any more then.  *)
Put(s, e, kind) ==
  IF Unended(s)
  THEN [s EXCEPT ![Len(s)] = Line(e, IF kind \in {"open", "cut"} THEN "cut" ELSE "corrupt")]
  ELSE Append(s, Line(e, kind))

Spoils(s, e, kind) ==
  IF Unended(s) THEN {s[Len(s)].entry.item, e.item} ELSE IF kind = "cut" THEN {e.item} ELSE {}

(* It goes where the handle leads.                                         *)
WriteText(e, kind) ==
  /\ file' = (IF writer = "file" THEN Put(file, e, kind) ELSE file)
  /\ temp' = (IF writer = "temp" THEN Put(temp, e, IF kind = "whole" THEN "late" ELSE kind) ELSE temp)
  /\ spoilt' = spoilt \cup CASE writer = "file" -> Spoils(file, e, kind)
                             [] writer = "temp" -> Spoils(temp, e, kind) \cup {e.item}
                             [] OTHER -> {e.item}

(* The next line is written; after the last one the file is closed.        *)
WriteLine ==
  /\ writer # "none" /\ WriteText(Head(batch), "whole")
  /\ batch' = Tail(batch) /\ writer' = (IF Len(batch) = 1 THEN "none" ELSE writer)
  /\ UNCHANGED <<pushed, redis, available, worker, sweeper, spill, drain, applied, faults,
                 reached, forgotten>>

(* The write ends early: the next line is in the file up to its newline,   *)
(* in part, or not at all; the rest of the batch is lost, with more.       *)
WriteEnds(more) ==
  /\ \/ /\ UNCHANGED <<file, temp, spoilt>>
        /\ forgotten' = forgotten \cup ItemsOf(batch) \cup more
     \/ /\ writer # "none" /\ \E kind \in {"open", "cut"} : WriteText(Head(batch), kind)
        /\ forgotten' = forgotten \cup ItemsOf(Tail(batch)) \cup more
  /\ batch' = <<>> /\ writer' = "none"

(* _write_batch_sync logs a disk error and returns.                        *)
SpillWriteFails ==
  /\ batch # <<>> /\ Fault
  /\ WriteEnds({})
  /\ UNCHANGED <<pushed, redis, available, worker, sweeper, spill, drain, applied, reached>>

-----------------------------------------------------------------------------
(* _spillover_sentinel looks only when the file is not empty.  A ping that *)
(* is answered makes Redis available again, and starts a worker if there   *)
(* is none, but no sweeper.                                                *)
Reestablish ==
  /\ file # <<>> /\ drain = 0 /\ ~available /\ redis.up
  /\ available' = TRUE
  /\ worker' = IF worker.on THEN worker ELSE Resting
  /\ UNCHANGED <<pushed, redis, sweeper, spillVars, applied, faults, history>>

(* The file is renamed, over one a crash may have left.                    *)
DrainBegins ==
  /\ file # <<>> /\ drain = 0 /\ available /\ redis.up
  /\ forgotten' = forgotten \cup ReadableIn(temp)
  /\ temp' = file /\ file' = <<>> /\ drain' = 1
  /\ writer' = IF writer = "file" THEN "temp" ELSE writer
  /\ UNCHANGED <<pushed, redis, available, worker, sweeper, spill, batch, applied, faults,
                 reached, spoilt>>

Draining == drain # 0 /\ drain <= Len(temp)
Reads == Draining /\ Readable(temp[drain])

DrainToRedis ==
  /\ Reads /\ available /\ redis.up
  /\ LPush(temp[drain].entry)
  /\ drain' = drain + 1
  /\ UNCHANGED <<pushed, available, worker, sweeper, spill, batch, writer, file, temp, applied,
                 faults, forgotten, spoilt>>

(* Redis not available or short of memory: _process_direct, which on an    *)
(* error puts the line back into the spill queue.                          *)
DrainDirectly ==
  /\ Reads
  /\ drain' = drain + 1
  /\ \/ applied' = applied \cup {temp[drain].entry.item} /\ UNCHANGED <<spill, faults>>
     \/ Fault /\ Room /\ spill' = Append(spill, temp[drain].entry) /\ UNCHANGED applied
  /\ UNCHANGED <<pushed, redis, available, worker, sweeper, batch, writer, file, temp, history>>

(* "Corrupted Spillover line detected (OOM Torn Write).  Skipping."        *)
DrainSkips ==
  /\ Draining /\ temp[drain].kind \in {"cut", "corrupt", "late"}
  /\ drain' = drain + 1
  /\ UNCHANGED <<pushed, redis, available, worker, sweeper, spill, batch, writer, file, temp,
                 applied, faults, history>>

(* The LPUSH fails, or a full spill queue raises: the temporary file is    *)
(* renamed back, over what the daemon wrote meanwhile.                     *)
WholeAgain(s) == [i \in DOMAIN s |-> IF s[i].kind = "late" THEN Line(s[i].entry, "whole") ELSE s[i]]

DrainFails ==
  /\ Reads
  /\ IF redis.up THEN ~Room /\ Fault ELSE UNCHANGED faults
  /\ forgotten' = forgotten \cup ReadableIn(file)
  /\ file' = WholeAgain(temp) /\ temp' = <<>> /\ drain' = 0
  /\ writer' = CASE writer = "temp" -> "file" [] writer = "file" -> "gone" [] OTHER -> writer
  /\ UNCHANGED <<pushed, redis, available, worker, sweeper, spill, batch, applied, reached, spoilt>>

(* Mutant: what was read so far is taken for all of it. *)
ReadThrough == drain > 1

(* The last line has been read.                                            *)
AllRead == drain > Len(temp)

(* The file is removed.                                                    *)
DrainEnds ==
  /\ drain # 0 /\ AllRead
  /\ temp' = <<>> /\ drain' = 0
  /\ writer' = IF writer = "temp" THEN "gone" ELSE writer
  /\ UNCHANGED <<pushed, redis, available, worker, sweeper, spill, batch, file, applied,
                 faults, history>>

-----------------------------------------------------------------------------
(* _recover_stranded_tasks.                                                *)
Recovered(r) ==
  [r EXCEPT !.processing = <<>>, !.queue = Reverse(r.processing) \o @]

(* The process dies, or stops, and starts: Redis and the files remain.     *)
(* Without Redis neither worker, sweeper nor recovery is started.          *)
RestartBuffer ==
  /\ Fault
  /\ WriteEnds(ItemsOf(spill))
  /\ spill' = <<>> /\ drain' = 0
  /\ available' = redis.up
  /\ worker' = IF redis.up THEN Resting ELSE Stopped
  /\ sweeper' = [on |-> redis.up, todo |-> <<>>]
  /\ redis' = IF redis.up THEN Recovered(redis) ELSE redis
  /\ UNCHANGED <<pushed, applied, reached>>

Worker == Take \/ TakeFails \/ Execute \/ ExecuteFails \/ Ack \/ DeadLetter
Daemon == TakeBatch \/ OpenFile \/ WriteLine
Sentinel ==
  \/ Reestablish \/ DrainBegins \/ DrainToRedis \/ DrainDirectly \/ DrainSkips
  \/ DrainFails \/ DrainEnds

BufferNext ==
  \/ \E i \in Items : PushToRedis(i) \/ PushToSpill(i) \/ PushTwice(i)
  \/ Outage \/ Back \/ TakeLost \/ SpillWriteFails \/ RestartBuffer
  \/ SweepLists \/ SweepReclaims \/ SweepSkips
  \/ Worker \/ Daemon \/ Sentinel

(* The tasks run, and Redis comes back from an outage.  What stays in      *)
(* processing is over a minute old at some sweep.                          *)
BufferFairness ==
  /\ WF_bufferVars(Back) /\ WF_bufferVars(Worker) /\ WF_bufferVars(Daemon) /\ WF_bufferVars(Sentinel)
  /\ WF_bufferVars(SweepLists \/ SweepSkips) /\ SF_bufferVars(SweepReclaims)

BufferSpec == BufferInit /\ [][BufferNext]_bufferVars /\ BufferFairness

-----------------------------------------------------------------------------
(* The types of the state; a worker that is not idle holds an entry.       *)
Payloads == [item : Items, renewed : BOOLEAN]
RedisType == [up : BOOLEAN, queue : Seq(Payloads), processing : Seq(Payloads),
              dlq : SUBSET Items]
WorkerType ==
  [on : BOOLEAN, at : {"idle"}, entry : {<<>>}]
    \cup [on : {TRUE}, at : {"claimed", "committed", "failed"}, entry : Payloads]

Lines == [entry : Payloads, kind : {"whole", "open", "cut", "corrupt", "late"}]

BufferTypeOK ==
  /\ {pushed, applied, reached, forgotten, spoilt} \subseteq SUBSET Items
  /\ redis \in RedisType /\ available \in BOOLEAN
  /\ worker \in WorkerType
  /\ sweeper \in [on : BOOLEAN, todo : Seq(Payloads)]
  /\ {spill, batch} \subseteq Seq(Payloads) /\ {file, temp} \subseteq Seq(Lines)
  /\ writer \in {"none", "file", "temp", "gone"} /\ (writer # "none" => batch # <<>>)
  /\ Len(spill) <= MaxSpill /\ Len(batch) <= MaxSpill
  /\ drain \in 0 .. Len(temp) + 1 /\ faults \in 0 .. MaxFaults

InRedis == ItemsOf(redis.queue) \cup ItemsOf(redis.processing) \cup redis.dlq

(* What got into Redis is executed or still there, through crashes between *)
(* any two commands, lost replies, a sweeper that acts on a stale list and *)
(* a recovery: the docstring's "At-Least-Once delivery".                   *)
AtLeastOnceFromRedis == reached \subseteq applied \cup InRedis

(* A statement taken by push_query vanishes only out of a place that was   *)
(* lost whole (memory at a restart, a batch at a disk error, a full queue, *)
(* a file that a rename replaced) or out of a line that was not its own    *)
(* any more: cut off, glued to one that was, or written by a thread that   *)
(* still had the file open when the sentinel took it.  What the drain      *)
(* reads, skips, puts back and removes costs nothing else.                 *)
VanishesOnlyWithItsPlace ==
  pushed \subseteq applied \cup InRedis \cup forgotten \cup spoilt
                   \cup ItemsOf(spill) \cup ItemsOf(batch) \cup ReadableIn(file) \cup ReadableIn(temp)

(* If Redis stays available from some time on, and the sweeper was         *)
(* started, each statement that reached it is executed or a dead letter.   *)
RedisIsWorkedOff ==
  <>[](available /\ sweeper.on) =>
    \A i \in Items : i \in reached ~> i \in applied \cup redis.dlq
=============================================================================
