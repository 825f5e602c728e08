------------------------------ MODULE L2Resync ------------------------------
(***************************************************************************)
(* The L2 multiplexer: one connection per shard, one book and one          *)
(* BookState per symbol, and the pump that fetches REST snapshots for the  *)
(* books that lost their place.  All shards share the connection epoch and *)
(* the resync queue.  Handlers are synchronous; the pump awaits the queue, *)
(* the REST answer and its backoff.  Hot swaps of the universe are not     *)
(* modelled here.                                                          *)
(***************************************************************************)
EXTENDS L2Book

CONSTANTS
  Shards, Symbols,
  ShardOf,       \* the shard of each symbol (_chunk_symbols)
  MaxUpdates,    \* bound: updates of each symbol
  MaxDrops,      \* bound: connections lost by each shard
  MaxFailures    \* bound: REST calls that fail for each symbol

ASSUME ResyncAssumption ==
  /\ ShardOf \in [Symbols -> Shards]
  /\ MaxUpdates \in [Symbols -> Nat \ {0}]
  /\ MaxDrops \in [Shards -> Nat] /\ MaxFailures \in [Symbols -> Nat]

VARIABLES
  ranged,     \* symbols whose deltas carry U
  made,       \* the last update of each symbol the exchange has made
  link,       \* whether each shard has a subscribed connection
  feed,       \* what it sends next for each symbol: its snapshot, then deltas
  next,       \* the first update not sent yet
  book,       \* _processors
  state,      \* _states
  epoch,      \* _connection_epoch
  queue, pending, \* _resync_queue, _resync_pending
  pump,       \* where _resync_pump is, and its entry
  \* observation only: no action of the code depends on what follows
  drops, failed,  \* connections lost and REST failures so far
  orphaned,       \* symbols whose request another shard's loss has voided
  late,           \* symbols that consumed a frame after REST answered, unless the ring keeps it
  excused         \* those whose latest snapshot was such an answer

exchange == <<ranged, made>>
socket == <<link, feed, next>>
resync == <<epoch, queue, pending>>
ghost == <<drops, failed, orphaned, late, excused>>
vars == <<exchange, socket, book, state, resync, pump, ghost>>

SymbolsOf(c) == {s \in Symbols : ShardOf[s] = c}
Idle == [phase |-> "idle"]

(* run(): books start SYNCED and empty, no shard is connected yet.         *)
Init ==
  /\ ranged \in SUBSET Symbols
  /\ made = [s \in Symbols |-> 1]
  /\ link = [c \in Shards |-> "down"]
  /\ feed = [s \in Symbols |-> "none"]
  /\ next = [s \in Symbols |-> 1]
  /\ book = [s \in Symbols |-> Blank]
  /\ state = [s \in Symbols |-> "SYNCED"]
  /\ epoch = 0
  /\ queue = <<>>
  /\ pending = {}
  /\ pump = Idle
  /\ drops = [c \in Shards |-> 0]
  /\ failed = [s \in Symbols |-> 0]
  /\ orphaned = {}
  /\ late = {}
  /\ excused = {}

(* request_resync, under the present epoch. *)
Request(s) ==
  /\ queue' = IF s \in pending THEN queue ELSE Append(queue, <<s, epoch>>)
  /\ pending' = pending \cup {s}
  /\ orphaned' = orphaned \ {s}
  /\ UNCHANGED epoch

NoRequest == UNCHANGED <<resync, orphaned>>

-----------------------------------------------------------------------------
(* The exchange and the shard workers.                                     *)

Update(s) ==
  /\ made[s] < MaxUpdates[s]
  /\ made' = [made EXCEPT ![s] = @ + 1]
  /\ UNCHANGED <<ranged, socket, book, state, resync, pump, ghost>>

(* Connected and subscribed: each symbol's feed starts with a snapshot.    *)
Connect(c) ==
  /\ link[c] = "down"
  /\ link' = [link EXCEPT ![c] = "up"]
  /\ feed' = [s \in Symbols |-> IF s \in SymbolsOf(c) THEN "snapshot" ELSE feed[s]]
  /\ next' = [s \in Symbols |-> IF s \in SymbolsOf(c) THEN made[s] + 1 ELSE next[s]]
  /\ UNCHANGED <<exchange, book, state, resync, pump, ghost>>

(* The symbols whose requests the next change of the epoch voids.          *)
Requested ==
  {entry[1] : entry \in Range(queue)}
    \cup {s \in Symbols : pump.phase \in {"taken", "fetching", "answered"} /\ pump.sym = s}

(* The worker's finally: the epoch is bumped and the queue drained for all *)
(* shards, the books of this one are DESYNCED.                             *)
Drop(c) ==
  /\ link[c] = "up"
  /\ drops[c] < MaxDrops[c]
  /\ link' = [link EXCEPT ![c] = "down"]
  /\ feed' = [s \in Symbols |-> IF s \in SymbolsOf(c) THEN "none" ELSE feed[s]]
  /\ state' = [s \in Symbols |-> IF s \in SymbolsOf(c) THEN "DESYNCED" ELSE state[s]]
  /\ epoch' = epoch + 1
  /\ queue' = <<>>
  /\ pending' = {}
  /\ drops' = [drops EXCEPT ![c] = @ + 1]
  /\ orphaned' = (orphaned \cup Requested) \ SymbolsOf(c)
  /\ UNCHANGED <<exchange, next, book, pump, failed, late, excused>>

(* A frame of a DESYNCED book is dropped and a resync asked for.           *)
Desynced(s) ==
  /\ state[s] = "DESYNCED"
  /\ state' = [state EXCEPT ![s] = "RECOVERING"]
  /\ Request(s)
  /\ UNCHANGED book

HandleSnapshot(s) ==
  \/ /\ Desynced(s)
     /\ UNCHANGED excused
  \/ /\ state[s] = "RECOVERING"
     /\ NoRequest
     /\ UNCHANGED <<book, state, excused>>
  \/ /\ state[s] = "SYNCED"
     /\ book' = [book EXCEPT ![s] = Snapshot(@, next[s] - 1)]
     /\ excused' = excused \ {s}
     /\ NoRequest
     /\ UNCHANGED state

SnapshotFrame(s) ==
  /\ feed[s] = "snapshot"
  /\ feed' = [feed EXCEPT ![s] = "deltas"]
  /\ HandleSnapshot(s)
  /\ late' = late \cup {s}
  /\ UNCHANGED <<exchange, link, next, pump, drops, failed>>

LosesPlace(s, f) ==
  Verdict(book[s], f) \in {"sequence_gap", "invalid_u_range", "no_snapshot_anchor"}

(* A RECOVERING book takes the delta too, whatever becomes of it.          *)
HandleDelta(s, f) ==
  \/ Desynced(s)
  \/ /\ state[s] = "RECOVERING"
     /\ book' = [book EXCEPT ![s] = Delta(@, f)]
     /\ NoRequest
     /\ UNCHANGED state
  \/ /\ state[s] = "SYNCED"
     /\ book' = [book EXCEPT ![s] = Delta(@, f)]
     /\ IF LosesPlace(s, f)
          THEN state' = [state EXCEPT ![s] = "RECOVERING"] /\ Request(s)
          ELSE NoRequest /\ UNCHANGED state

(* The ring still has the delta when the answer is ingested.               *)
KeptForSnapshot(s, f) == /\ state[s] # "DESYNCED"
                         /\ Verdict(book[s], f) = "no_snapshot_anchor"
                         /\ Len(book[s].ring) < Capacity

(* The connection delivers the next updates, up to hi, in one delta. A     *)
(* ranged frame may be malformed: its U lies behind its u.                 *)
DeltaFrame(s, hi, malformed) ==
  LET f == Frame(next[s], hi, IF s \notin ranged THEN 0
                              ELSE IF malformed THEN hi + 1 ELSE next[s])
  IN /\ feed[s] = "deltas"
     /\ hi \in next[s] .. made[s]
     /\ malformed => s \in ranged
     /\ next' = [next EXCEPT ![s] = hi + 1]
     /\ HandleDelta(s, f)
     /\ late' = IF KeptForSnapshot(s, f) THEN late ELSE late \cup {s}
     /\ UNCHANGED <<exchange, link, feed, pump, drops, failed, excused>>

-----------------------------------------------------------------------------
(* _resync_pump.                                                           *)

(* queue.get() runs in a task of its own: its entry has left the queue     *)
(* before the pump goes on.                                                *)
Take ==
  /\ pump = Idle
  /\ queue # <<>>
  /\ pump' = [phase |-> "taken", sym |-> Head(queue)[1], epoch |-> Head(queue)[2]]
  /\ queue' = Tail(queue)
  /\ UNCHANGED <<exchange, socket, book, state, epoch, pending, ghost>>

(* Mutant: the symbol stays in _resync_pending. *)
ProceedStaysPending ==
  /\ pump.phase = "taken"
  /\ pump' = IF pump.epoch = epoch THEN [pump EXCEPT !.phase = "fetching"] ELSE Idle
  /\ UNCHANGED <<exchange, socket, book, state, resync, ghost>>

Proceed ==
  /\ pump.phase = "taken"
  /\ pending' = pending \ {pump.sym}
  /\ pump' = IF pump.epoch = epoch THEN [pump EXCEPT !.phase = "fetching"] ELSE Idle
  /\ UNCHANGED <<exchange, socket, book, state, epoch, queue, ghost>>

(* The exchange answers with the book of this moment. *)
Serve ==
  /\ pump.phase = "fetching"
  /\ pump' = [phase |-> "answered", sym |-> pump.sym, epoch |-> pump.epoch, u |-> made[pump.sym]]
  /\ late' = late \ {pump.sym}
  /\ UNCHANGED <<exchange, socket, book, state, resync, drops, failed, orphaned, excused>>

Ingested(s, u) ==
  /\ book' = [book EXCEPT ![s] = Snapshot(@, u)]
  /\ state' = [state EXCEPT ![s] = "SYNCED"]
  /\ orphaned' = orphaned \ {s}
  /\ excused' = IF s \in late THEN excused \cup {s} ELSE excused \ {s}

(* Mutant: the answer is ingested whatever the epoch. *)
CompleteWithoutCheck ==
  /\ pump.phase = "answered"
  /\ pump' = Idle
  /\ Ingested(pump.sym, pump.u)
  /\ UNCHANGED <<exchange, socket, resync, drops, failed, late>>

Complete ==
  /\ pump.phase = "answered"
  /\ pump' = Idle
  /\ IF pump.epoch = epoch THEN Ingested(pump.sym, pump.u)
                           ELSE UNCHANGED <<book, state, orphaned, excused>>
  /\ UNCHANGED <<exchange, socket, resync, drops, failed, late>>

(* REST refuses or breaks. *)
Failing(phase) ==
  /\ pump.phase = "fetching"
  /\ failed[pump.sym] < MaxFailures[pump.sym]
  /\ failed' = [failed EXCEPT ![pump.sym] = @ + 1]
  /\ pump' = [pump EXCEPT !.phase = phase]
  /\ UNCHANGED <<exchange, socket, book, resync, drops, orphaned, late, excused>>

(* Rate limited: the gate sleeps before the pump hears of it.              *)
RateLimited == Failing("backoff") /\ UNCHANGED state

(* Mutant: the rate-limited symbol is not queued again. *)
RequeueForgets ==
  /\ pump.phase = "backoff"
  /\ pump' = Idle
  /\ state' = [state EXCEPT ![pump.sym] = "RECOVERING"]
  /\ UNCHANGED <<exchange, socket, book, resync, ghost>>

Requeue ==
  /\ pump.phase = "backoff"
  /\ pump' = Idle
  /\ state' = [state EXCEPT ![pump.sym] = "RECOVERING"]
  /\ Request(pump.sym)
  /\ UNCHANGED <<exchange, socket, book, drops, failed, late, excused>>

(* Any other error: DESYNCED at once, asked for again after the sleep.     *)
FetchErrs == Failing("sleeping") /\ state' = [state EXCEPT ![pump.sym] = "DESYNCED"]

AskAgain ==
  /\ pump.phase = "sleeping"
  /\ pump' = Idle
  /\ Request(pump.sym)
  /\ UNCHANGED <<exchange, socket, book, state, drops, failed, late, excused>>

-----------------------------------------------------------------------------

Shard(c) == Connect(c) \/ Drop(c)

Frames(s) == \/ SnapshotFrame(s)
             \/ \E hi \in 1 .. MaxUpdates[s], malformed \in BOOLEAN : DeltaFrame(s, hi, malformed)

Pump == \/ Take \/ Proceed \/ Serve \/ Complete
        \/ RateLimited \/ Requeue \/ FetchErrs \/ AskAgain

Next == \/ \E s \in Symbols : Update(s) \/ Frames(s)
        \/ \E c \in Shards : Shard(c)
        \/ Pump

Spec == Init /\ [][Next]_vars

(* The pump is a task of the event loop and a REST call ends, one way or   *)
(* another.  Nothing is assumed of the connections or their frames.        *)
FairSpec == Spec /\ WF_vars(Pump)

-----------------------------------------------------------------------------
(* Properties.                                                             *)

Deltas == [from : Nat, hi : Nat, U : Nat]
Books == [u : Nat, holds : SUBSET Nat, ok : BOOLEAN, ring : Seq(Deltas), moved : BOOLEAN]
Phases == {"idle", "taken", "fetching", "answered", "backoff", "sleeping"}

(* Types, and the ring stays within its slots. *)
TypeOK ==
  /\ ranged \subseteq Symbols
  /\ made \in [Symbols -> Nat \ {0}]
  /\ link \in [Shards -> {"up", "down"}]
  /\ feed \in [Symbols -> {"none", "snapshot", "deltas"}]
  /\ next \in [Symbols -> Nat \ {0}]
  /\ book \in [Symbols -> Books]
  /\ \A s \in Symbols : Len(book[s].ring) <= Capacity
  /\ state \in [Symbols -> {"SYNCED", "DESYNCED", "RECOVERING"}]
  /\ epoch \in Nat
  /\ queue \in Seq(Symbols \X (0 .. epoch))
  /\ pending \subseteq Symbols
  /\ pump.phase \in Phases
  /\ drops \in [Shards -> Nat] /\ \A c \in Shards : drops[c] <= MaxDrops[c]
  /\ failed \in [Symbols -> Nat] /\ \A s \in Symbols : failed[s] <= MaxFailures[s]
  /\ orphaned \subseteq Symbols
  /\ late \subseteq Symbols /\ excused \subseteq Symbols

(* What readiness() lets the signal engine use, apart from the age of the  *)
(* data and the circuit breaker.                                           *)
Usable(s) == state[s] = "SYNCED" /\ book[s].ok /\ book[s].u # 0

(* A usable book has missed no update, whatever was dropped, discarded or  *)
(* answered late.  Only a book whose deltas carry no U may have a hole, if *)
(* its latest snapshot is a REST answer that was overtaken: between the    *)
(* answer and its ingestion a delta came that was not kept in the ring,    *)
(* because the book was not empty, the ring was full, or the symbol was    *)
(* DESYNCED, or the snapshot of a new connection, which a book that waits  *)
(* for REST drops.                                                         *)
HoleOnlyByRace ==
  \A s \in Symbols :
    Usable(s) /\ book[s].holds # 1 .. book[s].u => s \in excused \ ranged

(* A book is usable without a connection only if REST failed for it: the   *)
(* retry is then made under the epoch of the outage.                       *)
UsableOnlyConnected ==
  \A s \in Symbols : Usable(s) /\ link[ShardOf[s]] = "down" => failed[s] > 0

(* A request for s that the pump will honour. *)
UnderWay(s) ==
  \/ <<s, epoch>> \in Range(queue)
  \/ /\ pump # Idle
     /\ pump.sym = s
     /\ pump.phase \in {"backoff", "sleeping"} \/ pump.epoch = epoch

(* A book that waits for its snapshot without one being under way owes     *)
(* that to the loss of another shard's connection.                         *)
StuckOnlyByForeignDrop ==
  \A s \in Symbols : state[s] = "RECOVERING" => UnderWay(s) \/ s \in orphaned

(* And otherwise it gets the snapshot, or loses its connection.            *)
Recovers ==
  \A s \in Symbols : (state[s] = "RECOVERING") ~> (state[s] # "RECOVERING" \/ s \in orphaned)
=============================================================================
