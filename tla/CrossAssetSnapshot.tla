------------------------- MODULE CrossAssetSnapshot -------------------------
(***************************************************************************)
(* The signal engine's snapshot of all books, over the books and the       *)
(* multiplexer of L2Resync.  It is taken in one step of the event loop     *)
(* once all books are ready, and used after awaits, if it then passes for  *)
(* consistent.  The cost of a market order (MSQ) depends on the levels     *)
(* near the top only; an update sets the quantity of a level, or removes   *)
(* it.  The age of the data, the circuit breaker and the pessimisation of  *)
(* the quantities are left out.                                            *)
(***************************************************************************)
EXTENDS L2Resync

CONSTANTS
  Level,        \* the level each update is about, for those an order would reach
  Removals,     \* the updates whose quantity is 0
  MaxRetries    \* max_retries, 5 in the code

Near == DOMAIN Level

ASSUME SnapshotAssumption == Near \subseteq Nat /\ MaxRetries \in Nat \ {0}

VARIABLE shot   \* take_with_retry of one signal: its attempts, then what it holds

allVars == <<vars, shot>>

(* The near levels of a book that took the updates H: the last of each     *)
(* level, unless that removed it.                                          *)
Standing(H) ==
  {n \in (H \cap Near) \ Removals : \A m \in H \cap Near : Level[m] = Level[n] => m <= n}

(* calculate_msq, by what it depends on. *)
Msq(b) == IF b.ok THEN Standing(b.holds) ELSE {}

AllReady == \A s \in Symbols : Usable(s)

(* An attempt with all books ready: the epochs are noted with the costs.   *)
TakeShot ==
  /\ shot.phase = "trying"
  /\ AllReady
  /\ shot' = [phase |-> "held", msq |-> [s \in Symbols |-> Msq(book[s])],
              u |-> [s \in Symbols |-> book[s].u]]   \* u: observation only
  /\ book' = [s \in Symbols |-> [book[s] EXCEPT !.moved = FALSE]]
  /\ UNCHANGED <<exchange, socket, state, resync, pump, ghost>>

(* An attempt with a blind book, and a yield before the next; after the    *)
(* last, or once the signal's time is up, SnapshotIsolationError.          *)
Retry ==
  /\ shot.phase = "trying"
  /\ ~AllReady
  /\ shot' = [shot EXCEPT !.tries = @ + 1,
                          !.phase = IF shot.tries + 1 = MaxRetries THEN "failed" ELSE "trying"]
  /\ UNCHANGED vars

TimeUp ==
  /\ shot.phase = "trying"
  /\ shot' = [shot EXCEPT !.phase = "failed", !.tries = MaxRetries]
  /\ UNCHANGED vars

ShotInit == Init /\ shot = [phase |-> "trying", tries |-> 0]
ShotNext == (Next /\ UNCHANGED shot) \/ TakeShot \/ Retry \/ TimeUp
ShotSpec == ShotInit /\ [][ShotNext]_allVars /\ WF_vars(Pump)

(* is_consistent_msq: an unchanged read_epoch is proof enough; otherwise   *)
(* the book must be ready and cost the same.                               *)
Passes ==
  /\ shot.phase = "held"
  /\ \A s \in Symbols : ~book[s].moved \/ (Usable(s) /\ Msq(book[s]) = shot.msq[s])

(* What the book had when it had come to update u, if all it has taken up  *)
(* to then it still builds on.                                             *)
Then(b, u) == Standing(b.holds \cap 0 .. u)

(* A snapshot that passes for consistent costs what the book says now, or  *)
(* what the same book said at the snapshot, and then nothing but deltas    *)
(* came since: it was not reset, nor anchored anew.  The deltas may have   *)
(* changed the levels, or removed them, as ingest_delta leaves read_epoch  *)
(* alone, whatever nd_orderbook.py:777 and :868 say.  And a book that has  *)
(* become unusable meanwhile is so by the multiplexer's state, which       *)
(* leaves read_epoch alone too.                                            *)
PassesOnlyWhatWas ==
  Passes => \A s \in Symbols :
    /\ \/ shot.msq[s] = Msq(book[s])
       \/ book[s].ok /\ shot.u[s] <= book[s].u /\ shot.msq[s] = Then(book[s], shot.u[s])
    /\ Usable(s) \/ state[s] # "SYNCED"
=============================================================================
