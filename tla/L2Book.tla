------------------------------- MODULE L2Book -------------------------------
(***************************************************************************)
(* What NdOrderBookStateMachine does with snapshots and deltas.  The       *)
(* exchange numbers the updates of a symbol from 1; instead of price       *)
(* levels a book holds the set of updates its levels reflect.  Deltas that *)
(* come before any snapshot wait in a bounded ring.                        *)
(***************************************************************************)
EXTENDS Naturals, SequencesExt

CONSTANT Capacity   \* slots of the ring (BUFFER_CAPACITY, 65536 in the code)

ASSUME BookAssumption == Capacity \in Nat \ {0}

(* A delta with the updates from .. hi.  U is the range_start of the wire, *)
(* 0 if the frame has none.                                                *)
Frame(from, hi, U) == [from |-> from, hi |-> hi, U |-> U]

(* moved says that read_epoch has grown since a reader last noted it.      *)
Blank == [u |-> 0, holds |-> {}, ok |-> FALSE, ring |-> <<>>, moved |-> TRUE]

(* ingest_delta's decision.  The feed sequence number grows with u, so its *)
(* own check never rejects what passed the others.                         *)
Verdict(b, f) ==
  IF b.u = 0 THEN "no_snapshot_anchor"
  ELSE IF f.U > f.hi THEN "invalid_u_range"
  ELSE IF f.hi <= b.u THEN "stale_or_duplicate_u"
  ELSE IF f.U > b.u + 1 THEN "sequence_gap"
  ELSE "applied"

(* write_frame: a full ring loses its oldest frame. *)
Written(ring, f) == Append(IF Len(ring) >= Capacity THEN Tail(ring) ELSE ring, f)

WithUpdates(b, f) == [b EXCEPT !.u = f.hi, !.holds = @ \cup (f.from .. f.hi)]

(* Mutant: _hard_reset leaves read_epoch alone. *)
DeltaUnnoticed(b, f) ==
  CASE Verdict(b, f) = "no_snapshot_anchor" -> [b EXCEPT !.ring = Written(@, f)]
    [] Verdict(b, f) \in {"invalid_u_range", "sequence_gap"} -> [Blank EXCEPT !.moved = b.moved]
    [] Verdict(b, f) = "applied" -> WithUpdates(b, f)
    [] OTHER -> b

Delta(b, f) ==
  CASE Verdict(b, f) = "no_snapshot_anchor" -> [b EXCEPT !.ring = Written(@, f)]
    [] Verdict(b, f) \in {"invalid_u_range", "sequence_gap"} -> Blank
    [] Verdict(b, f) = "applied" -> WithUpdates(b, f)
    [] OTHER -> b

(* fast_forward_splice: the ring from the first frame that is not older    *)
(* than the snapshot, if the snapshot lies within the ring.                *)
Spliced(ring, u) ==
  IF ring # <<>> /\ u \in Head(ring).hi .. Last(ring).hi
  THEN SubSeq(ring, SelectInSeq(ring, LAMBDA f : f.hi >= u), Len(ring))
  ELSE ring

(* One buffered frame after the snapshot; a gap invalidates the book and   *)
(* ends the loop.                                                          *)
Replayed(b, f) ==
  IF ~b.ok \/ f.hi <= b.u THEN b
  ELSE IF f.U > b.u + 1 THEN Blank ELSE WithUpdates(b, f)

(* read_next_frame until the ring is empty.  Reader and writer share one   *)
(* thread, so that the sequence lock never has it try again.               *)
AllReplayed(b, ring) ==
  LET after[n \in 0 .. Len(ring)] ==
        IF n = 0 THEN b ELSE Replayed(after[n - 1], ring[n])
  IN after[Len(ring)]

Anchored(u) == [u |-> u, holds |-> 1 .. u, ok |-> TRUE, ring |-> <<>>, moved |-> TRUE]

(* Mutant: the snapshot throws the buffered deltas away. *)
SnapshotOnly(b, u) == Anchored(u)

(* ingest_snapshot *)
Snapshot(b, u) == AllReplayed(Anchored(u), Spliced(b.ring, u))
=============================================================================
