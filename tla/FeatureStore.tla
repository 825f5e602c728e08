---------------------------- MODULE FeatureStore ----------------------------
(***************************************************************************)
(* FeatureStore: feature records in a memory-mapped file that outlives the *)
(* process, an index from intent id to record that is rebuilt from it, and *)
(* labels written into the records later.                                  *)
(***************************************************************************)
EXTENDS Integers, Sequences, FiniteSets, Functions

CONSTANT MaxEntries   \* max_entries, 50000 in the code

ASSUME StoreAssumption == MaxEntries \in Nat \ {0}

(* A record: the intent the features are of, whether all of them are       *)
(* written, and the label, with the intent it was made for.  Intents are   *)
(* told apart by the run of the process too, which the file does not say.  *)
Unlabelled == [of |-> <<>>, label |-> 0]
Record(intent, whole) == [intent |-> intent, whole |-> whole, y |-> Unlabelled]
IdOf(intent) == intent[2]

NoEntries == [i \in {} |-> 0]
Empty == [wal |-> <<>>, index |-> NoEntries, entries |-> 0, pending |-> NoEntries]

(* _rebuild_index: of records with the same id the last is found.          *)
Rebuilt(wal) ==
  LET ids == {IdOf(wal[p].intent) : p \in DOMAIN wal}
      LastOf(i) == CHOOSE p \in DOMAIN wal :
        IdOf(wal[p].intent) = i /\ \A q \in DOMAIN wal : IdOf(wal[q].intent) = i => q <= p
  IN [wal |-> wal, index |-> [i \in ids |-> LastOf(i)], entries |-> Len(wal), pending |-> NoEntries]

(* _write_label_at *)
Stitched(st, pos, y) == [st EXCEPT !.wal[pos].y = y]

(* stitch_label: the label of an intent without features waits.  Mutant:   *)
(* it is dropped.                                                          *)
LabelledOrDropped(st, intent, label) ==
  LET y == [of |-> intent, label |-> label]
  IN IF IdOf(intent) \in DOMAIN st.index THEN Stitched(st, st.index[IdOf(intent)], y) ELSE st

Labelled(st, intent, label) ==
  LET i == IdOf(intent)
      y == [of |-> intent, label |-> label]
  IN IF i \in DOMAIN st.index THEN Stitched(st, st.index[i], y)
     ELSE [st EXCEPT !.pending = [j \in DOMAIN @ \cup {i} |-> IF j = i THEN y ELSE @[j]]]

HasRoom(st) == st.entries < MaxEntries

(* append_features.  Mutant: an id that is in the index already keeps its  *)
(* place there.                                                            *)
AppendedUnderOldId(st, intent) ==
  IF ~HasRoom(st) THEN st
  ELSE [st EXCEPT !.wal = Append(@, Record(intent, TRUE)),
                  !.index = [j \in DOMAIN @ \cup {IdOf(intent)} |->
                              IF j \in DOMAIN @ THEN @[j] ELSE st.entries + 1],
                  !.entries = @ + 1]

Appended(st, intent) ==
  LET i == IdOf(intent)
      pos == st.entries + 1
      waiting == i \in DOMAIN st.pending
      record == IF waiting THEN [Record(intent, TRUE) EXCEPT !.y = st.pending[i]]
                           ELSE Record(intent, TRUE)
  IN IF ~HasRoom(st) THEN st
     ELSE [wal |-> Append(st.wal, record),
           index |-> [j \in DOMAIN st.index \cup {i} |-> IF j = i THEN pos ELSE st.index[j]],
           entries |-> pos,
           pending |-> Restrict(st.pending, DOMAIN st.pending \ {i})]

(* The file when the process dies after the header of the record.          *)
TornAppend(st, intent) == Append(st.wal, Record(intent, FALSE))

(* The unlabelled records of the index, which compaction moves to the front *)
(* in the order of the index.  The order is that of the first insertion of an *)
(* id, which the positions of the records give too as long as no id is     *)
(* used twice; where one is, any order is as good for what follows.        *)
IsLabelled(r) == r.y.of # <<>>
NthPlace(S, k) == CHOOSE p \in S : Cardinality({q \in S : q < p}) = k - 1
Kept(st) ==
  LET positions == {st.index[i] : i \in DOMAIN st.index}
      keep == {p \in positions : ~IsLabelled(st.wal[p])}
  IN [k \in 1..Cardinality(keep) |-> st.wal[NthPlace(keep, k)]]

(* compaction: the index is written anew, labels that wait stay.  Mutant:  *)
(* these are dropped.                                                      *)
CompactedForgetting(st) ==
  IF Len(Kept(st)) = st.entries THEN st ELSE Rebuilt(Kept(st))

Compacted(st) ==
  IF Len(Kept(st)) = st.entries THEN st
  ELSE [Rebuilt(Kept(st)) EXCEPT !.pending = st.pending]

(* The file when the process dies after k records have been moved and      *)
(* before the rest is zeroed.                                              *)
TornCompaction(st, k) == [p \in DOMAIN st.wal |-> IF p <= k THEN Kept(st)[p] ELSE st.wal[p]]

(* export_training_data: the labelled records the index leads to.          *)
Exported(st) == {st.wal[st.index[i]] : i \in {j \in DOMAIN st.index : IsLabelled(st.wal[st.index[j]])}}
=============================================================================
