-------------------------- MODULE PersistenceProofs ---------------------------
(***************************************************************************)
(* Theorems about the two components that stand between the program and the *)
(* database: EventBus, for any finite set of events, any queue size and any *)
(* number of starts, and IngestionBuffer, for any statements, any size of  *)
(* the spill queue and any number of faults.                               *)
(***************************************************************************)
EXTENDS EventBus, IngestionBuffer, FiniteSetTheorems, SequenceTheorems,
        WellFoundedInduction, TLAPS

-----------------------------------------------------------------------------
(* The elements of a sequence, and the sequence of a set.                  *)

LEMMA ElementsOfAppend ==
  ASSUME NEW S, NEW s \in Seq(S), NEW e \in S
  PROVE  /\ ToSet(Append(s, e)) = ToSet(s) \cup {e}
         /\ Append(s, e) \in Seq(S)
<1>1. /\ Append(s, e) \in Seq(S) /\ Len(Append(s, e)) = Len(s) + 1
      /\ \A i \in 1 .. Len(s) : Append(s, e)[i] = s[i]
      /\ Append(s, e)[Len(s) + 1] = e
  BY AppendProperties
<1>2. /\ DOMAIN s = 1 .. Len(s) /\ DOMAIN Append(s, e) = 1 .. (Len(s) + 1)
      /\ Len(s) \in Nat
  BY <1>1, LenProperties
<1> QED BY <1>1, <1>2 DEF ToSet

LEMMA ElementsOfTail ==
  ASSUME NEW S, NEW s \in Seq(S), s # <<>>
  PROVE  /\ ToSet(s) = {Head(s)} \cup ToSet(Tail(s))
         /\ Head(s) \in S /\ Tail(s) \in Seq(S)
<1>1. /\ Head(s) \in S /\ Tail(s) \in Seq(S) /\ Len(Tail(s)) = Len(s) - 1
      /\ \A i \in 1 .. Len(Tail(s)) : Tail(s)[i] = s[i + 1]
  BY HeadTailProperties
<1>2. /\ DOMAIN s = 1 .. Len(s) /\ DOMAIN Tail(s) = 1 .. (Len(s) - 1)
      /\ Len(s) \in Nat \ {0} /\ Head(s) = s[1]
  BY <1>1, LenProperties, EmptySeq
<1>3. \A i \in 2 .. Len(s) : i - 1 \in 1 .. Len(Tail(s)) /\ s[i] = Tail(s)[i - 1]
  BY <1>1, <1>2
<1>4. ToSet(s) = {s[i] : i \in 1 .. Len(s)}
  BY <1>2 DEF ToSet
<1>5. ToSet(Tail(s)) = {Tail(s)[i] : i \in 1 .. (Len(s) - 1)}
  BY <1>2 DEF ToSet
<1>6. \A i \in 1 .. Len(s) : s[i] = Head(s) \/ s[i] \in ToSet(Tail(s))
  <2> TAKE i \in 1 .. Len(s)
  <2>1. CASE i = 1
    BY <2>1, <1>2
  <2>2. CASE i # 1
    <3>1. i - 1 \in 1 .. (Len(s) - 1) /\ s[i] = Tail(s)[i - 1]
      BY <2>2, <1>1, <1>2, <1>3
    <3> QED BY <3>1, <1>5
  <2> QED BY <2>1, <2>2
<1>7. \A i \in 1 .. (Len(s) - 1) : Tail(s)[i] \in ToSet(s)
  BY <1>1, <1>2, <1>4
<1> QED BY <1>1, <1>2, <1>4, <1>5, <1>6, <1>7

LEMMA ElementsOfConcat ==
  ASSUME NEW S, NEW s \in Seq(S), NEW t \in Seq(S)
  PROVE  ToSet(s \o t) = ToSet(s) \cup ToSet(t)
<1>1. Range(s \o t) = Range(s) \cup Range(t)
  BY RangeConcatenation
<1> QED BY <1>1 DEF ToSet, Range

LEMMA SequenceOfSet ==
  ASSUME NEW S, IsFiniteSet(S)
  PROVE  /\ SetToSeq(S) \in Seq(S)
         /\ ToSet(SetToSeq(S)) \subseteq S
<1>1. Cardinality(S) \in Nat /\ ExistsBijection(1 .. Cardinality(S), S)
  BY FS_CardinalityType
<1>2. PICK f : f \in Bijection(1 .. Cardinality(S), S)
  BY <1>1 DEF ExistsBijection
<1>3. f \in [1 .. Cardinality(S) -> S] /\ IsInjective(f)
  BY <1>2 DEF Bijection, Injection, Surjection, IsInjective
<1>4. SetToSeq(S) \in [1 .. Cardinality(S) -> S]
  BY <1>3 DEF SetToSeq
<1> QED BY <1>1, <1>4 DEF ToSet

(* Where the elements of a longer, a shorter, a joined sequence come from. *)
LEMMA PositionsOfAppend ==
  ASSUME NEW S, NEW s \in Seq(S), NEW e \in S, NEW i \in DOMAIN Append(s, e)
  PROVE  \/ i \in DOMAIN s /\ Append(s, e)[i] = s[i]
         \/ i = Len(s) + 1 /\ Append(s, e)[i] = e
  BY AppendProperties, LenProperties

LEMMA PositionsOfTail ==
  ASSUME NEW S, NEW s \in Seq(S), s # <<>>, NEW i \in DOMAIN Tail(s)
  PROVE  i \in Nat /\ i + 1 \in DOMAIN s /\ Tail(s)[i] = s[i + 1]
  BY HeadTailProperties, LenProperties, EmptySeq

LEMMA PositionsOfConcat ==
  ASSUME NEW S, NEW s \in Seq(S), NEW t \in Seq(S), NEW i \in DOMAIN (s \o t)
  PROVE  \/ i \in DOMAIN s /\ (s \o t)[i] = s[i]
         \/ (s \o t)[i] \in ToSet(t)
<1>1. /\ Len(s) \in Nat /\ Len(t) \in Nat
      /\ DOMAIN s = 1 .. Len(s) /\ DOMAIN t = 1 .. Len(t)
  BY LenProperties
<1>2. /\ s \o t \in Seq(S) /\ Len(s \o t) = Len(s) + Len(t)
      /\ \A j \in 1 .. Len(s) + Len(t) :
           (s \o t)[j] = IF j <= Len(s) THEN s[j] ELSE t[j - Len(s)]
  BY ConcatProperties
<1>3. i \in 1 .. Len(s) + Len(t)
  BY <1>2, LenProperties
<1>4. CASE i <= Len(s)
  BY <1>1, <1>2, <1>3, <1>4
<1>5. CASE ~(i <= Len(s))
  <2>1. i - Len(s) \in DOMAIN t /\ (s \o t)[i] = t[i - Len(s)]
    BY <1>1, <1>2, <1>3, <1>5
  <2> QED BY <2>1 DEF ToSet
<1> QED BY <1>4, <1>5

-----------------------------------------------------------------------------
(* Type correctness.                                                       *)

Ops == {"INSERT", "UPDATE", "CORRUPT"} \X Events

LEMMA TypeInit == Init => TypeOK
<1> SUFFICES ASSUME Init PROVE TypeOK
  OBVIOUS
<1>1. writes \in Seq(Ops) /\ queue \in Seq(Events)
  BY EmptySeq DEF Init
<1> QED BY <1>1, BusAssumption DEF Init, TypeOK, Ops

Unrevived == PendingRows \cap Slotted

(* What the recovery puts into the two queues.                             *)
LEMMA RecoveryTypes ==
  /\ {e \in PendingRows : Revived(e)} = {}
  /\ SetToSeq({}) = <<>>
  /\ SetToSeq({<<"CORRUPT", e>> : e \in {f \in PendingRows : Corrupt(f)}})
       \in Seq({"CORRUPT"} \X Unrevived)
<1>1. {e \in PendingRows : Revived(e)} = {}
  BY BusAssumption DEF PendingRows, Revived, Marks, Events
<1>2. SetToSeq({}) = <<>>
  <2>1. IsFiniteSet({})
    BY FS_EmptySet
  <2>2. SetToSeq({}) \in Seq({})
    BY <2>1, SequenceOfSet
  <2> QED BY <2>2, EmptySeq, LenProperties
<1>3. SetToSeq({<<"CORRUPT", e>> : e \in {f \in PendingRows : Corrupt(f)}})
        \in Seq({"CORRUPT"} \X Unrevived)
  <2> DEFINE F == {f \in PendingRows : Corrupt(f)}
             C == {<<"CORRUPT", e>> : e \in F}
  <2>1. F \subseteq Unrevived /\ F \subseteq Slotted
    BY DEF Corrupt, Unrevived
  <2>2. IsFiniteSet(F)
    BY <2>1, FS_Subset, BusAssumption
  <2>3. IsFiniteSet(C)
    <3> DEFINE g == [f \in F |-> <<"CORRUPT", f>>]
    <3>1. g \in Surjection(F, C)
      BY DEF Surjection
    <3> QED BY <2>2, <3>1, FS_Surjection
  <2>4. SetToSeq(C) \in Seq(C)
    BY <2>3, SequenceOfSet
  <2>5. C \subseteq {"CORRUPT"} \X Unrevived
    BY <2>1
  <2> QED BY <2>4, <2>5, SeqMonotonic
<1> QED BY <1>1, <1>2, <1>3

LEMMA WrittenType ==
  ASSUME TypeOK, NEW op \in Ops
  PROVE  [rows EXCEPT ![op[2]] = Written(op[1], @)]
           \in [Events -> {"none", "PENDING", "PROCESSED", "CORRUPTED"}]
  BY DEF TypeOK, Written, Ops

LEMMA TypeStep == TypeOK /\ [Next]_vars => TypeOK'
<1> SUFFICES ASSUME TypeOK, [Next]_vars PROVE TypeOK'
  OBVIOUS
<1> USE DEF TypeOK
<1>0. writes \in Seq(Ops)
  BY DEF Ops
<1>1. ASSUME NEW e \in Events, Publish(e) PROVE TypeOK'
  <2>1. <<"INSERT", e>> \in Ops
    BY DEF Ops
  <2>2. Append(writes, <<"INSERT", e>>) \in Seq(Ops) /\ Append(queue, e) \in Seq(Events)
    BY <2>1, <1>0, ElementsOfAppend
  <2> QED BY <1>0, <1>1, <2>2 DEF Publish, Ops
<1>2. ASSUME NEW e \in Events, Process(e) PROVE TypeOK'
  <2>1. <<"UPDATE", e>> \in Ops
    BY DEF Ops
  <2>2. Append(writes, <<"UPDATE", e>>) \in Seq(Ops)
    BY <2>1, <1>0, ElementsOfAppend
  <2> QED BY <1>0, <1>2, <2>2 DEF Process, Ops
<1>3. CASE Write
  <2>1. Head(writes) \in Ops /\ Tail(writes) \in Seq(Ops)
    BY <1>0, <1>3, ElementsOfTail DEF Write
  <2>2. rows' \in [Events -> {"none", "PENDING", "PROCESSED", "CORRUPTED"}]
    BY <1>3, <2>1, WrittenType DEF Write
  <2> QED BY <1>3, <2>1, <2>2 DEF Write, Ops
<1>4. CASE WriteFails
  <2>1. Head(writes) \in Ops /\ Tail(writes) \in Seq(Ops)
    BY <1>0, <1>4, ElementsOfTail DEF WriteFails
  <2> QED BY <1>4, <2>1 DEF WriteFails, Ops
<1>5. CASE Consume
  <2>1. Head(queue) \in Events /\ Tail(queue) \in Seq(Events)
    BY <1>5, ElementsOfTail DEF Consume
  <2> QED BY <1>5, <2>1 DEF Consume
<1>6. CASE Start
  <2> DEFINE C == SetToSeq({<<"CORRUPT", e>> : e \in {f \in PendingRows : Corrupt(f)}})
  <2>1. queue' = queue /\ writes' = writes \o C
    BY <1>6, RecoveryTypes, ConcatEmptySeq DEF Start
  <2>2. C \in Seq({"CORRUPT"} \X Unrevived)
    BY RecoveryTypes
  <2>3. {"CORRUPT"} \X Unrevived \subseteq Ops
    BY DEF Ops, Events, Unrevived
  <2>4. C \in Seq(Ops)
    BY <2>2, <2>3, SeqMonotonic
  <2>5. writes' \in Seq(Ops)
    BY <1>0, <2>1, <2>4, ConcatProperties
  <2> QED BY <1>6, <2>1, <2>5 DEF Start, Ops
<1>7. UnderWay \subseteq Events
  <2>1. ToSet(queue) \subseteq Events /\ ToSet(writes) \subseteq Ops
    BY <1>0, LenProperties DEF ToSet
  <2> QED BY <2>1 DEF UnderWay, Ops
<1>8. CASE Stop
  BY <1>7, <1>8 DEF Stop, UnderWay
<1>9. CASE StopEnds
  BY <1>7, <1>9, EmptySeq DEF StopEnds, Purged
<1>10. CASE Restart
  BY <1>7, <1>10, EmptySeq, BusAssumption DEF Restart
<1>11. CASE UNCHANGED vars
  BY <1>11 DEF vars
<1> QED BY <1>1, <1>2, <1>3, <1>4, <1>5, <1>6, <1>8, <1>9, <1>10, <1>11 DEF Next

(* Every variable of the bus keeps its type.                               *)
THEOREM TypeCorrect == Spec => []TypeOK
  BY TypeInit, TypeStep, PTL DEF Spec

-----------------------------------------------------------------------------
(* What the actions do to the elements of the two queues.                  *)

LEMMA PublishEffect ==
  ASSUME TypeOK, NEW e \in Events, Publish(e)
  PROVE  /\ ToSet(writes') =
              ToSet(writes) \cup (IF e \in Critical THEN {<<"INSERT", e>>} ELSE {})
         /\ \/ ToSet(queue') = ToSet(queue) \cup {e} /\ shed' = shed
            \/ ToSet(queue') = ToSet(queue) /\ (e \in shed' \/ e \in Slotted) /\ shed \subseteq shed'
<1>1. writes \in Seq(Ops) /\ queue \in Seq(Events) /\ <<"INSERT", e>> \in Ops
  BY DEF TypeOK, Ops
<1>2. /\ ToSet(Append(writes, <<"INSERT", e>>)) = ToSet(writes) \cup {<<"INSERT", e>>}
      /\ ToSet(Append(queue, e)) = ToSet(queue) \cup {e}
  BY <1>1, ElementsOfAppend
<1> QED BY <1>2 DEF Publish, Critical, Marks

LEMMA ProcessEffect ==
  ASSUME TypeOK, NEW e \in Events, Process(e)
  PROVE  ToSet(writes') =
           ToSet(writes) \cup (IF e \in Signals THEN {<<"UPDATE", e>>} ELSE {})
<1>1. writes \in Seq(Ops) /\ <<"UPDATE", e>> \in Ops
  BY DEF TypeOK, Ops
<1>2. ToSet(Append(writes, <<"UPDATE", e>>)) = ToSet(writes) \cup {<<"UPDATE", e>>}
  BY <1>1, ElementsOfAppend
<1> QED BY <1>2 DEF Process

LEMMA WriteEffect ==
  ASSUME TypeOK, Write \/ WriteFails
  PROVE  /\ Head(writes) \in Ops
         /\ ToSet(writes) = {Head(writes)} \cup ToSet(writes')
  BY ElementsOfTail DEF TypeOK, Ops, Write, WriteFails

LEMMA ConsumeEffect ==
  ASSUME TypeOK, Consume
  PROVE  /\ Head(queue) \in Events
         /\ ToSet(queue) = {Head(queue)} \cup ToSet(queue')
  BY ElementsOfTail DEF TypeOK, Consume

LEMMA StartEffect ==
  ASSUME TypeOK, Start
  PROVE  /\ queue' = queue
         /\ ToSet(writes) \subseteq ToSet(writes')
         /\ ToSet(writes') \subseteq ToSet(writes) \cup ({"CORRUPT"} \X Unrevived)
<1> DEFINE C == SetToSeq({<<"CORRUPT", e>> : e \in {f \in PendingRows : Corrupt(f)}})
<1>1. queue' = queue /\ writes' = writes \o C
  BY RecoveryTypes, ConcatEmptySeq DEF Start, TypeOK
<1>2. C \in Seq({"CORRUPT"} \X Unrevived)
  BY RecoveryTypes
<1>3. C \in Seq(Ops)
  BY <1>2, SeqMonotonic, {"CORRUPT"} \X Unrevived \subseteq Ops DEF Ops, Events, Unrevived
<1>4. ToSet(writes') = ToSet(writes) \cup ToSet(C)
  <2>1. writes \in Seq(Ops)
    BY DEF TypeOK, Ops
  <2> HIDE DEF C
  <2>2. ToSet(writes \o C) = ToSet(writes) \cup ToSet(C)
    BY <2>1, <1>3, ElementsOfConcat
  <2> QED BY <1>1, <2>2
<1>5. ToSet(C) \subseteq {"CORRUPT"} \X Unrevived
  BY <1>2, LenProperties DEF ToSet
<1> QED BY <1>1, <1>4, <1>5

LEMMA NothingLeft == ToSet(<<>>) = {}
  BY DEF ToSet

-----------------------------------------------------------------------------
(* Acknowledgement only after delivery.                                    *)

LEMMA AckInit == Init => NotAcknowledgedUnhandled
  BY NothingLeft DEF Init, NotAcknowledgedUnhandled

LEMMA AckStep == TypeOK /\ NotAcknowledgedUnhandled /\ [Next]_vars => NotAcknowledgedUnhandled'
<1> SUFFICES ASSUME TypeOK, NotAcknowledgedUnhandled, [Next]_vars,
                    NEW e \in Events,
                    (rows[e] = "PROCESSED" \/ <<"UPDATE", e>> \in ToSet(writes))'
             PROVE  handled'[e] > 0
  BY DEF NotAcknowledgedUnhandled
<1>0. handled \in [Events -> Nat] /\ rows \in [Events -> {"none", "PENDING", "PROCESSED", "CORRUPTED"}]
  BY DEF TypeOK
<1>1. rows[e] = "PROCESSED" \/ <<"UPDATE", e>> \in ToSet(writes) => handled[e] > 0
  BY DEF NotAcknowledgedUnhandled
<1>2. ASSUME NEW f \in Events, Publish(f) PROVE handled'[e] > 0
  BY <1>1, <1>2, PublishEffect DEF Publish
<1>3. ASSUME NEW f \in Events, Process(f) PROVE handled'[e] > 0
  <2>1. handled'[e] = IF e = f THEN handled[e] + 1 ELSE handled[e]
    BY <1>0, <1>3 DEF Process
  <2>2. e # f => rows'[e] = rows[e] /\ <<"UPDATE", e>> \notin ToSet(writes') \ ToSet(writes)
    <3>1. rows' = rows
      BY <1>3 DEF Process
    <3>2. ToSet(writes') \subseteq ToSet(writes) \cup {<<"UPDATE", f>>}
      BY <1>3, ProcessEffect, Zenon
    <3> QED BY <3>1, <3>2
  <2>3. handled[e] \in Nat
    BY <1>0
  <2>4. CASE e = f
    BY <2>1, <2>3, <2>4
  <2>5. CASE e # f
    BY <1>1, <2>1, <2>2, <2>5
  <2> QED BY <2>4, <2>5
<1>4. CASE Write
  BY <1>0, <1>1, <1>4, WriteEffect DEF Write, Written, Ops
<1>5. CASE WriteFails
  BY <1>1, <1>5, WriteEffect DEF WriteFails
<1>6. CASE Consume
  BY <1>1, <1>6 DEF Consume
<1>7. CASE Start
  BY <1>1, <1>7, StartEffect DEF Start
<1>8. CASE Stop
  BY <1>1, <1>8 DEF Stop
<1>9. CASE StopEnds
  BY <1>1, <1>9 DEF StopEnds, Purged
<1>10. CASE Restart
  BY <1>1, <1>10, NothingLeft DEF Restart
<1>11. CASE UNCHANGED vars
  BY <1>1, <1>11 DEF vars
<1> QED BY <1>2, <1>3, <1>4, <1>5, <1>6, <1>7, <1>8, <1>9, <1>10, <1>11 DEF Next

(* No row is marked PROCESSED, nor about to be, before the handlers of its *)
(* event have run: not after a crash, not by the recovery.                 *)
THEOREM AcknowledgedOnlyDelivered == Spec => []NotAcknowledgedUnhandled
  BY TypeCorrect, AckInit, AckStep, PTL DEF Spec

-----------------------------------------------------------------------------
(* Nothing vanishes.  NothingVanishes is not inductive: nothing in it says *)
(* that an event is in one place at a time, nor that the UPDATE of a row   *)
(* comes behind its INSERT in the queue of the writer.                     *)

(* Of an event that was not published there is no trace.                   *)
Untouched(e) ==
  /\ handled[e] = 0 /\ rows[e] = "none"
  /\ e \notin ToSet(queue) \cup tasks
  /\ \A op \in ToSet(writes) : op[2] # e

Fresh == \A e \in Events \ published : Untouched(e)

(* Only critical events have rows, and only slotted ones are corrupted.    *)
RowsByClass ==
  /\ \A e \in Plain : rows[e] = "none"
  /\ \A e \in Signals : rows[e] # "CORRUPTED"
  /\ \A op \in ToSet(writes) :
       op[2] \in Critical /\ (op[1] = "CORRUPT" => op[2] \in Slotted)

(* An event is in the queue, or with a task, or handled, and never twice.  *)
Once ==
  /\ \A i, j \in DOMAIN queue : queue[i] = queue[j] => i = j
  /\ \A e \in ToSet(queue) : e \notin tasks /\ handled[e] = 0
  /\ \A e \in tasks : handled[e] = 0
  /\ \A e \in Events : handled[e] \in {0, 1}

(* What was published is on its way, handled, or accounted for.            *)
Delivered ==
  \A e \in (Signals \cup Plain) \cap published :
    e \in shed \cup cut \cup ToSet(queue) \cup tasks \/ handled[e] = 1

(* The writer meets the INSERT of a row before its UPDATE.                 *)
Ordered ==
  \A e \in Signals, i, j \in DOMAIN writes :
    writes[i] = <<"INSERT", e>> /\ writes[j] = <<"UPDATE", e>> => i < j

(* A handled event whose row is or will be PENDING has its UPDATE queued.  *)
Owed ==
  \A e \in Signals \ cut :
    handled[e] = 1 /\ (rows[e] = "PENDING" \/ <<"INSERT", e>> \in ToSet(writes))
      => <<"UPDATE", e>> \in ToSet(writes)

BusInv ==
  /\ TypeOK /\ NotAcknowledgedUnhandled
  /\ Fresh /\ RowsByClass /\ Once /\ Delivered /\ Ordered /\ Owed

LEMMA BusInit == Init => BusInv
<1> SUFFICES ASSUME Init PROVE BusInv
  OBVIOUS
<1>1. TypeOK /\ NotAcknowledgedUnhandled
  BY TypeInit, AckInit
<1>2. ToSet(queue) = {} /\ ToSet(writes) = {} /\ DOMAIN queue = {} /\ DOMAIN writes = {}
  BY NothingLeft, EmptySeq, LenProperties DEF Init
<1>3. /\ published = {} /\ tasks = {}
      /\ \A e \in Events : rows[e] = "none" /\ handled[e] = 0
  BY DEF Init
<1>4. Fresh /\ RowsByClass /\ Once
  BY <1>2, <1>3 DEF Fresh, Untouched, RowsByClass, Once, Events
<1>5. Delivered /\ Ordered /\ Owed
  BY <1>2, <1>3 DEF Delivered, Ordered, Owed, Events
<1> QED BY <1>1, <1>4, <1>5 DEF BusInv

LEMMA FreshStep == TypeOK /\ Fresh /\ RowsByClass /\ [Next]_vars => Fresh'
<1> SUFFICES ASSUME TypeOK, Fresh, RowsByClass, [Next]_vars,
                    NEW e \in Events, e \notin published'
             PROVE  Untouched(e)'
  BY DEF Fresh
<1>0. /\ handled \in [Events -> Nat]
      /\ rows \in [Events -> {"none", "PENDING", "PROCESSED", "CORRUPTED"}]
  BY DEF TypeOK
<1>1. e \notin published => Untouched(e)
  BY DEF Fresh
<1> USE DEF Untouched
<1>2. ASSUME NEW f \in Events, Publish(f) PROVE Untouched(e)'
  <2>1. e # f /\ e \notin published
    BY <1>2 DEF Publish
  <2>2. handled'[e] = 0 /\ rows'[e] = "none" /\ e \notin tasks'
    BY <1>1, <1>2, <2>1 DEF Publish
  <2>3. e \notin ToSet(queue')
    BY <1>1, <1>2, <2>1, PublishEffect
  <2>4. \A op \in ToSet(writes') : op[2] # e
    <3>1. ToSet(writes') \subseteq ToSet(writes) \cup {<<"INSERT", f>>}
      BY <1>2, PublishEffect
    <3>2. <<"INSERT", f>>[2] = f
      OBVIOUS
    <3> QED BY <1>1, <2>1, <3>1, <3>2
  <2> QED BY <2>2, <2>3, <2>4
<1>3. ASSUME NEW f \in Events, Process(f) PROVE Untouched(e)'
  <2>1. e # f
    BY <1>1, <1>3 DEF Process
  <2>2. \A op \in ToSet(writes') : op[2] # e
    <3>1. ToSet(writes') \subseteq ToSet(writes) \cup {<<"UPDATE", f>>}
      BY <1>3, ProcessEffect, Zenon
    <3>2. \A op \in ToSet(writes) : op[2] # e
      BY <1>1, <1>3 DEF Process
    <3> QED BY <2>1, <3>1, <3>2
  <2> QED BY <1>0, <1>1, <1>3, <2>1, <2>2 DEF Process
<1>4. CASE Write
  BY <1>0, <1>1, <1>4, WriteEffect DEF Write, Written, Ops
<1>5. CASE WriteFails
  BY <1>1, <1>5, WriteEffect DEF WriteFails
<1>6. CASE Consume
  BY <1>1, <1>6, ConsumeEffect DEF Consume
<1>7. CASE Start
  <2>1. \A op \in ToSet(writes') : op[2] # e
    <3>1. e \notin Unrevived
      BY <1>1, <1>7 DEF Start, Unrevived, PendingRows
    <3> QED BY <1>1, <1>7, <3>1, StartEffect DEF Start
  <2> QED BY <1>1, <1>7, <2>1, StartEffect DEF Start
<1>8. CASE Stop
  BY <1>1, <1>8 DEF Stop
<1>9. CASE StopEnds
  BY <1>1, <1>9, NothingLeft DEF StopEnds, Purged
<1>10. CASE Restart
  BY <1>1, <1>10, NothingLeft DEF Restart
<1>11. CASE UNCHANGED vars
  BY <1>1, <1>11 DEF vars
<1> QED BY <1>2, <1>3, <1>4, <1>5, <1>6, <1>7, <1>8, <1>9, <1>10, <1>11 DEF Next

LEMMA RowsStep == TypeOK /\ RowsByClass /\ [Next]_vars => RowsByClass'
<1> SUFFICES ASSUME TypeOK, RowsByClass, [Next]_vars PROVE RowsByClass'
  OBVIOUS
<1>0. /\ rows \in [Events -> {"none", "PENDING", "PROCESSED", "CORRUPTED"}]
      /\ \A e \in Signals \cup Plain \cup Slotted : e \in Events
      /\ \A e \in Plain : e \notin Critical
      /\ \A e \in Signals : e \in Critical /\ e \notin Slotted
      /\ \A e \in Slotted : e \in Critical
  BY BusAssumption DEF TypeOK, Events, Critical
<1>1. /\ \A e \in Plain : rows[e] = "none"
      /\ \A e \in Signals : rows[e] # "CORRUPTED"
      /\ \A op \in ToSet(writes) :
           op[2] \in Critical /\ (op[1] = "CORRUPT" => op[2] \in Slotted)
  BY DEF RowsByClass
<1> USE DEF RowsByClass
<1>2. ASSUME NEW f \in Events, Publish(f) PROVE RowsByClass'
  BY <1>1, <1>2, PublishEffect DEF Publish
<1>3. ASSUME NEW f \in Events, Process(f) PROVE RowsByClass'
  <2>1. ToSet(writes') \subseteq ToSet(writes) \cup {<<"UPDATE", g>> : g \in {f} \cap Signals}
    BY <1>3, ProcessEffect
  <2>2. rows' = rows
    BY <1>3 DEF Process
  <2> QED BY <1>0, <1>1, <2>1, <2>2
<1>4. CASE Write
  <2>1. Head(writes) \in ToSet(writes) /\ ToSet(writes') \subseteq ToSet(writes)
    BY <1>4, WriteEffect
  <2>2. Head(writes)[2] \in Critical /\ (Head(writes)[1] = "CORRUPT" => Head(writes)[2] \in Slotted)
    BY <1>1, <2>1
  <2>3. rows' = [rows EXCEPT ![Head(writes)[2]] = Written(Head(writes)[1], @)]
    BY <1>4 DEF Write
  <2>4. \A e \in Plain : rows'[e] = "none"
    BY <1>0, <1>1, <2>2, <2>3
  <2>5. \A e \in Signals : rows'[e] # "CORRUPTED"
    BY <1>0, <1>1, <2>2, <2>3 DEF Written
  <2> QED BY <1>1, <2>1, <2>4, <2>5
<1>5. CASE WriteFails
  BY <1>1, <1>5, WriteEffect DEF WriteFails
<1>6. CASE Consume
  BY <1>1, <1>6 DEF Consume
<1>7. CASE Start
  <2>1. \A op \in {"CORRUPT"} \X Unrevived : op[2] \in Slotted /\ op[2] \in Critical
    BY DEF Unrevived, Critical
  <2> QED BY <1>1, <1>7, <2>1, StartEffect DEF Start
<1>8. CASE Stop
  BY <1>1, <1>8 DEF Stop
<1>9. CASE StopEnds
  BY <1>0, <1>1, <1>9, NothingLeft DEF StopEnds, Purged
<1>10. CASE Restart
  BY <1>1, <1>10, NothingLeft DEF Restart
<1>11. CASE UNCHANGED vars
  BY <1>1, <1>11 DEF vars
<1> QED BY <1>2, <1>3, <1>4, <1>5, <1>6, <1>7, <1>8, <1>9, <1>10, <1>11 DEF Next

LEMMA OnceStep == TypeOK /\ Fresh /\ Once /\ [Next]_vars => Once'
<1> SUFFICES ASSUME TypeOK, Fresh, Once, [Next]_vars PROVE Once'
  OBVIOUS
<1>0. queue \in Seq(Events) /\ tasks \subseteq Events /\ handled \in [Events -> Nat]
  BY DEF TypeOK
<1>1. /\ \A i, j \in DOMAIN queue : queue[i] = queue[j] => i = j
      /\ \A e \in ToSet(queue) : e \notin tasks /\ handled[e] = 0
      /\ \A e \in tasks : handled[e] = 0
      /\ \A e \in Events : handled[e] \in {0, 1}
  BY DEF Once
<1>2. ASSUME NEW f \in Events, Publish(f) PROVE Once'
  <2>1. handled[f] = 0 /\ f \notin ToSet(queue) /\ f \notin tasks
    BY <1>2 DEF Publish, Fresh, Untouched
  <2>2. UNCHANGED <<tasks, handled>> /\ queue' \in {queue, Append(queue, f)}
    BY <1>2 DEF Publish
  <2>3. \A i, j \in DOMAIN queue' : queue'[i] = queue'[j] => i = j
    <3>1. CASE queue' = queue
      BY <1>1, <3>1
    <3>2. CASE queue' = Append(queue, f)
      <4> SUFFICES ASSUME NEW i \in DOMAIN Append(queue, f), NEW j \in DOMAIN Append(queue, f),
                          Append(queue, f)[i] = Append(queue, f)[j]
                   PROVE  i = j
        BY <3>2
      <4>1. \A k \in DOMAIN queue : queue[k] # f
        BY <2>1 DEF ToSet
      <4> QED BY <1>0, <1>1, <4>1, PositionsOfAppend
    <3> QED BY <2>2, <3>1, <3>2
  <2>4. ToSet(queue') \subseteq ToSet(queue) \cup {f}
    BY <1>2, PublishEffect
  <2> QED BY <1>1, <2>1, <2>2, <2>3, <2>4 DEF Once
<1>3. ASSUME NEW f \in Events, Process(f) PROVE Once'
  <2>1. f \in tasks /\ tasks' = tasks \ {f} /\ queue' = queue
    BY <1>3 DEF Process
  <2>2. \A e \in Events : handled'[e] = IF e = f THEN handled[e] + 1 ELSE handled[e]
    BY <1>0, <1>3 DEF Process
  <2>3. ToSet(queue) \subseteq Events
    BY <1>0, LenProperties DEF ToSet
  <2>4. handled'[f] = 1
    BY <1>1, <2>1, <2>2
  <2>5. \A e \in Events : handled'[e] \in {0, 1}
    BY <1>1, <2>2, <2>4
  <2> QED BY <1>0, <1>1, <2>1, <2>2, <2>3, <2>5 DEF Once
<1>4. CASE Consume
  <2>1. /\ queue # <<>> /\ queue' = Tail(queue) /\ tasks' = tasks \cup {Head(queue)}
        /\ handled' = handled
    BY <1>4 DEF Consume
  <2>2. ToSet(queue) = {Head(queue)} \cup ToSet(queue')
    BY <1>4, ConsumeEffect
  <2>3. \A i \in DOMAIN queue' :
          i \in Nat /\ i + 1 \in DOMAIN queue /\ queue'[i] = queue[i + 1]
    BY <1>0, <2>1, PositionsOfTail
  <2>4. 1 \in DOMAIN queue /\ Head(queue) = queue[1] /\ DOMAIN queue' \subseteq Nat \ {0}
    BY <1>0, <2>1, LenProperties, EmptySeq, HeadTailProperties
  <2>5. Head(queue) \notin ToSet(queue')
    <3> SUFFICES ASSUME NEW i \in DOMAIN queue', queue'[i] = Head(queue) PROVE FALSE
      BY DEF ToSet
    <3>1. i + 1 = 1
      BY <1>1, <2>3, <2>4
    <3> QED BY <2>4, <3>1
  <2>6. \A i, j \in DOMAIN queue' : queue'[i] = queue'[j] => i = j
    BY <1>1, <2>3
  <2> QED BY <1>1, <2>1, <2>2, <2>5, <2>6 DEF Once
<1>5. CASE Start
  BY <1>1, <1>5, StartEffect DEF Start, Once
<1>6. CASE StopEnds \/ Restart
  <2>1. queue' = <<>> /\ tasks' = {} /\ handled' = handled
    BY <1>6 DEF StopEnds, Restart
  <2>2. DOMAIN queue' = {}
    BY <2>1
  <2> QED BY <1>1, <2>1, <2>2, NothingLeft DEF Once
<1>7. CASE UNCHANGED <<queue, tasks, handled>>
  BY <1>1, <1>7 DEF Once
<1> QED BY <1>2, <1>3, <1>4, <1>5, <1>6, <1>7 DEF Next, Write, WriteFails, Stop, vars

LEMMA DeliveredStep == TypeOK /\ Once /\ Delivered /\ [Next]_vars => Delivered'
<1> SUFFICES ASSUME TypeOK, Once, Delivered, [Next]_vars,
                    NEW e \in Signals \cup Plain, e \in published'
             PROVE  (e \in shed \cup cut \cup ToSet(queue) \cup tasks \/ handled[e] = 1)'
  BY DEF Delivered
<1> DEFINE Here == e \in shed \cup cut \cup ToSet(queue) \cup tasks \/ handled[e] = 1
<1>0. e \in Events /\ e \notin Slotted /\ handled \in [Events -> Nat]
  BY BusAssumption DEF Events, TypeOK
<1>1. e \in published => Here
  BY DEF Delivered
<1>2. ASSUME NEW f \in Events, Publish(f) PROVE Here'
  BY <1>0, <1>1, <1>2, PublishEffect DEF Publish
<1>3. ASSUME NEW f \in Events, Process(f) PROVE Here'
  <2>1. f \in tasks /\ UNCHANGED <<shed, cut, queue, published>> /\ tasks' = tasks \ {f}
    BY <1>3 DEF Process
  <2>2. handled'[e] = IF e = f THEN handled[e] + 1 ELSE handled[e]
    BY <1>0, <1>3 DEF Process
  <2>3. handled[f] = 0
    BY <2>1 DEF Once
  <2> QED BY <1>1, <2>1, <2>2, <2>3
<1>4. CASE Consume
  BY <1>1, <1>4, ConsumeEffect DEF Consume
<1>5. CASE Start
  BY <1>1, <1>5, StartEffect DEF Start
<1>6. CASE StopEnds \/ Restart
  BY <1>1, <1>6 DEF StopEnds, Restart, UnderWay
<1>7. CASE Write \/ WriteFails \/ Stop \/ UNCHANGED vars
  BY <1>1, <1>7 DEF Write, WriteFails, Stop, vars
<1> QED BY <1>2, <1>3, <1>4, <1>5, <1>6, <1>7 DEF Next

LEMMA OrderedStep ==
  TypeOK /\ NotAcknowledgedUnhandled /\ Fresh /\ Ordered /\ [Next]_vars => Ordered'
<1> SUFFICES ASSUME TypeOK, NotAcknowledgedUnhandled, Fresh, Ordered, [Next]_vars,
                    NEW e \in Signals, NEW i \in DOMAIN writes', NEW j \in DOMAIN writes',
                    writes'[i] = <<"INSERT", e>>, writes'[j] = <<"UPDATE", e>>
             PROVE  i < j
  BY DEF Ordered
<1>0. /\ writes \in Seq(Ops) /\ DOMAIN writes = 1 .. Len(writes) /\ Len(writes) \in Nat
      /\ e \in Events
  BY LenProperties DEF TypeOK, Ops, Events
<1>1. \A k, l \in DOMAIN writes :
        writes[k] = <<"INSERT", e>> /\ writes[l] = <<"UPDATE", e>> => k < l
  BY DEF Ordered
<1>2. ASSUME NEW f \in Events, Publish(f) PROVE i < j
  <2>1. f \notin published /\ writes' \in {writes, Append(writes, <<"INSERT", f>>)}
    BY <1>2 DEF Publish
  <2>2. handled[f] = 0
    BY <2>1 DEF Fresh, Untouched
  <2>3. \A k \in DOMAIN writes : writes[k] # <<"UPDATE", f>>
    BY <2>2 DEF NotAcknowledgedUnhandled, ToSet
  <2>4. CASE writes' = writes
    BY <1>1, <2>4
  <2>5. CASE writes' = Append(writes, <<"INSERT", f>>)
    <3>1. <<"INSERT", f>> \in Ops /\ <<"INSERT", f>> # <<"UPDATE", e>>
      BY DEF Ops
    <3>2. \A k \in DOMAIN writes' : \/ k \in DOMAIN writes /\ writes'[k] = writes[k]
                                    \/ k = Len(writes) + 1 /\ writes'[k] = <<"INSERT", f>>
      BY <1>0, <2>5, <3>1, PositionsOfAppend
    <3>3. j \in DOMAIN writes /\ writes[j] = <<"UPDATE", e>>
      BY <3>1, <3>2
    <3>4. e # f
      BY <2>3, <3>3
    <3>5. i \in DOMAIN writes /\ writes[i] = <<"INSERT", e>>
      BY <3>2, <3>4
    <3> QED BY <1>1, <3>3, <3>5
  <2> QED BY <2>1, <2>4, <2>5
<1>3. ASSUME NEW f \in Events, Process(f) PROVE i < j
  <2>1. writes' \in {writes, Append(writes, <<"UPDATE", f>>)}
    BY <1>3 DEF Process
  <2>2. CASE writes' = writes
    BY <1>1, <2>2
  <2>3. CASE writes' = Append(writes, <<"UPDATE", f>>)
    <3>1. <<"UPDATE", f>> \in Ops /\ <<"UPDATE", f>> # <<"INSERT", e>>
      BY DEF Ops
    <3>2. \A k \in DOMAIN writes' : \/ k \in DOMAIN writes /\ writes'[k] = writes[k]
                                    \/ k = Len(writes) + 1 /\ writes'[k] = <<"UPDATE", f>>
      BY <1>0, <2>3, <3>1, PositionsOfAppend
    <3>3. i \in DOMAIN writes /\ writes[i] = <<"INSERT", e>>
      BY <3>1, <3>2
    <3> QED BY <1>0, <1>1, <3>2, <3>3
  <2> QED BY <2>1, <2>2, <2>3
<1>4. CASE Write \/ WriteFails
  <2>1. writes # <<>> /\ writes' = Tail(writes)
    BY <1>4 DEF Write, WriteFails
  <2>2. \A k \in DOMAIN writes' :
          k \in Nat /\ k + 1 \in DOMAIN writes /\ writes'[k] = writes[k + 1]
    BY <1>0, <2>1, PositionsOfTail
  <2>3. i + 1 < j + 1
    BY <1>1, <2>2
  <2> QED BY <2>2, <2>3
<1>5. CASE Start
  <2> DEFINE C == SetToSeq({<<"CORRUPT", f>> : f \in {g \in PendingRows : Corrupt(g)}})
  <2>1. writes' = writes \o C
    BY <1>5 DEF Start
  <2>2. C \in Seq(Ops) /\ ToSet(C) \subseteq {"CORRUPT"} \X Unrevived
    <3>1. C \in Seq({"CORRUPT"} \X Unrevived)
      BY RecoveryTypes
    <3>2. {"CORRUPT"} \X Unrevived \subseteq Ops
      BY DEF Ops, Events, Unrevived
    <3> HIDE DEF C
    <3>3. ToSet(C) \subseteq {"CORRUPT"} \X Unrevived
      BY <3>1, LenProperties DEF ToSet
    <3> QED BY <3>1, <3>2, <3>3, SeqMonotonic
  <2> HIDE DEF C
  <2>3. \A k \in DOMAIN writes' :
          (k \in DOMAIN writes /\ writes'[k] = writes[k]) \/ writes'[k] \in ToSet(C)
    BY <1>0, <2>1, <2>2, PositionsOfConcat
  <2>4. <<"INSERT", e>> \notin ToSet(C) /\ <<"UPDATE", e>> \notin ToSet(C)
    BY <2>2
  <2> QED BY <1>1, <2>3, <2>4
<1>6. CASE Restart
  BY <1>6, EmptySeq, LenProperties DEF Restart
<1>7. CASE UNCHANGED writes
  BY <1>1, <1>7
<1> QED BY <1>2, <1>3, <1>4, <1>5, <1>6, <1>7 DEF Next, Consume, Stop, StopEnds, vars

LEMMA OwedStep ==
  ASSUME BusInv, [Next]_vars
  PROVE  Owed'
<1> SUFFICES ASSUME NEW e \in Signals, e \notin cut', handled'[e] = 1,
                    rows'[e] = "PENDING" \/ <<"INSERT", e>> \in ToSet(writes')
             PROVE  <<"UPDATE", e>> \in ToSet(writes')
  BY DEF Owed
<1>0. /\ TypeOK /\ Fresh /\ Ordered /\ e \in Events
      /\ handled \in [Events -> Nat]
      /\ rows \in [Events -> {"none", "PENDING", "PROCESSED", "CORRUPTED"}]
      /\ writes \in Seq(Ops)
  BY DEF BusInv, TypeOK, Events, Ops
<1>1. /\ e \notin cut /\ handled[e] = 1
      /\ rows[e] = "PENDING" \/ <<"INSERT", e>> \in ToSet(writes)
      => <<"UPDATE", e>> \in ToSet(writes)
  BY DEF BusInv, Owed
<1>2. ASSUME NEW f \in Events, Publish(f) PROVE <<"UPDATE", e>> \in ToSet(writes')
  <2>1. UNCHANGED <<cut, handled, rows>> /\ f \notin published
    BY <1>2 DEF Publish
  <2>2. handled[f] = 0
    BY <1>0, <2>1 DEF Fresh, Untouched
  <2>3. e # f
    BY <2>1, <2>2
  <2> QED BY <1>0, <1>1, <1>2, <2>1, <2>3, PublishEffect
<1>3. ASSUME NEW f \in Events, Process(f) PROVE <<"UPDATE", e>> \in ToSet(writes')
  <2>1. ToSet(writes') = ToSet(writes) \cup (IF f \in Signals THEN {<<"UPDATE", f>>} ELSE {})
    BY <1>0, <1>3, ProcessEffect
  <2>2. UNCHANGED <<cut, rows>>
    BY <1>3 DEF Process
  <2>3. CASE e = f
    BY <2>1, <2>3
  <2>4. CASE e # f
    <3>1. handled[e] = 1
      BY <1>0, <1>3, <2>4 DEF Process
    <3>2. <<"INSERT", e>> \in ToSet(writes') => <<"INSERT", e>> \in ToSet(writes)
      BY <2>1
    <3> QED BY <1>1, <2>1, <2>2, <3>1, <3>2
  <2> QED BY <2>3, <2>4
<1>4. CASE Write \/ WriteFails
  <2>1. /\ writes # <<>> /\ writes' = Tail(writes) /\ handled' = handled
        /\ Head(writes) \in Ops /\ ToSet(writes) = {Head(writes)} \cup ToSet(writes')
        /\ cut \subseteq cut'
    BY <1>0, <1>4, WriteEffect DEF Write, WriteFails
  <2>2. rows[e] = "PENDING" \/ <<"INSERT", e>> \in ToSet(writes)
    BY <1>0, <1>4, <2>1 DEF Write, WriteFails, Written, Ops
  <2>3. <<"UPDATE", e>> \in ToSet(writes)
    BY <1>1, <2>1, <2>2
  <2>4. CASE Head(writes) = <<"UPDATE", e>>
    <3>1. CASE WriteFails
      BY <2>4, <3>1 DEF WriteFails
    <3>2. CASE Write
      <4>1. rows'[e] # "PENDING"
        BY <1>0, <2>4, <3>2 DEF Write, Written
      <4>2. PICK i \in DOMAIN writes' : writes'[i] = <<"INSERT", e>>
        BY <4>1 DEF ToSet
      <4>3. i \in Nat /\ i + 1 \in DOMAIN writes /\ writes[i + 1] = <<"INSERT", e>>
        BY <1>0, <2>1, <4>2, PositionsOfTail
      <4>4. 1 \in DOMAIN writes /\ writes[1] = <<"UPDATE", e>>
        BY <1>0, <2>1, <2>4, LenProperties, EmptySeq
      <4>5. i + 1 < 1
        BY <1>0, <4>3, <4>4 DEF Ordered
      <4> QED BY <4>3, <4>5
    <3> QED BY <1>4, <3>1, <3>2
  <2> QED BY <2>1, <2>3, <2>4
<1>5. CASE Start
  <2>1. UNCHANGED <<cut, handled, rows>>
    BY <1>5 DEF Start
  <2>2. /\ ToSet(writes) \subseteq ToSet(writes')
        /\ <<"INSERT", e>> \in ToSet(writes') => <<"INSERT", e>> \in ToSet(writes)
    BY <1>0, <1>5, StartEffect
  <2> QED BY <1>1, <2>1, <2>2
<1>6. CASE StopEnds
  BY <1>0, <1>1, <1>6 DEF StopEnds, Purged
<1>7. CASE Restart
  <2>1. ToSet(writes') = {} /\ rows'[e] = rows[e] /\ handled'[e] = handled[e]
    BY <1>7, NothingLeft DEF Restart
  <2>2. e \notin cut /\ e \notin UnderWay
    BY <1>7 DEF Restart
  <2>3. <<"UPDATE", e>> \notin ToSet(writes)
    BY <2>2 DEF UnderWay
  <2> QED BY <1>1, <2>1, <2>2, <2>3
<1>8. CASE Consume \/ Stop \/ UNCHANGED vars
  BY <1>1, <1>8 DEF Consume, Stop, vars
<1> QED BY <1>2, <1>3, <1>4, <1>5, <1>6, <1>7, <1>8 DEF Next

LEMMA BusStep == BusInv /\ [Next]_vars => BusInv'
<1> SUFFICES ASSUME BusInv, [Next]_vars PROVE BusInv'
  OBVIOUS
<1>1. TypeOK' /\ NotAcknowledgedUnhandled'
  BY TypeStep, AckStep DEF BusInv
<1>2. Fresh' /\ RowsByClass' /\ Once' /\ Delivered' /\ Ordered'
  BY FreshStep, RowsStep, OnceStep, DeliveredStep, OrderedStep DEF BusInv
<1>3. Owed'
  BY OwedStep
<1> QED BY <1>1, <1>2, <1>3 DEF BusInv

LEMMA BusInvImplies == BusInv => NothingVanishes
<1> SUFFICES ASSUME BusInv, NEW e \in Signals \cup Plain,
                    e \in published \ (shed \cup cut \cup UnderWay)
             PROVE  handled[e] = 1 /\ rows[e] \in {"none", "PROCESSED"}
  BY DEF NothingVanishes
<1>1. e \in Events /\ e \notin ToSet(queue) \cup tasks
  BY DEF Events, UnderWay
<1>2. handled[e] = 1
  BY <1>1 DEF BusInv, Delivered
<1>3. <<"UPDATE", e>> \notin ToSet(writes)
  BY DEF UnderWay
<1>4. rows[e] # "PENDING" /\ rows[e] # "CORRUPTED"
  BY <1>1, <1>2, <1>3 DEF BusInv, Owed, RowsByClass
<1> QED BY <1>1, <1>2, <1>4 DEF BusInv, TypeOK

(* A published event that was neither shed nor cut off, and of which       *)
(* nothing is under way, was handled exactly once and its row settled: the *)
(* safety half of QueuedIsHandled.                                         *)
THEOREM PublishedIsAccounted == Spec => []NothingVanishes
  BY BusInit, BusStep, BusInvImplies, PTL DEF Spec

-----------------------------------------------------------------------------
(***************************************************************************)
(* IngestionBuffer.                                                        *)
(***************************************************************************)

-----------------------------------------------------------------------------
(* The statements in a list after each of the commands on lists.           *)

LEMMA ItemsByIndex ==
  ASSUME NEW s \in Seq(Payloads)
  PROVE  /\ ItemsOf(s) = {s[i].item : i \in 1 .. Len(s)}
         /\ ItemsOf(s) \subseteq Items
<1>1. ToSet(s) = {s[i] : i \in 1 .. Len(s)}
  BY DEF ToSet
<1>2. \A i \in 1 .. Len(s) : s[i] \in Payloads
  OBVIOUS
<1> QED BY <1>1, <1>2 DEF ItemsOf, Payloads

LEMMA ItemsOfEmpty == <<>> \in Seq(Payloads) /\ ItemsOf(<<>>) = {}
<1>1. <<>> \in Seq(Payloads) /\ 1 .. Len(<<>>) = {}
  BY EmptySeq
<1>2. ItemsOf(<<>>) = {<<>>[i].item : i \in 1 .. Len(<<>>)}
  BY <1>1, ItemsByIndex
<1> QED BY <1>1, <1>2

LEMMA ItemsOfConcat ==
  ASSUME NEW s \in Seq(Payloads), NEW t \in Seq(Payloads)
  PROVE  /\ s \o t \in Seq(Payloads)
         /\ ItemsOf(s \o t) = ItemsOf(s) \cup ItemsOf(t)
<1>1. s \o t \in Seq(Payloads) /\ Range(s \o t) = Range(s) \cup Range(t)
  BY RangeConcatenation, ConcatProperties
<1>2. ToSet(s \o t) = ToSet(s) \cup ToSet(t)
  BY <1>1 DEF Range, ToSet
<1> QED BY <1>1, <1>2 DEF ItemsOf

LEMMA ItemsOfSingle ==
  ASSUME NEW e \in Payloads
  PROVE  <<e>> \in Seq(Payloads) /\ ItemsOf(<<e>>) = {e.item}
<1>1. <<e>> \in Seq(Payloads) /\ Len(<<e>>) = 1 /\ <<e>>[1] = e
  OBVIOUS
<1>2. ItemsOf(<<e>>) = {<<e>>[i].item : i \in 1 .. Len(<<e>>)}
  BY <1>1, ItemsByIndex
<1>3. 1 .. Len(<<e>>) = {1}
  BY <1>1
<1>4. {<<e>>[i].item : i \in {1}} = {<<e>>[1].item}
  OBVIOUS
<1> QED BY <1>1, <1>2, <1>3, <1>4

LEMMA ItemsOfAppend ==
  ASSUME NEW s \in Seq(Payloads), NEW e \in Payloads
  PROVE  /\ Append(s, e) \in Seq(Payloads)
         /\ ItemsOf(Append(s, e)) = ItemsOf(s) \cup {e.item}
<1>1. Append(s, e) = s \o <<e>>
  BY AppendIsConcat
<1>2. <<e>> \in Seq(Payloads) /\ ItemsOf(<<e>>) = {e.item}
  BY ItemsOfSingle
<1>3. /\ s \o <<e>> \in Seq(Payloads)
      /\ ItemsOf(s \o <<e>>) = ItemsOf(s) \cup ItemsOf(<<e>>)
  BY <1>2, ItemsOfConcat
<1> QED BY <1>1, <1>2, <1>3

LEMMA ItemsOfTail ==
  ASSUME NEW s \in Seq(Payloads), s # <<>>
  PROVE  /\ Head(s) \in Payloads /\ Tail(s) \in Seq(Payloads)
         /\ ItemsOf(s) = {Head(s).item} \cup ItemsOf(Tail(s))
<1>1. /\ Head(s) \in Payloads /\ Tail(s) \in Seq(Payloads) /\ s = <<Head(s)>> \o Tail(s)
  BY HeadTailProperties, ConcatProperties
<1>2. <<Head(s)>> \in Seq(Payloads) /\ ItemsOf(<<Head(s)>>) = {Head(s).item}
  BY <1>1, ItemsOfSingle
<1>3. ItemsOf(<<Head(s)>> \o Tail(s)) = ItemsOf(<<Head(s)>>) \cup ItemsOf(Tail(s))
  BY <1>1, <1>2, ItemsOfConcat
<1> QED BY <1>1, <1>2, <1>3

LEMMA ItemsOfReverse ==
  ASSUME NEW s \in Seq(Payloads)
  PROVE  Reverse(s) \in Seq(Payloads) /\ ItemsOf(Reverse(s)) = ItemsOf(s)
<1> DEFINE n == Len(s)
<1>1. n \in Nat /\ \A i \in 1 .. n : n - i + 1 \in 1 .. n /\ s[i] \in Payloads
  OBVIOUS
<1>2. /\ Reverse(s) \in Seq(Payloads) /\ Len(Reverse(s)) = n
      /\ \A i \in 1 .. n : Reverse(s)[i] = s[n - i + 1]
  BY <1>1 DEF Reverse
<1>3. \A i \in 1 .. n : s[i] = Reverse(s)[n - i + 1]
  <2> TAKE i \in 1 .. n
  <2>1. n - i + 1 \in 1 .. n /\ n - (n - i + 1) + 1 = i
    BY <1>1
  <2> QED BY <1>2, <2>1
<1>4. /\ ItemsOf(s) = {s[i].item : i \in 1 .. n}
      /\ ItemsOf(Reverse(s)) = {Reverse(s)[i].item : i \in 1 .. n}
  BY <1>2, ItemsByIndex
<1> DEFINE t == Reverse(s)
<1>5. /\ \A i \in 1 .. n : t[i] = s[n - i + 1]
      /\ \A i \in 1 .. n : s[i] = t[n - i + 1]
  BY <1>2, <1>3
<1> HIDE DEF t, n
<1>6. {s[i].item : i \in 1 .. n} = {t[i].item : i \in 1 .. n}
  <2>1. \A i \in 1 .. n : s[i].item \in {t[j].item : j \in 1 .. n}
    BY <1>1, <1>5
  <2>2. \A i \in 1 .. n : t[i].item \in {s[j].item : j \in 1 .. n}
    BY <1>1, <1>5
  <2> QED BY <2>1, <2>2
<1> QED BY <1>2, <1>4, <1>6 DEF t

LEMMA LeastOf ==
  ASSUME NEW I \in SUBSET Nat, I # {}
  PROVE  Min(I) \in I
<1> DEFINE R == OpToRel(<, Nat)
<1>1. IsWellFoundedOn(R, Nat)
  BY NatLessThanWellFounded
<1>2. \A x, y \in Nat : <<x, y>> \in R <=> x < y
  BY DEF OpToRel
<1> HIDE DEF R
<1>3. PICK x \in I : \A y \in I : ~(<<y, x>> \in R)
  BY <1>1, WFMin, Zenon
<1>4. \A y \in I : ~(y < x)
  BY <1>2, <1>3, Zenon
<1>5. \A y \in I : x <= y
  BY <1>4
<1>6. \E z \in I : \A y \in I : z <= y
  BY <1>5
<1> QED BY <1>6 DEF Min

(* LREM takes out at most the entry it is given.                           *)
LEMMA ItemsOfRemoved ==
  ASSUME NEW s \in Seq(Payloads), NEW e
  PROVE  /\ RemoveFirst(s, e) \in Seq(Payloads)
         /\ ItemsOf(s) \subseteq ItemsOf(RemoveFirst(s, e)) \cup {e.item}
<1>1. CASE \E i \in 1 .. Len(s) : s[i] = e
  <2> DEFINE I == {i \in 1 .. Len(s) : s[i] = e}
             k == Min(I)
             b == SubSeq(s, 1, k - 1)
             a == SubSeq(s, k + 1, Len(s))
  <2>1. RemoveFirst(s, e) = RemoveAt(s, k)
    BY <1>1 DEF RemoveFirst, SelectInSeq
  <2>2. k \in 1 .. Len(s) /\ s[k] = e
    <3>1. I \in SUBSET Nat /\ I # {}
      BY <1>1
    <3> QED BY <3>1, LeastOf
  <2> HIDE DEF k
  <2>3. /\ b \in Seq(Payloads) /\ Len(b) = k - 1
        /\ \A i \in 1 .. k - 1 : b[i] = s[i]
    BY <2>2, SubSeqProperties
  <2>4. /\ a \in Seq(Payloads) /\ Len(a) = Len(s) - k
        /\ \A i \in 1 .. Len(s) - k : a[i] = s[k + i]
    BY <2>2, SubSeqProperties
  <2>5. RemoveAt(s, k) = b \o a
    BY DEF RemoveAt
  <2> HIDE DEF a, b
  <2>6. /\ b \o a \in Seq(Payloads)
        /\ ItemsOf(b \o a) = ItemsOf(b) \cup ItemsOf(a)
    BY <2>3, <2>4, ItemsOfConcat
  <2>7. /\ \A i \in 1 .. k - 1 : s[i].item \in ItemsOf(b)
        /\ \A i \in 1 .. Len(s) - k : s[k + i].item \in ItemsOf(a)
    BY <2>3, <2>4, ItemsByIndex
  <2>8. ASSUME NEW i \in 1 .. Len(s)
        PROVE  s[i].item \in ItemsOf(b) \cup ItemsOf(a) \cup {e.item}
    <3>1. CASE i < k
      BY <2>2, <2>7, <3>1
    <3>2. CASE i = k
      BY <2>2, <3>2
    <3>3. CASE i > k
      <4>1. i - k \in 1 .. Len(s) - k /\ k + (i - k) = i
        BY <2>2, <3>3
      <4> QED BY <2>7, <4>1
    <3> QED BY <2>2, <3>1, <3>2, <3>3
  <2> QED BY <2>1, <2>5, <2>6, <2>8, ItemsByIndex
<1>2. CASE ~\E i \in 1 .. Len(s) : s[i] = e
  BY <1>2 DEF RemoveFirst
<1> QED BY <1>1, <1>2

-----------------------------------------------------------------------------
(* What the transactions do to the lists of Redis.                         *)
Held(r) == ItemsOf(r.queue) \cup ItemsOf(r.processing) \cup r.dlq

LEMMA PushedHeld ==
  ASSUME NEW r \in RedisType, NEW e \in Payloads
  PROVE  LET q == [r EXCEPT !.queue = <<e>> \o @]
         IN q \in RedisType /\ Held(q) = Held(r) \cup {e.item}
<1> DEFINE s == <<e>> \o r.queue
           q == [r EXCEPT !.queue = s]
<1>1. s \in Seq(Payloads) /\ ItemsOf(s) = {e.item} \cup ItemsOf(r.queue)
  <2>1. r.queue \in Seq(Payloads)
    BY DEF RedisType
  <2>2. <<e>> \in Seq(Payloads) /\ ItemsOf(<<e>>) = {e.item}
    BY ItemsOfSingle
  <2> QED BY <2>1, <2>2, ItemsOfConcat
<1> HIDE DEF s
<1>2. /\ q \in RedisType
      /\ q.queue = s /\ q.processing = r.processing /\ q.dlq = r.dlq
  BY <1>1 DEF RedisType
<1>3. q = [r EXCEPT !.queue = <<e>> \o @]
  BY DEF s, RedisType
<1> HIDE DEF q
<1>4. Held(q) = Held(r) \cup {e.item}
  BY <1>1, <1>2 DEF Held
<1> QED BY <1>2, <1>3, <1>4

LEMMA MovedHeld ==
  ASSUME NEW r \in RedisType, r.queue # <<>>
  PROVE  /\ Head(r.queue) \in Payloads
         /\ Moved(r) \in RedisType /\ Held(Moved(r)) = Held(r)
<1> DEFINE e == Head(r.queue)
           s == Tail(r.queue)
           t == Append(r.processing, e)
           q == [r EXCEPT !.queue = s, !.processing = t]
<1>1. /\ e \in Payloads /\ s \in Seq(Payloads)
      /\ ItemsOf(r.queue) = {e.item} \cup ItemsOf(s)
  BY ItemsOfTail DEF RedisType
<1>2. t \in Seq(Payloads) /\ ItemsOf(t) = ItemsOf(r.processing) \cup {e.item}
  BY <1>1, ItemsOfAppend DEF RedisType
<1>3. Moved(r) = q
  BY DEF Moved, RedisType
<1> HIDE DEF e, s, t
<1>4. q \in RedisType /\ q.queue = s /\ q.processing = t /\ q.dlq = r.dlq
  BY <1>1, <1>2 DEF RedisType
<1> HIDE DEF q
<1>5. Held(q) = Held(r)
  BY <1>1, <1>2, <1>4 DEF Held
<1> QED BY <1>1, <1>3, <1>4, <1>5 DEF e

(* An acknowledgement drops at most the statement it is for, which a dead  *)
(* letter or the queue may keep.                                           *)
LEMMA RemovedHeld ==
  ASSUME NEW r \in RedisType, NEW e \in Payloads
  PROVE  LET q == [r EXCEPT !.processing = RemoveFirst(@, e)]
             d == [q EXCEPT !.dlq = @ \cup {e.item}]
         IN /\ q \in RedisType /\ Held(r) \subseteq Held(q) \cup {e.item}
            /\ d \in RedisType /\ Held(r) \subseteq Held(d)
<1> DEFINE s == RemoveFirst(r.processing, e)
           l == r.dlq \cup {e.item}
           q == [r EXCEPT !.processing = s]
           d == [q EXCEPT !.dlq = l]
<1>1. s \in Seq(Payloads) /\ ItemsOf(r.processing) \subseteq ItemsOf(s) \cup {e.item}
  BY ItemsOfRemoved DEF RedisType
<1>2. l \in SUBSET Items
  BY DEF RedisType, Payloads
<1>3. /\ [r EXCEPT !.processing = RemoveFirst(@, e)] = q
      /\ [q EXCEPT !.dlq = @ \cup {e.item}] = d
  BY DEF RedisType
<1> HIDE DEF s
<1>4. q \in RedisType /\ q.queue = r.queue /\ q.processing = s /\ q.dlq = r.dlq
  BY <1>1 DEF RedisType
<1>5. d \in RedisType /\ d.queue = r.queue /\ d.processing = s /\ d.dlq = l
  BY <1>1, <1>2 DEF RedisType
<1> HIDE DEF q, d
<1>6. Held(r) \subseteq Held(q) \cup {e.item} /\ Held(r) \subseteq Held(d)
  BY <1>1, <1>4, <1>5 DEF Held
<1> QED BY <1>3, <1>4, <1>5, <1>6

LEMMA ReclaimedHeld ==
  ASSUME NEW r \in RedisType, NEW e \in Payloads
  PROVE  Reclaimed(r, e) \in RedisType /\ Held(r) \subseteq Held(Reclaimed(r, e))
<1> DEFINE f == [e EXCEPT !.renewed = TRUE]
           q == [r EXCEPT !.processing = RemoveFirst(@, e)]
           c == [q EXCEPT !.queue = <<f>> \o @]
<1>1. f \in Payloads /\ f.item = e.item
  BY DEF Payloads
<1>2. q \in RedisType /\ Held(r) \subseteq Held(q) \cup {e.item}
  BY RemovedHeld
<1>3. Reclaimed(r, e) = c
  BY DEF Reclaimed, RedisType
<1> HIDE DEF q, f
<1>4. c \in RedisType /\ Held(c) = Held(q) \cup {f.item}
  BY <1>1, <1>2, PushedHeld
<1> QED BY <1>1, <1>2, <1>3, <1>4

LEMMA RecoveredHeld ==
  ASSUME NEW r \in RedisType
  PROVE  Recovered(r) \in RedisType /\ Held(Recovered(r)) = Held(r)
<1> DEFINE s == Reverse(r.processing) \o r.queue
           q == [r EXCEPT !.processing = <<>>, !.queue = s]
<1>1. s \in Seq(Payloads) /\ ItemsOf(s) = ItemsOf(r.processing) \cup ItemsOf(r.queue)
  BY ItemsOfReverse, ItemsOfConcat DEF RedisType
<1>2. Recovered(r) = q
  BY DEF Recovered, RedisType
<1> HIDE DEF s
<1>3. q \in RedisType /\ q.queue = s /\ q.processing = <<>> /\ q.dlq = r.dlq
  BY <1>1, EmptySeq DEF RedisType
<1> HIDE DEF q
<1>4. Held(q) = Held(r)
  BY <1>1, <1>3, ItemsOfEmpty DEF Held
<1> QED BY <1>2, <1>3, <1>4

-----------------------------------------------------------------------------
(* The lines of a file.                                                    *)

LEMMA ReadableByIndex ==
  ASSUME NEW s \in Seq(Lines)
  PROVE  /\ ReadableIn(s) \subseteq Items
         /\ \A x : x \in ReadableIn(s) <=> \E k \in 1 .. Len(s) : Readable(s[k]) /\ x = s[k].entry.item
<1>1. ToSet(s) = {s[k] : k \in 1 .. Len(s)}
  BY DEF ToSet
<1>2. \A k \in 1 .. Len(s) : s[k] \in Lines
  OBVIOUS
<1>3. \A x : x \in ReadableIn(s) <=> \E k \in 1 .. Len(s) : Readable(s[k]) /\ x = s[k].entry.item
  BY <1>1 DEF ReadableIn
<1>4. \A k \in 1 .. Len(s) : s[k].entry.item \in Items
  BY <1>2 DEF Lines, Payloads
<1> QED BY <1>3, <1>4

LEMMA NoLine == <<>> \in Seq(Lines) /\ ReadableIn(<<>>) = {}
<1>1. <<>> \in Seq(Lines) /\ 1 .. Len(<<>>) = {}
  BY EmptySeq
<1> QED BY <1>1, ReadableByIndex

(* Text put at the end of a file is a line of its own, or it is glued to   *)
(* the last one and takes that with it.                                    *)
Glued(s, t) ==
  /\ Len(t) = Len(s) /\ Len(s) \in 1 .. Len(s) /\ t[Len(s)].kind \in {"cut", "corrupt"}
  /\ \A k \in 1 .. Len(s) : k # Len(s) => t[k] = s[k]
Added(s, t, l) == Len(t) = Len(s) + 1 /\ t[Len(s) + 1] = l /\ \A k \in 1 .. Len(s) : t[k] = s[k]

LEMMA PutShape ==
  ASSUME NEW s \in Seq(Lines), NEW e \in Payloads, NEW kind \in {"whole", "open", "cut", "late"}
  PROVE  /\ Put(s, e, kind) \in Seq(Lines) /\ Spoils(s, e, kind) \subseteq Items
         /\ \/ Glued(s, Put(s, e, kind)) /\ Spoils(s, e, kind) = {s[Len(s)].entry.item, e.item}
            \/ /\ Added(s, Put(s, e, kind), Line(e, kind))
               /\ Spoils(s, e, kind) = IF kind = "cut" THEN {e.item} ELSE {}
<1>1. Len(s) \in Nat /\ e.item \in Items
  BY DEF Payloads
<1>2. Line(e, kind) \in Lines /\ Line(e, "cut") \in Lines /\ Line(e, "corrupt") \in Lines
  BY DEF Line, Lines
<1>3. CASE Unended(s)
  <2>1. PICK l \in {Line(e, "cut"), Line(e, "corrupt")} : Put(s, e, kind) = [s EXCEPT ![Len(s)] = l]
    BY <1>3 DEF Put
  <2>2. l \in Lines /\ l.kind \in {"cut", "corrupt"}
    BY <1>2 DEF Line
  <2>3. Len(s) \in 1 .. Len(s)
    BY <1>1, <1>3, EmptySeq DEF Unended
  <2>4. /\ [s EXCEPT ![Len(s)] = l] \in Seq(Lines) /\ Len([s EXCEPT ![Len(s)] = l]) = Len(s)
        /\ [s EXCEPT ![Len(s)] = l][Len(s)] = l
        /\ \A k \in 1 .. Len(s) : k # Len(s) => [s EXCEPT ![Len(s)] = l][k] = s[k]
    BY <2>2, <2>3
  <2>5. Spoils(s, e, kind) = {s[Len(s)].entry.item, e.item}
    BY <1>3 DEF Spoils
  <2>6. s[Len(s)] \in Lines
    BY <2>3
  <2>7. s[Len(s)].entry.item \in Items
    BY <2>6 DEF Lines, Payloads
  <2>8. Glued(s, Put(s, e, kind)) /\ Put(s, e, kind) \in Seq(Lines)
    BY <2>1, <2>2, <2>3, <2>4 DEF Glued
  <2> QED BY <1>1, <2>5, <2>7, <2>8
<1>4. CASE ~Unended(s)
  <2>1. Put(s, e, kind) = Append(s, Line(e, kind))
    BY <1>4 DEF Put
  <2>2. /\ Append(s, Line(e, kind)) \in Seq(Lines) /\ Len(Append(s, Line(e, kind))) = Len(s) + 1
        /\ Append(s, Line(e, kind))[Len(s) + 1] = Line(e, kind)
        /\ \A k \in 1 .. Len(s) : Append(s, Line(e, kind))[k] = s[k]
    BY <1>2
  <2>3. Spoils(s, e, kind) = IF kind = "cut" THEN {e.item} ELSE {}
    BY <1>4 DEF Spoils
  <2>4. Added(s, Put(s, e, kind), Line(e, kind)) /\ Put(s, e, kind) \in Seq(Lines)
    BY <2>1, <2>2 DEF Added
  <2> QED BY <1>1, <2>3, <2>4
<1> QED BY <1>3, <1>4

(* What was readable stays so unless it is spoilt, the new text too.       *)
LEMMA PutKeeps ==
  ASSUME NEW s \in Seq(Lines), NEW e \in Payloads, NEW kind \in {"whole", "open", "cut", "late"}
  PROVE  ReadableIn(s) \cup {e.item} \subseteq ReadableIn(Put(s, e, kind)) \cup Spoils(s, e, kind)
<1> DEFINE t == Put(s, e, kind)
           lost == Spoils(s, e, kind)
<1>1. Len(s) \in Nat
  OBVIOUS
<1>2. /\ t \in Seq(Lines)
      /\ \/ Glued(s, t) /\ lost = {s[Len(s)].entry.item, e.item}
         \/ Added(s, t, Line(e, kind)) /\ lost = IF kind = "cut" THEN {e.item} ELSE {}
  BY PutShape
<1> HIDE DEF t, lost
<1>3. ASSUME NEW k \in 1 .. Len(s), Readable(s[k])
      PROVE  s[k].entry.item \in ReadableIn(t) \cup lost
  <2>1. (k \in 1 .. Len(t) /\ t[k] = s[k]) \/ s[k].entry.item \in lost
    BY <1>1, <1>2 DEF Glued, Added
  <2> QED BY <1>2, <1>3, <2>1, ReadableByIndex
<1>4. e.item \in ReadableIn(t) \cup lost
  <2>1. CASE e.item \notin lost
    <3>1. Len(s) + 1 \in 1 .. Len(t) /\ t[Len(s) + 1] = Line(e, kind) /\ kind # "cut"
      BY <1>1, <1>2, <2>1 DEF Added
    <3>2. Readable(Line(e, kind)) /\ Line(e, kind).entry.item = e.item
      BY <3>1 DEF Readable, Line
    <3> QED BY <1>2, <3>1, <3>2, ReadableByIndex
  <2> QED BY <2>1
<1> QED BY <1>3, <1>4, ReadableByIndex DEF t, lost

(* Renamed back, the lines say what they said.                             *)
LEMMA WholeAgainIs ==
  ASSUME NEW s \in Seq(Lines)
  PROVE  /\ WholeAgain(s) \in Seq(Lines) /\ ReadableIn(WholeAgain(s)) = ReadableIn(s)
         /\ \A k \in 1 .. Len(WholeAgain(s)) : WholeAgain(s)[k].kind # "late"
<1> DEFINE l(k) == IF s[k].kind = "late" THEN Line(s[k].entry, "whole") ELSE s[k]
           t == [k \in 1 .. Len(s) |-> l(k)]
<1>1. DOMAIN s = 1 .. Len(s) /\ Len(s) \in Nat
  OBVIOUS
<1>2. ASSUME NEW k \in 1 .. Len(s)
      PROVE  /\ l(k) \in Lines /\ l(k).kind # "late" /\ l(k).entry = s[k].entry
             /\ Readable(l(k)) <=> Readable(s[k])
  <2>1. s[k] \in Lines
    OBVIOUS
  <2>2. CASE s[k].kind = "late"
    BY <2>1, <2>2 DEF Lines, Line, Readable
  <2>3. CASE s[k].kind # "late"
    BY <2>1, <2>3
  <2> QED BY <2>2, <2>3
<1>3. t \in Seq(Lines) /\ Len(t) = Len(s) /\ \A k \in 1 .. Len(s) : t[k] = l(k)
  BY <1>1, <1>2
<1>4. WholeAgain(s) = t
  BY <1>1 DEF WholeAgain
<1> HIDE DEF l, t
<1>5. \A x : x \in ReadableIn(t) <=> x \in ReadableIn(s)
  BY <1>1, <1>2, <1>3, ReadableByIndex
<1> QED BY <1>2, <1>3, <1>4, <1>5

-----------------------------------------------------------------------------
(* Type correctness.                                                       *)

LEMMA BufferTypeInit == BufferInit => BufferTypeOK
<1> SUFFICES ASSUME BufferInit PROVE BufferTypeOK
  OBVIOUS
<1>1. <<>> \in Seq(Payloads) /\ Len(<<>>) = 0
  BY EmptySeq
<1>2. redis \in RedisType
  BY <1>1 DEF BufferInit, RedisType
<1>3. worker \in WorkerType
  BY DEF BufferInit, Resting, WorkerType
<1>4. sweeper \in [on : BOOLEAN, todo : Seq(Payloads)]
  BY <1>1 DEF BufferInit
<1>5. file \in Seq(Lines) /\ temp \in Seq(Lines)
  BY NoLine DEF BufferInit
<1> QED BY <1>1, <1>2, <1>3, <1>4, <1>5, BufferAssumption DEF BufferInit, BufferTypeOK

(* A worker that holds an entry.                                           *)
LEMMA WorkerHolds ==
  ASSUME BufferTypeOK, worker.at # "idle"
  PROVE  /\ worker.on = TRUE /\ worker.entry \in Payloads /\ worker.entry.item \in Items
         /\ \A p \in {"claimed", "committed", "failed"} :
              [worker EXCEPT !.at = p] \in WorkerType
<1>1. worker \in [on : {TRUE}, at : {"claimed", "committed", "failed"}, entry : Payloads]
  BY DEF BufferTypeOK, WorkerType
<1> QED BY <1>1 DEF WorkerType, Payloads

LEMMA IdleTypes == Resting \in WorkerType /\ Stopped \in WorkerType
  BY DEF Resting, Stopped, WorkerType

(* The lists of a type, their lengths, and a line of the file being read.  *)
LEMMA SpillTypes ==
  ASSUME BufferTypeOK
  PROVE  /\ spill \in Seq(Payloads) /\ batch \in Seq(Payloads)
         /\ file \in Seq(Lines) /\ temp \in Seq(Lines)
         /\ drain \in Nat /\ drain <= Len(temp) + 1 /\ Len(temp) \in Nat /\ Len(file) \in Nat
         /\ Draining => /\ drain \in 1 .. Len(temp) /\ drain + 1 \in 0 .. Len(temp) + 1
                        /\ temp[drain] \in Lines /\ temp[drain].entry \in Payloads
<1>1. /\ spill \in Seq(Payloads) /\ batch \in Seq(Payloads)
      /\ file \in Seq(Lines) /\ temp \in Seq(Lines)
  BY DEF BufferTypeOK
<1>2. Len(temp) \in Nat /\ Len(file) \in Nat /\ drain \in Nat /\ drain <= Len(temp) + 1
  BY <1>1 DEF BufferTypeOK
<1>3. ASSUME Draining
      PROVE  /\ drain \in 1 .. Len(temp) /\ drain + 1 \in 0 .. Len(temp) + 1
             /\ temp[drain] \in Lines /\ temp[drain].entry \in Payloads
  <2>1. drain \in 1 .. Len(temp)
    BY <1>2, <1>3 DEF Draining
  <2>2. temp[drain] \in Lines
    BY <1>1, <2>1
  <2> QED BY <1>2, <2>1, <2>2 DEF Lines
<1> QED BY <1>1, <1>2, <1>3

(* What the thread writes: a step of the handle.                           *)
LEMMA WriteTextType ==
  ASSUME BufferTypeOK, NEW e \in Payloads, NEW kind \in {"whole", "open", "cut"}, WriteText(e, kind)
  PROVE  /\ file' \in Seq(Lines) /\ temp' \in Seq(Lines) /\ spoilt' \in SUBSET Items
         /\ Len(temp') \in Nat /\ Len(temp) <= Len(temp')
<1> DEFINE late == IF kind = "whole" THEN "late" ELSE kind
<1>1. /\ file \in Seq(Lines) /\ temp \in Seq(Lines) /\ spoilt \in SUBSET Items /\ e.item \in Items
      /\ late \in {"whole", "open", "cut", "late"}
  BY DEF BufferTypeOK, Payloads
<1>2. file' \in Seq(Lines)
  BY <1>1, PutShape DEF WriteText
<1>3. temp' = temp \/ temp' = Put(temp, e, late)
  BY DEF WriteText
<1>4. temp' \in Seq(Lines) /\ Len(temp') \in Nat /\ Len(temp) <= Len(temp')
  <2>1. Len(temp) \in Nat
    BY <1>1
  <2>2. CASE temp' = temp
    BY <1>1, <2>1, <2>2
  <2>3. CASE temp' = Put(temp, e, late)
    <3>1. temp' \in Seq(Lines) /\ (Glued(temp, temp') \/ Added(temp, temp', Line(e, late)))
      BY <1>1, <2>3, PutShape
    <3> QED BY <2>1, <3>1 DEF Glued, Added
  <2> QED BY <1>3, <2>2, <2>3
<1>5. spoilt' \in SUBSET Items
  <2>1. Spoils(file, e, kind) \subseteq Items /\ Spoils(temp, e, kind) \subseteq Items
    BY <1>1, PutShape
  <2>2. \/ spoilt' = spoilt \cup Spoils(file, e, kind)
        \/ spoilt' = spoilt \cup (Spoils(temp, e, kind) \cup {e.item})
        \/ spoilt' = spoilt \cup {e.item}
    BY DEF WriteText
  <2> QED BY <1>1, <2>1, <2>2
<1> QED BY <1>2, <1>4, <1>5

(* A write that ends early.                                                *)
LEMMA WriteEndsType ==
  ASSUME BufferTypeOK, NEW more \in SUBSET Items, WriteEnds(more)
  PROVE  /\ file' \in Seq(Lines) /\ temp' \in Seq(Lines) /\ Len(temp') \in Nat /\ Len(temp) <= Len(temp')
         /\ spoilt' \in SUBSET Items /\ forgotten' \in SUBSET Items
         /\ batch' = <<>> /\ writer' = "none"
<1>1. /\ batch \in Seq(Payloads) /\ file \in Seq(Lines) /\ temp \in Seq(Lines)
      /\ spoilt \in SUBSET Items /\ forgotten \in SUBSET Items /\ (writer # "none" => batch # <<>>)
  BY DEF BufferTypeOK
<1>2. Len(temp) \in Nat /\ ItemsOf(batch) \subseteq Items
  BY <1>1, ItemsByIndex
<1>3. batch' = <<>> /\ writer' = "none"
  BY DEF WriteEnds
<1>4. CASE UNCHANGED <<file, temp, spoilt>> /\ forgotten' = forgotten \cup ItemsOf(batch) \cup more
  BY <1>1, <1>2, <1>3, <1>4
<1>5. CASE /\ writer # "none" /\ \E kind \in {"open", "cut"} : WriteText(Head(batch), kind)
           /\ forgotten' = forgotten \cup ItemsOf(Tail(batch)) \cup more
  <2>1. Head(batch) \in Payloads /\ ItemsOf(Tail(batch)) \subseteq Items
    BY <1>1, <1>2, <1>5, ItemsOfTail
  <2> QED BY <1>1, <1>3, <1>5, <2>1, WriteTextType
<1> QED BY <1>4, <1>5 DEF WriteEnds

(* Handing a statement to Redis or to the spill queue.                     *)
LEMMA LPushType ==
  ASSUME BufferTypeOK, NEW e \in Payloads, LPush(e)
  PROVE  /\ redis' \in RedisType /\ reached' \in SUBSET Items
         /\ Held(redis') = Held(redis) \cup {e.item}
<1>1. redis \in RedisType /\ reached \in SUBSET Items /\ e.item \in Items
  BY DEF BufferTypeOK, Payloads
<1>2. redis' = [redis EXCEPT !.queue = <<e>> \o @] /\ reached' = reached \cup {e.item}
  BY DEF LPush
<1> QED BY <1>1, <1>2, PushedHeld

LEMMA PutSpillType ==
  ASSUME BufferTypeOK, NEW e \in Payloads, PutSpill(e)
  PROVE  /\ spill' \in Seq(Payloads) /\ Len(spill') <= MaxSpill
         /\ forgotten' \in SUBSET Items
         /\ ItemsOf(spill') \cup forgotten' = ItemsOf(spill) \cup forgotten \cup {e.item}
<1>1. /\ spill \in Seq(Payloads) /\ Len(spill) <= MaxSpill /\ MaxSpill \in Nat
      /\ forgotten \in SUBSET Items /\ e.item \in Items
  BY BufferAssumption DEF BufferTypeOK, Payloads
<1>2. CASE Room
  <2>1. spill' = Append(spill, e) /\ forgotten' = forgotten
    BY <1>2 DEF PutSpill
  <2>2. Len(spill') = Len(spill) + 1 /\ Len(spill) \in Nat
    BY <1>1, <2>1
  <2>3. Len(spill') <= MaxSpill
    BY <1>1, <1>2, <2>2 DEF Room
  <2> QED BY <1>1, <2>1, <2>3, ItemsOfAppend
<1>3. CASE ~Room
  BY <1>1, <1>3 DEF PutSpill
<1> QED BY <1>2, <1>3

LEMMA PayloadType ==
  ASSUME NEW i \in Items
  PROVE  Payload(i) \in Payloads /\ Payload(i).item = i
  BY DEF Payload, Payloads

LEMMA FaultType == BufferTypeOK /\ (Fault \/ UNCHANGED faults) => faults' \in 0 .. MaxFaults
  BY BufferAssumption DEF BufferTypeOK, Fault

LEMMA BufferTypeStep == BufferTypeOK /\ [BufferNext]_bufferVars => BufferTypeOK'
<1> SUFFICES ASSUME BufferTypeOK, [BufferNext]_bufferVars PROVE BufferTypeOK'
  OBVIOUS
<1> DEFINE Sets == /\ pushed \in SUBSET Items /\ applied \in SUBSET Items
                   /\ reached \in SUBSET Items /\ forgotten \in SUBSET Items
                   /\ spoilt \in SUBSET Items
           Server == redis \in RedisType /\ available \in BOOLEAN
           Tasks == worker \in WorkerType /\ sweeper \in [on : BOOLEAN, todo : Seq(Payloads)]
           Lists == /\ spill \in Seq(Payloads) /\ batch \in Seq(Payloads)
                    /\ file \in Seq(Lines) /\ temp \in Seq(Lines)
                    /\ writer \in {"none", "file", "temp", "gone"} /\ (writer # "none" => batch # <<>>)
                    /\ Len(spill) <= MaxSpill /\ Len(batch) <= MaxSpill
                    /\ drain \in 0 .. Len(temp) + 1
           Count == faults \in 0 .. MaxFaults
<1>1. Sets /\ Server /\ Tasks /\ Lists /\ Count
  BY DEF BufferTypeOK
<1>2. Sets' /\ Server' /\ Tasks' /\ Lists' /\ Count' => BufferTypeOK'
  BY DEF BufferTypeOK
<1>3. /\ MaxSpill \in Nat /\ (Fault \/ UNCHANGED faults => Count')
      /\ <<>> \in Seq(Payloads) /\ Len(<<>>) = 0 /\ <<>> \in Seq(Lines)
  BY FaultType, BufferAssumption, EmptySeq
<1>4. /\ UNCHANGED <<pushed, applied, reached, forgotten, spoilt>> => Sets'
      /\ UNCHANGED history => UNCHANGED <<reached, forgotten, spoilt>>
      /\ UNCHANGED <<redis, available>> => Server'
      /\ UNCHANGED <<worker, sweeper>> => Tasks'
      /\ UNCHANGED spillVars => Lists'
  BY <1>1 DEF spillVars, history
<1>5. CASE Outage
  <2>1. redis' \in RedisType
    BY <1>1, <1>5 DEF Outage, RedisType
  <2> QED BY <1>1, <1>2, <1>3, <1>4, <1>5, <2>1 DEF Outage
<1>6. CASE Back
  <2>1. redis' \in RedisType
    BY <1>1, <1>6 DEF Back, RedisType
  <2> QED BY <1>1, <1>2, <1>3, <1>4, <1>6, <2>1 DEF Back
<1>7. ASSUME NEW i \in Items, PushToRedis(i)
      PROVE  BufferTypeOK'
  <2>1. redis' \in RedisType /\ reached' \in SUBSET Items
    BY <1>7, PayloadType, LPushType DEF PushToRedis
  <2> QED BY <1>1, <1>2, <1>3, <1>4, <1>7, <2>1 DEF PushToRedis
<1>8. ASSUME NEW i \in Items, PushToSpill(i)
      PROVE  BufferTypeOK'
  <2>1. spill' \in Seq(Payloads) /\ Len(spill') <= MaxSpill /\ forgotten' \in SUBSET Items
    BY <1>8, PayloadType, PutSpillType DEF PushToSpill
  <2> QED BY <1>1, <1>2, <1>3, <1>4, <1>8, <2>1 DEF PushToSpill
<1>9. ASSUME NEW i \in Items, PushTwice(i)
      PROVE  BufferTypeOK'
  <2>1. redis' \in RedisType /\ reached' \in SUBSET Items
    BY <1>9, PayloadType, LPushType DEF PushTwice
  <2>2. spill' \in Seq(Payloads) /\ Len(spill') <= MaxSpill /\ forgotten' \in SUBSET Items
    BY <1>9, PayloadType, PutSpillType DEF PushTwice
  <2> QED BY <1>1, <1>2, <1>3, <1>4, <1>9, <2>1, <2>2 DEF PushTwice
<1>10. redis.queue # <<>> => Head(redis.queue) \in Payloads /\ Moved(redis) \in RedisType
  BY <1>1, MovedHeld
<1>11. CASE Take
  <2>1. worker' = [worker EXCEPT !.at = "claimed", !.entry = Head(redis.queue)]
        /\ worker.on = TRUE
    BY <1>1, <1>11 DEF Take, WorkerType
  <2>2. worker' \in WorkerType
    BY <1>1, <1>10, <1>11, <2>1 DEF Take, WorkerType
  <2> QED BY <1>1, <1>2, <1>3, <1>4, <1>10, <1>11, <2>2 DEF Take
<1>12. CASE TakeLost
  BY <1>1, <1>2, <1>3, <1>4, <1>10, <1>12 DEF TakeLost
<1>13. CASE TakeFails
  BY <1>1, <1>2, <1>3, <1>4, <1>13, IdleTypes DEF TakeFails
<1>14. CASE Execute
  BY <1>1, <1>2, <1>3, <1>4, <1>14, WorkerHolds DEF Execute
<1>15. CASE ExecuteFails
  BY <1>1, <1>2, <1>3, <1>4, <1>15, WorkerHolds DEF ExecuteFails
<1>16. worker.at # "idle" =>
         LET q == [redis EXCEPT !.processing = RemoveFirst(@, worker.entry)]
         IN q \in RedisType /\ [q EXCEPT !.dlq = @ \cup {worker.entry.item}] \in RedisType
  BY <1>1, WorkerHolds, RemovedHeld
<1>17. CASE Ack
  <2>1. redis' \in RedisType
    BY <1>1, <1>16, <1>17 DEF Ack
  <2>2. worker' \in WorkerType
    BY <1>17, WorkerHolds, IdleTypes DEF Ack
  <2> QED BY <1>1, <1>2, <1>3, <1>4, <1>17, <2>1, <2>2 DEF Ack
<1>18. CASE DeadLetter
  <2>1. redis' \in RedisType
    BY <1>1, <1>16, <1>18 DEF DeadLetter, RedisType
  <2> QED BY <1>1, <1>2, <1>3, <1>4, <1>18, <2>1, IdleTypes DEF DeadLetter
<1>19. ASSUME NEW s \in Seq(Payloads)
       PROVE  [sweeper EXCEPT !.todo = s] \in [on : BOOLEAN, todo : Seq(Payloads)]
  BY <1>1
<1>20. sweeper.todo \in Seq(Payloads) /\ redis.processing \in Seq(Payloads)
  BY <1>1 DEF RedisType
<1>21. sweeper.todo # <<>> =>
         Head(sweeper.todo) \in Payloads /\ Tail(sweeper.todo) \in Seq(Payloads)
  BY <1>20, HeadTailProperties
<1>22. CASE SweepLists
  BY <1>1, <1>2, <1>3, <1>4, <1>19, <1>20, <1>22 DEF SweepLists
<1>23. CASE SweepReclaims
  <2>1. redis' \in RedisType
    BY <1>1, <1>21, <1>23, ReclaimedHeld DEF SweepReclaims
  <2>2. sweeper' = [sweeper EXCEPT !.todo = Tail(sweeper.todo)]
    BY <1>1, <1>23 DEF SweepReclaims
  <2>3. sweeper' \in [on : BOOLEAN, todo : Seq(Payloads)]
    BY <1>19, <1>21, <1>23, <2>2 DEF SweepReclaims
  <2> QED BY <1>1, <1>2, <1>3, <1>4, <1>23, <2>1, <2>3 DEF SweepReclaims
<1>24. CASE SweepSkips
  <2>1. sweeper' = [sweeper EXCEPT !.todo = Tail(sweeper.todo)]
        \/ sweeper' = [sweeper EXCEPT !.todo = <<>>]
    BY <1>1, <1>24 DEF SweepSkips
  <2>2. sweeper' \in [on : BOOLEAN, todo : Seq(Payloads)]
    BY <1>3, <1>19, <1>21, <1>24, <2>1 DEF SweepSkips
  <2> QED BY <1>1, <1>2, <1>3, <1>4, <1>24, <2>2 DEF SweepSkips
<1>25. CASE TakeBatch
  BY <1>1, <1>2, <1>3, <1>4, <1>25 DEF TakeBatch
<1>26. CASE OpenFile \/ WriteLine
  <2>1. CASE OpenFile
    BY <1>1, <1>2, <1>3, <1>4, <2>1 DEF OpenFile
  <2>2. CASE WriteLine
    <3>1. /\ Head(batch) \in Payloads /\ Tail(batch) \in Seq(Payloads)
          /\ Len(batch) \in Nat /\ Len(Tail(batch)) = Len(batch) - 1
          /\ Len(batch) # 1 => Tail(batch) # <<>>
      <4>1. batch \in Seq(Payloads) /\ batch # <<>>
        BY <1>1, <2>2 DEF WriteLine
      <4>2. /\ Head(batch) \in Payloads /\ Tail(batch) \in Seq(Payloads)
            /\ Len(batch) \in Nat /\ Len(Tail(batch)) = Len(batch) - 1
        BY <4>1, HeadTailProperties
      <4>3. Tail(batch) = <<>> <=> Len(Tail(batch)) = 0
        BY <4>2, EmptySeq
      <4>4. Len(batch) # 1 => Len(Tail(batch)) # 0
        BY <4>2
      <4> QED BY <4>2, <4>3, <4>4
    <3>2. /\ file' \in Seq(Lines) /\ temp' \in Seq(Lines) /\ spoilt' \in SUBSET Items
          /\ Len(temp') \in Nat /\ Len(temp) <= Len(temp')
      BY <2>2, <3>1, WriteTextType DEF WriteLine
    <3>3. Len(batch') <= MaxSpill /\ drain' \in 0 .. Len(temp') + 1
      <4>1. Len(temp) \in Nat /\ batch' = Tail(batch) /\ drain' = drain
        BY <1>1, <2>2 DEF WriteLine
      <4> QED BY <1>1, <1>3, <3>1, <3>2, <4>1
    <3>4. Lists'
      BY <1>1, <2>2, <3>1, <3>2, <3>3 DEF WriteLine
    <3> QED BY <1>1, <1>2, <1>3, <1>4, <2>2, <3>2, <3>4 DEF WriteLine
  <2> QED BY <1>26, <2>1, <2>2
<1>27. /\ ItemsOf(spill) \subseteq Items /\ ItemsOf(batch) \subseteq Items
       /\ ReadableIn(file) \subseteq Items /\ ReadableIn(temp) \subseteq Items
  BY <1>1, ItemsByIndex, ReadableByIndex
<1>28. CASE SpillWriteFails
  <2>1. /\ file' \in Seq(Lines) /\ temp' \in Seq(Lines) /\ Len(temp') \in Nat /\ Len(temp) <= Len(temp')
        /\ spoilt' \in SUBSET Items /\ forgotten' \in SUBSET Items
        /\ batch' = <<>> /\ writer' = "none"
    BY <1>28, WriteEndsType DEF SpillWriteFails
  <2>2. UNCHANGED <<spill, drain>> /\ Len(temp) \in Nat
    BY <1>1, <1>28 DEF SpillWriteFails
  <2>3. drain' \in 0 .. Len(temp') + 1
    BY <1>1, <2>1, <2>2
  <2>4. Lists'
    BY <1>1, <1>3, <2>1, <2>2, <2>3
  <2> QED BY <1>1, <1>2, <1>3, <1>4, <1>28, <2>1, <2>4 DEF SpillWriteFails
<1>29. CASE RestartBuffer
  <2>1. redis' \in RedisType
    BY <1>1, <1>29, RecoveredHeld DEF RestartBuffer
  <2>2. worker' \in WorkerType
    BY <1>29, IdleTypes DEF RestartBuffer
  <2>3. sweeper' \in [on : BOOLEAN, todo : Seq(Payloads)] /\ available' \in BOOLEAN
    BY <1>1, <1>3, <1>29 DEF RestartBuffer, RedisType
  <2>4. /\ file' \in Seq(Lines) /\ temp' \in Seq(Lines) /\ Len(temp') \in Nat
        /\ spoilt' \in SUBSET Items /\ forgotten' \in SUBSET Items
        /\ batch' = <<>> /\ writer' = "none"
    BY <1>27, <1>29, WriteEndsType DEF RestartBuffer
  <2>5. Lists'
    <3>1. spill' = <<>> /\ drain' = 0
      BY <1>29 DEF RestartBuffer
    <3> QED BY <1>3, <2>4, <3>1
  <2>6. Sets' /\ Count'
    BY <1>1, <1>3, <1>29, <2>4 DEF RestartBuffer
  <2> QED BY <1>2, <2>1, <2>2, <2>3, <2>5, <2>6
<1>30. CASE Reestablish
  <2>1. worker' \in WorkerType
    BY <1>1, <1>30, IdleTypes DEF Reestablish
  <2> QED BY <1>1, <1>2, <1>3, <1>4, <1>30, <2>1 DEF Reestablish
<1>31. CASE DrainBegins
  <2>1. drain' = 1 /\ temp' = file /\ file' = <<>> /\ Len(file) \in Nat
    BY <1>1, <1>31 DEF DrainBegins
  <2>2. drain' \in 0 .. Len(temp') + 1
    BY <2>1
  <2>3. Lists'
    BY <1>1, <1>3, <1>31, <2>1, <2>2 DEF DrainBegins
  <2> QED BY <1>1, <1>2, <1>3, <1>4, <1>27, <1>31, <2>3 DEF DrainBegins
<1>32. CASE DrainToRedis
  <2>1. redis' \in RedisType /\ reached' \in SUBSET Items
    BY <1>32, SpillTypes, LPushType DEF DrainToRedis, Reads
  <2>2. drain' \in 0 .. Len(temp) + 1
    BY <1>32, SpillTypes DEF DrainToRedis, Reads
  <2> QED BY <1>1, <1>2, <1>3, <1>4, <1>32, <2>1, <2>2 DEF DrainToRedis
<1>33. CASE DrainDirectly
  <2>1. drain' \in 0 .. Len(temp) + 1 /\ temp[drain].entry \in Payloads
    BY <1>33, SpillTypes DEF DrainDirectly, Reads
  <2>2. applied' \in SUBSET Items
    BY <1>1, <1>33, <2>1 DEF DrainDirectly, Payloads
  <2>3. spill' \in Seq(Payloads) /\ Len(spill') <= MaxSpill
    <3>1. CASE UNCHANGED spill
      BY <1>1, <3>1
    <3>2. CASE Room /\ spill' = Append(spill, temp[drain].entry) /\ UNCHANGED forgotten
      BY <1>1, <2>1, <3>2, PutSpillType DEF PutSpill
    <3> QED BY <1>4, <1>33, <3>1, <3>2 DEF DrainDirectly
  <2> QED BY <1>1, <1>2, <1>3, <1>4, <1>33, <2>1, <2>2, <2>3 DEF DrainDirectly
<1>34. CASE DrainFails
  <2>1. file' \in Seq(Lines) /\ temp' = <<>> /\ drain' = 0
    BY <1>1, <1>34, WholeAgainIs DEF DrainFails
  <2>2. UNCHANGED <<spill, batch>> /\ writer' \in {"none", "file", "temp", "gone"}
        /\ (writer = "none" => writer' = "none")
    BY <1>1, <1>34 DEF DrainFails
  <2>3. Lists'
    BY <1>1, <1>3, <2>1, <2>2
  <2> QED BY <1>1, <1>2, <1>3, <1>4, <1>27, <1>34, <2>3 DEF DrainFails
<1>35. CASE DrainEnds
  BY <1>1, <1>2, <1>3, <1>4, <1>35 DEF DrainEnds
<1>36. CASE UNCHANGED bufferVars
  BY <1>1, <1>2, <1>3, <1>4, <1>36 DEF bufferVars
<1>37. CASE DrainSkips
  <2>1. drain' \in 0 .. Len(temp) + 1
    BY <1>37, SpillTypes DEF DrainSkips
  <2> QED BY <1>1, <1>2, <1>3, <1>4, <1>37, <2>1 DEF DrainSkips
<1> QED BY <1>5, <1>6, <1>7, <1>8, <1>9, <1>11, <1>12, <1>13, <1>14, <1>15, <1>17, <1>18,
           <1>22, <1>23, <1>24, <1>25, <1>26, <1>28, <1>29, <1>30, <1>31, <1>32, <1>33,
           <1>34, <1>35, <1>36, <1>37
       DEF BufferNext, Worker, Daemon, Sentinel

(* The types hold in every reachable state: in particular the spill queue  *)
(* and a batch never outgrow MaxSpill, and the sentinel reads no line that *)
(* the file does not have.                                                 *)
THEOREM BufferTypeCorrect == BufferSpec => []BufferTypeOK
<1> QED BY BufferTypeInit, BufferTypeStep, PTL DEF BufferSpec

-----------------------------------------------------------------------------
(* What got into Redis stays there until it is executed.                   *)

(* A statement is acknowledged only after the database executed it.        *)
CommittedIsApplied == worker.at = "committed" => worker.entry.item \in applied

(* What Redis or the database has.                                         *)
Kept == applied \cup InRedis

LEMMA InRedisIsHeld == InRedis = Held(redis) /\ InRedis' = Held(redis')
  BY DEF InRedis, Held

(* No step takes a statement out of Redis that was not executed; what a    *)
(* step puts on the list it has put there.                                 *)
LEMMA KeptStep ==
  ASSUME BufferTypeOK, CommittedIsApplied, [BufferNext]_bufferVars
  PROVE  /\ CommittedIsApplied'
         /\ applied \subseteq applied' /\ Kept \subseteq Kept'
         /\ reached' \subseteq reached \cup Kept'
<1>1. redis \in RedisType /\ worker \in WorkerType /\ sweeper.todo \in Seq(Payloads)
  BY DEF BufferTypeOK
<1> DEFINE P == /\ CommittedIsApplied'
                /\ applied \subseteq applied' /\ Kept \subseteq Kept'
                /\ reached' \subseteq reached \cup Kept'
<1>2. ASSUME Held(redis) \subseteq Held(redis') \cup applied', applied \subseteq applied',
             reached' \subseteq reached \cup Held(redis')
      PROVE  applied \subseteq applied' /\ Kept \subseteq Kept' /\ reached' \subseteq reached \cup Kept'
  BY <1>2, InRedisIsHeld DEF Kept
<1>3. ASSUME UNCHANGED <<redis, reached>>, applied \subseteq applied', CommittedIsApplied'
      PROVE  P
  BY <1>2, <1>3
<1>4. CASE UNCHANGED <<redis, worker, applied, reached>>
  BY <1>3, <1>4 DEF CommittedIsApplied
<1>5. CASE Outage \/ Back
  <2>1. /\ redis'.queue = redis.queue /\ redis'.processing = redis.processing
        /\ redis'.dlq = redis.dlq
    BY <1>1, <1>5 DEF Outage, Back, RedisType
  <2>2. Held(redis') = Held(redis)
    BY <2>1 DEF Held
  <2> QED BY <1>2, <1>5, <2>2 DEF Outage, Back, CommittedIsApplied, history
<1>6. ASSUME NEW e \in Payloads, LPush(e), UNCHANGED <<worker, applied>>
      PROVE  P
  <2>1. Held(redis') = Held(redis) \cup {e.item} /\ reached' = reached \cup {e.item}
    BY <1>6, LPushType DEF LPush
  <2> QED BY <1>2, <1>6, <2>1 DEF CommittedIsApplied
<1>7. ASSUME NEW i \in Items, PushToRedis(i) \/ PushToSpill(i) \/ PushTwice(i)
      PROVE  P
  BY <1>4, <1>6, <1>7, PayloadType DEF PushToRedis, PushToSpill, PushTwice, history
<1>8. CASE Take \/ TakeLost
  <2>1. Held(redis') = Held(redis)
    BY <1>1, <1>8, MovedHeld DEF Take, TakeLost
  <2>2. CommittedIsApplied'
    <3>1. CASE Take
      <4>1. worker'.at = "claimed"
        BY <1>1, <3>1 DEF Take, WorkerType
      <4> QED BY <4>1 DEF CommittedIsApplied
    <3>2. CASE TakeLost
      BY <3>2 DEF TakeLost, CommittedIsApplied
    <3> QED BY <1>8, <3>1, <3>2
  <2> QED BY <1>2, <1>8, <2>1, <2>2 DEF Take, TakeLost, history
<1>9. Resting.at = "idle" /\ Stopped.at = "idle"
  BY DEF Resting, Stopped
<1>10. CASE TakeFails
  BY <1>3, <1>9, <1>10 DEF TakeFails, CommittedIsApplied, history
<1>11. CASE Execute
  <2>1. worker'.entry = worker.entry
    BY <1>1, <1>11 DEF Execute, WorkerType
  <2> QED BY <1>3, <1>11, <2>1 DEF Execute, CommittedIsApplied, history
<1>12. CASE ExecuteFails
  <2>1. worker'.at = "failed"
    BY <1>1, <1>12 DEF ExecuteFails, WorkerType
  <2> QED BY <1>3, <1>12, <2>1 DEF ExecuteFails, CommittedIsApplied, history
<1>13. CASE Ack
  <2>1. worker.at = "committed" /\ worker.entry.item \in applied /\ worker.entry \in Payloads
    BY <1>13, WorkerHolds DEF Ack, CommittedIsApplied
  <2>2. CASE redis.up
    <3>1. redis' = [redis EXCEPT !.processing = RemoveFirst(@, worker.entry)]
          /\ worker'.at = "idle" /\ UNCHANGED <<applied, reached>>
      BY <1>9, <1>13, <2>2 DEF Ack, history
    <3>2. Held(redis) \subseteq Held(redis') \cup applied'
      BY <1>1, <2>1, <3>1, RemovedHeld
    <3> QED BY <1>2, <3>1, <3>2 DEF CommittedIsApplied
  <2>3. CASE ~redis.up
    <3>1. worker'.at = "failed" /\ UNCHANGED <<redis, applied, reached>>
      BY <1>1, <1>13, <2>3 DEF Ack, WorkerType, history
    <3> QED BY <1>3, <3>1 DEF CommittedIsApplied
  <2> QED BY <2>2, <2>3
<1>14. CASE DeadLetter
  <2>1. worker.entry \in Payloads /\ UNCHANGED <<applied, reached>> /\ worker'.at = "idle"
    BY <1>9, <1>14, WorkerHolds DEF DeadLetter, history
  <2>2. redis' = [[redis EXCEPT !.processing = RemoveFirst(@, worker.entry)]
                    EXCEPT !.dlq = @ \cup {worker.entry.item}]
    BY <1>1, <1>14 DEF DeadLetter, RedisType
  <2>3. Held(redis) \subseteq Held(redis')
    BY <1>1, <2>1, <2>2, RemovedHeld
  <2> QED BY <1>2, <2>1, <2>3 DEF CommittedIsApplied
<1>15. CASE SweepReclaims
  <2>1. Head(sweeper.todo) \in Payloads
    BY <1>1, <1>15, HeadTailProperties DEF SweepReclaims
  <2>2. redis' = Reclaimed(redis, Head(sweeper.todo)) /\ UNCHANGED <<worker, applied, reached>>
    BY <1>15 DEF SweepReclaims, history
  <2>3. Held(redis) \subseteq Held(redis')
    BY <1>1, <2>1, <2>2, ReclaimedHeld
  <2> QED BY <1>2, <2>2, <2>3 DEF CommittedIsApplied
<1>16. CASE RestartBuffer
  <2>1. Held(redis') = Held(redis) /\ worker'.at = "idle"
    BY <1>1, <1>9, <1>16, RecoveredHeld DEF RestartBuffer
  <2> QED BY <1>2, <1>16, <2>1 DEF RestartBuffer, CommittedIsApplied
<1>17. CASE Reestablish
  BY <1>3, <1>9, <1>17 DEF Reestablish, CommittedIsApplied, history
<1>18. CASE DrainToRedis
  BY <1>6, <1>18, SpillTypes DEF DrainToRedis, Reads
<1>19. CASE DrainDirectly
  BY <1>3, <1>19 DEF DrainDirectly, CommittedIsApplied, history
<1>20. SweepLists \/ SweepSkips \/ TakeBatch \/ OpenFile \/ WriteLine \/ SpillWriteFails
         \/ DrainBegins \/ DrainSkips \/ DrainFails \/ DrainEnds \/ UNCHANGED bufferVars
         => UNCHANGED <<redis, worker, applied, reached>>
  BY DEF SweepLists, SweepSkips, TakeBatch, OpenFile, WriteLine, SpillWriteFails, DrainBegins,
         DrainSkips, DrainFails, DrainEnds, bufferVars, history
<1> QED BY <1>4, <1>5, <1>7, <1>8, <1>10, <1>11, <1>12, <1>13, <1>14, <1>15, <1>16, <1>17,
           <1>18, <1>19, <1>20
        DEF BufferNext, Worker, Daemon, Sentinel

(* For any number of outages, restarts, lost replies and sweeps of a stale *)
(* list: every statement that got into Redis is executed, queued, being    *)
(* processed or a dead letter.                                             *)
THEOREM DeliveredAtLeastOnce == BufferSpec => []AtLeastOnceFromRedis
<1> DEFINE Inv == BufferTypeOK /\ CommittedIsApplied /\ AtLeastOnceFromRedis
<1>1. BufferInit => Inv
  <2> SUFFICES ASSUME BufferInit PROVE Inv
    OBVIOUS
  <2>1. worker.at = "idle" /\ reached = {}
    BY DEF BufferInit, Resting
  <2> QED BY <2>1, BufferTypeInit DEF CommittedIsApplied, AtLeastOnceFromRedis
<1>2. Inv /\ [BufferNext]_bufferVars => Inv'
  <2> SUFFICES ASSUME Inv, [BufferNext]_bufferVars PROVE Inv'
    OBVIOUS
  <2>1. AtLeastOnceFromRedis'
    BY KeptStep DEF AtLeastOnceFromRedis, Kept
  <2> QED BY <2>1, BufferTypeStep, KeptStep
<1>3. Inv => AtLeastOnceFromRedis
  OBVIOUS
<1> HIDE DEF Inv
<1> QED BY <1>1, <1>2, <1>3, PTL DEF BufferSpec

-----------------------------------------------------------------------------
(* A statement vanishes only with its place or with a line that was spoilt. *)

(* Where a statement can be, apart from the file the sentinel reads.       *)
Elsewhere ==
  Kept \cup forgotten \cup spoilt \cup ItemsOf(spill) \cup ItemsOf(batch) \cup ReadableIn(file)

(* What could be read of the lines the sentinel has passed is somewhere    *)
(* else already.                                                           *)
ReadIsElsewhere ==
  \A k \in 1 .. Len(temp) : k < drain /\ Readable(temp[k]) => temp[k].entry.item \in Elsewhere

(* A line is written late only into the file the sentinel has taken.       *)
LateIsSpoilt ==
  /\ \A k \in 1 .. Len(file) : file[k].kind # "late"
  /\ \A k \in 1 .. Len(temp) : temp[k].kind = "late" => temp[k].entry.item \in spoilt

(* What a write leaves of the lines that were there, and what it spoils.   *)
LinesKept ==
  /\ spoilt \subseteq spoilt' /\ forgotten \subseteq forgotten'
  /\ ReadableIn(file) \subseteq ReadableIn(file') \cup spoilt'
  /\ ReadableIn(temp) \subseteq ReadableIn(temp') \cup spoilt'
  /\ \A k \in 1 .. Len(temp) : Readable(temp'[k]) => temp'[k] = temp[k]
  /\ LateIsSpoilt => LateIsSpoilt'

(* One file: what text put at its end does to it.                          *)
LEMMA PutLines ==
  ASSUME NEW s \in Seq(Lines), NEW e \in Payloads, NEW kind \in {"whole", "open", "cut", "late"}
  PROVE  /\ \A k \in 1 .. Len(s) : Readable(Put(s, e, kind)[k]) => Put(s, e, kind)[k] = s[k]
         /\ \A k \in 1 .. Len(Put(s, e, kind)) :
              Put(s, e, kind)[k].kind = "late"
                => \/ k \in 1 .. Len(s) /\ Put(s, e, kind)[k] = s[k]
                   \/ kind = "late" /\ Put(s, e, kind)[k].entry = e
<1> DEFINE t == Put(s, e, kind)
<1>1. Len(s) \in Nat
  OBVIOUS
<1>2. Glued(s, t) \/ Added(s, t, Line(e, kind))
  BY PutShape
<1> HIDE DEF t
<1>3. ASSUME NEW k \in 1 .. Len(s), Readable(t[k])
      PROVE  t[k] = s[k]
  BY <1>1, <1>2, <1>3 DEF Readable, Glued, Added
<1>4. ASSUME NEW k \in 1 .. Len(t), t[k].kind = "late"
      PROVE  (k \in 1 .. Len(s) /\ t[k] = s[k]) \/ (kind = "late" /\ t[k].entry = e)
  <2>1. CASE k \in 1 .. Len(s)
    BY <1>1, <1>2, <1>4, <2>1 DEF Glued, Added
  <2>2. CASE k \notin 1 .. Len(s)
    <3>1. t[k] = Line(e, kind)
      BY <1>1, <1>2, <2>2 DEF Glued, Added
    <3> QED BY <1>4, <3>1 DEF Line
  <2> QED BY <2>1, <2>2
<1> QED BY <1>3, <1>4 DEF t

(* The text of a statement is in the file the handle leads to, or spoilt.  *)
LEMMA WriteTextKeeps ==
  ASSUME BufferTypeOK, NEW e \in Payloads, NEW kind \in {"whole", "open", "cut"}, WriteText(e, kind),
         forgotten \subseteq forgotten'
  PROVE  LinesKept /\ e.item \in ReadableIn(file') \cup spoilt'
<1> DEFINE late == IF kind = "whole" THEN "late" ELSE kind
<1>1. /\ file \in Seq(Lines) /\ temp \in Seq(Lines) /\ file' \in Seq(Lines) /\ temp' \in Seq(Lines)
      /\ late \in {"whole", "open", "cut", "late"} /\ kind # "late"
  BY SpillTypes, WriteTextType
<1>2. CASE writer = "file"
  <2>1. file' = Put(file, e, kind) /\ temp' = temp /\ spoilt' = spoilt \cup Spoils(file, e, kind)
    BY <1>2 DEF WriteText
  <2>2. ReadableIn(file) \cup {e.item} \subseteq ReadableIn(file') \cup spoilt'
    BY <1>1, <2>1, PutKeeps
  <2>3. LateIsSpoilt => LateIsSpoilt'
    <3>1. ASSUME LateIsSpoilt, NEW k \in 1 .. Len(file')
          PROVE  file'[k].kind # "late"
      BY <1>1, <2>1, <3>1, PutLines DEF LateIsSpoilt
    <3> QED BY <2>1, <3>1 DEF LateIsSpoilt
  <2> QED BY <2>1, <2>2, <2>3 DEF LinesKept
<1>3. CASE writer = "temp"
  <2>1. /\ file' = file /\ temp' = Put(temp, e, late)
        /\ spoilt' = spoilt \cup (Spoils(temp, e, kind) \cup {e.item})
    BY <1>3 DEF WriteText
  <2>2. Spoils(temp, e, late) \subseteq Spoils(temp, e, kind) \cup {e.item}
    BY DEF Spoils
  <2>3. ReadableIn(temp) \subseteq ReadableIn(temp') \cup spoilt'
    BY <1>1, <2>1, <2>2, PutKeeps
  <2>4. \A k \in 1 .. Len(temp) : Readable(temp'[k]) => temp'[k] = temp[k]
    BY <1>1, <2>1, PutLines
  <2>5. LateIsSpoilt => LateIsSpoilt'
    <3>1. ASSUME LateIsSpoilt, NEW k \in 1 .. Len(temp'), temp'[k].kind = "late"
          PROVE  temp'[k].entry.item \in spoilt'
      <4>1. (k \in 1 .. Len(temp) /\ temp'[k] = temp[k]) \/ temp'[k].entry = e
        BY <1>1, <2>1, <3>1, PutLines
      <4> QED BY <2>1, <3>1, <4>1 DEF LateIsSpoilt
    <3> QED BY <2>1, <3>1 DEF LateIsSpoilt
  <2> QED BY <2>1, <2>3, <2>4, <2>5 DEF LinesKept
<1>4. CASE writer \notin {"file", "temp"}
  <2>1. file' = file /\ temp' = temp /\ spoilt' = spoilt \cup {e.item}
    BY <1>4 DEF WriteText
  <2> QED BY <2>1 DEF LinesKept, LateIsSpoilt
<1> QED BY <1>2, <1>3, <1>4

(* A write that ends early: the rest of the batch is forgotten.            *)
LEMMA WriteEndsKeeps ==
  ASSUME BufferTypeOK, NEW more, WriteEnds(more)
  PROVE  /\ LinesKept /\ more \subseteq forgotten'
         /\ ItemsOf(batch) \subseteq forgotten' \cup spoilt' \cup ReadableIn(file')
<1>1. CASE UNCHANGED <<file, temp, spoilt>> /\ forgotten' = forgotten \cup ItemsOf(batch) \cup more
  BY <1>1 DEF LinesKept, LateIsSpoilt
<1>2. CASE /\ writer # "none" /\ \E kind \in {"open", "cut"} : WriteText(Head(batch), kind)
           /\ forgotten' = forgotten \cup ItemsOf(Tail(batch)) \cup more
  <2>1. batch \in Seq(Payloads) /\ batch # <<>>
    BY <1>2 DEF BufferTypeOK
  <2>2. Head(batch) \in Payloads /\ ItemsOf(batch) = {Head(batch).item} \cup ItemsOf(Tail(batch))
    BY <2>1, ItemsOfTail
  <2>3. LinesKept /\ Head(batch).item \in ReadableIn(file') \cup spoilt'
    BY <1>2, <2>2, WriteTextKeeps
  <2> QED BY <1>2, <2>2, <2>3
<1> QED BY <1>1, <1>2 DEF WriteEnds

LEMMA ElsewhereStep ==
  ASSUME BufferTypeOK, CommittedIsApplied, [BufferNext]_bufferVars
  PROVE  \/ DrainBegins
         \/ Elsewhere \subseteq Elsewhere' /\ pushed' \subseteq pushed \cup Elsewhere'
<1>1. /\ Kept \subseteq Kept' /\ applied \subseteq applied'
      /\ spill \in Seq(Payloads) /\ batch \in Seq(Payloads)
      /\ file \in Seq(Lines) /\ temp \in Seq(Lines)
  BY KeptStep, SpillTypes
<1> DEFINE P == Elsewhere \subseteq Elsewhere' /\ pushed' \subseteq pushed \cup Elsewhere'
<1>2. CASE UNCHANGED <<pushed, spill, batch, file, forgotten, spoilt>>
  BY <1>1, <1>2 DEF Elsewhere
<1>3. ASSUME NEW i \in Items, PushToRedis(i)
      PROVE  P
  <2>1. i \in Kept'
    BY <1>3, PayloadType, LPushType, InRedisIsHeld DEF PushToRedis, Kept
  <2> QED BY <1>1, <1>3, <2>1 DEF PushToRedis, Elsewhere, spillVars
<1>4. ASSUME NEW i \in Items, PushToSpill(i) \/ PushTwice(i)
      PROVE  P
  <2>1. ItemsOf(spill') \cup forgotten' = ItemsOf(spill) \cup forgotten \cup {i}
    BY <1>4, PayloadType, PutSpillType DEF PushToSpill, PushTwice
  <2> QED BY <1>1, <1>4, <2>1 DEF PushToSpill, PushTwice, Elsewhere
<1>5. CASE TakeBatch
  <2>1. ItemsOf(batch') = ItemsOf(spill) /\ ItemsOf(batch) = {}
    BY <1>5, ItemsOfEmpty DEF TakeBatch
  <2> QED BY <1>1, <1>5, <2>1 DEF TakeBatch, Elsewhere, history
<1>6. CASE WriteLine
  <2>1. batch # <<>>
    BY <1>6 DEF WriteLine, BufferTypeOK
  <2>2. Head(batch) \in Payloads /\ ItemsOf(batch) = {Head(batch).item} \cup ItemsOf(Tail(batch))
    BY <1>1, <2>1, ItemsOfTail
  <2>3. LinesKept /\ Head(batch).item \in ReadableIn(file') \cup spoilt'
    BY <1>6, <2>2, WriteTextKeeps DEF WriteLine
  <2> QED BY <1>1, <1>6, <2>2, <2>3 DEF WriteLine, Elsewhere, LinesKept
<1>7. CASE SpillWriteFails
  <2>1. LinesKept /\ ItemsOf(batch) \subseteq forgotten' \cup spoilt' \cup ReadableIn(file')
    BY <1>7, WriteEndsKeeps DEF SpillWriteFails
  <2> QED BY <1>1, <1>7, <2>1 DEF SpillWriteFails, Elsewhere, LinesKept
<1>8. CASE RestartBuffer
  <2>1. /\ LinesKept /\ ItemsOf(spill) \subseteq forgotten'
        /\ ItemsOf(batch) \subseteq forgotten' \cup spoilt' \cup ReadableIn(file')
    BY <1>8, WriteEndsKeeps DEF RestartBuffer
  <2> QED BY <1>1, <1>8, <2>1 DEF RestartBuffer, Elsewhere, LinesKept
<1>9. CASE DrainDirectly
  <2>1. ItemsOf(spill) \subseteq ItemsOf(spill')
    <3>1. temp[drain].entry \in Payloads
      BY <1>9, SpillTypes DEF DrainDirectly, Reads
    <3>2. spill' = spill \/ spill' = Append(spill, temp[drain].entry)
      BY <1>9 DEF DrainDirectly
    <3>3. ItemsOf(Append(spill, temp[drain].entry)) = ItemsOf(spill) \cup {temp[drain].entry.item}
      BY <1>1, <3>1, ItemsOfAppend
    <3> QED BY <3>2, <3>3
  <2> QED BY <1>1, <1>9, <2>1 DEF DrainDirectly, Elsewhere, history
<1>10. CASE DrainFails
  BY <1>1, <1>10 DEF DrainFails, Elsewhere
<1>11. Outage \/ Back \/ TakeLost \/ SweepLists \/ SweepReclaims \/ SweepSkips \/ Worker
         \/ Reestablish \/ OpenFile \/ DrainToRedis \/ DrainSkips \/ DrainEnds
         \/ UNCHANGED bufferVars
         => UNCHANGED <<pushed, spill, batch, file, forgotten, spoilt>>
  BY DEF Outage, Back, TakeLost, SweepLists, SweepReclaims, SweepSkips, Worker, Take,
         TakeFails, Execute, ExecuteFails, Ack, DeadLetter, Reestablish, OpenFile, DrainToRedis,
         DrainSkips, DrainEnds, bufferVars, spillVars, history
<1> QED BY <1>2, <1>3, <1>4, <1>5, <1>6, <1>7, <1>8, <1>9, <1>10, <1>11
        DEF BufferNext, Daemon, Sentinel

LEMMA WritesKeep ==
  ASSUME BufferTypeOK, WriteLine \/ SpillWriteFails \/ RestartBuffer
  PROVE  LinesKept
<1>1. CASE WriteLine
  <2>1. batch \in Seq(Payloads) /\ batch # <<>>
    BY <1>1 DEF WriteLine, BufferTypeOK
  <2>2. Head(batch) \in Payloads
    BY <2>1, ItemsOfTail
  <2> QED BY <1>1, <2>2, WriteTextKeeps DEF WriteLine
<1>2. CASE SpillWriteFails \/ RestartBuffer
  BY <1>2, WriteEndsKeeps DEF SpillWriteFails, RestartBuffer
<1> QED BY <1>1, <1>2

(* What happens to the file the sentinel reads.                            *)
LEMMA TempStep ==
  ASSUME BufferTypeOK, [BufferNext]_bufferVars
  PROVE  \/ UNCHANGED <<temp, drain>>
         \/ temp' = temp /\ (DrainToRedis \/ DrainDirectly \/ DrainSkips)
         \/ (WriteLine \/ SpillWriteFails \/ RestartBuffer) /\ LinesKept /\ drain' \in {drain, 0}
         \/ DrainBegins
         \/ DrainFails
         \/ DrainEnds
<1>1. WriteLine \/ SpillWriteFails \/ RestartBuffer => LinesKept /\ drain' \in {drain, 0}
  BY WritesKeep DEF WriteLine, SpillWriteFails, RestartBuffer
<1> QED BY <1>1
        DEF BufferNext, Outage, Back, PushToRedis, PushToSpill, PushTwice, TakeLost, SweepLists,
            SweepReclaims, SweepSkips, Worker, Take, TakeFails, Execute, ExecuteFails, Ack,
            DeadLetter, Daemon, TakeBatch, OpenFile, Sentinel, Reestablish, DrainToRedis,
            DrainDirectly, DrainSkips, bufferVars, spillVars

(* A line the sentinel is done with went to Redis, to the database or to   *)
(* the queue, or could not be read, or was late.                           *)
LEMMA ReadLine ==
  ASSUME BufferTypeOK, LateIsSpoilt, DrainToRedis \/ DrainDirectly \/ DrainSkips
  PROVE  drain' = drain + 1 /\ (Readable(temp[drain]) => temp[drain].entry.item \in Elsewhere')
<1>1. drain \in 1 .. Len(temp) /\ temp[drain].entry \in Payloads /\ spill \in Seq(Payloads)
  BY SpillTypes DEF DrainToRedis, DrainDirectly, DrainSkips, Reads
<1>2. CASE DrainToRedis
  <2>1. temp[drain].entry.item \in Kept'
    BY <1>1, <1>2, LPushType, InRedisIsHeld DEF DrainToRedis, Kept
  <2> QED BY <1>2, <2>1 DEF DrainToRedis, Elsewhere
<1>3. CASE DrainDirectly
  <2>1. applied' = applied \cup {temp[drain].entry.item} \/ spill' = Append(spill, temp[drain].entry)
    BY <1>3 DEF DrainDirectly
  <2>2. temp[drain].entry.item \in applied' \/ temp[drain].entry.item \in ItemsOf(spill')
    <3>1. ItemsOf(Append(spill, temp[drain].entry)) = ItemsOf(spill) \cup {temp[drain].entry.item}
      BY <1>1, ItemsOfAppend
    <3> QED BY <2>1, <3>1
  <2> QED BY <1>3, <2>2 DEF DrainDirectly, Elsewhere, Kept
<1>4. CASE DrainSkips
  <2>1. Readable(temp[drain]) => temp[drain].entry.item \in spoilt
    BY <1>1, <1>4 DEF DrainSkips, Readable, LateIsSpoilt
  <2> QED BY <1>4, <2>1 DEF DrainSkips, Elsewhere, history
<1> QED BY <1>2, <1>3, <1>4

LEMMA ReadIsElsewhereStep ==
  ASSUME BufferTypeOK, CommittedIsApplied, LateIsSpoilt, ReadIsElsewhere, [BufferNext]_bufferVars
  PROVE  ReadIsElsewhere'
<1>1. drain \in Nat /\ Len(temp) \in Nat /\ drain <= Len(temp) + 1
  BY SpillTypes
<1>2. CASE DrainBegins
  <2>1. drain' = 1
    BY <1>2 DEF DrainBegins
  <2> QED BY <2>1 DEF ReadIsElsewhere
<1>3. CASE DrainFails \/ DrainEnds \/ drain' = 0
  <2>1. drain' = 0
    BY <1>3 DEF DrainFails, DrainEnds
  <2> QED BY <2>1 DEF ReadIsElsewhere
<1>4. CASE ~DrainBegins
  <2>1. Elsewhere \subseteq Elsewhere'
    BY <1>4, ElsewhereStep
  <2>2. CASE UNCHANGED <<temp, drain>>
    BY <2>1, <2>2 DEF ReadIsElsewhere
  <2>3. CASE temp' = temp /\ (DrainToRedis \/ DrainDirectly \/ DrainSkips)
    <3>1. drain' = drain + 1 /\ (Readable(temp[drain]) => temp[drain].entry.item \in Elsewhere')
      BY <2>3, ReadLine
    <3>2. ASSUME NEW k \in 1 .. Len(temp), k < drain + 1, Readable(temp[k])
          PROVE  temp[k].entry.item \in Elsewhere'
      <4>1. k < drain \/ k = drain
        BY <1>1, <3>2
      <4> QED BY <2>1, <3>1, <3>2, <4>1 DEF ReadIsElsewhere
    <3> QED BY <2>3, <3>1, <3>2 DEF ReadIsElsewhere
  <2>4. CASE LinesKept /\ drain' = drain
    <3>1. ASSUME NEW k \in 1 .. Len(temp'), k < drain, Readable(temp'[k])
          PROVE  temp'[k].entry.item \in Elsewhere'
      <4>1. k \in 1 .. Len(temp)
        BY <1>1, <3>1
      <4>2. temp'[k] = temp[k]
        BY <2>4, <3>1, <4>1 DEF LinesKept
      <4> QED BY <2>1, <3>1, <4>1, <4>2 DEF ReadIsElsewhere
    <3> QED BY <2>4, <3>1 DEF ReadIsElsewhere
  <2> QED BY <1>3, <1>4, <2>2, <2>3, <2>4, TempStep
<1> QED BY <1>2, <1>4

(* Late lines are only where the handle led after the sentinel's rename.   *)
LEMMA LateStep ==
  ASSUME BufferTypeOK, LateIsSpoilt, [BufferNext]_bufferVars
  PROVE  LateIsSpoilt'
<1>1. CASE UNCHANGED <<file, temp, spoilt>>
  BY <1>1 DEF LateIsSpoilt
<1>2. CASE WriteLine \/ SpillWriteFails \/ RestartBuffer
  BY <1>2, WritesKeep DEF LinesKept
<1>3. Len(<<>>) = 0
  BY EmptySeq
<1>4. CASE DrainBegins
  BY <1>3, <1>4 DEF DrainBegins, LateIsSpoilt
<1>5. CASE DrainFails
  <2>1. temp \in Seq(Lines)
    BY SpillTypes
  <2>2. \A k \in 1 .. Len(file') : file'[k].kind # "late"
    BY <1>5, <2>1, WholeAgainIs DEF DrainFails
  <2> QED BY <1>3, <1>5, <2>2 DEF DrainFails, LateIsSpoilt
<1>6. CASE DrainEnds
  BY <1>3, <1>6 DEF DrainEnds, LateIsSpoilt, history
<1> QED BY <1>1, <1>2, <1>4, <1>5, <1>6
        DEF BufferNext, Outage, Back, PushToRedis, PushToSpill, PushTwice, TakeLost, SweepLists,
            SweepReclaims, SweepSkips, Worker, Take, TakeFails, Execute, ExecuteFails, Ack,
            DeadLetter, Daemon, TakeBatch, OpenFile, Sentinel, Reestablish, DrainToRedis,
            DrainDirectly, DrainSkips, bufferVars, spillVars, history

(* For any number of faults, and batches of any size: a statement that     *)
(* push_query took is executed, in Redis, in memory, in a line of the two  *)
(* files that can be read, or was in a place that was lost whole or in a   *)
(* line that was cut off, glued or written late.                           *)
THEOREM NothingElseVanishes == BufferSpec => []VanishesOnlyWithItsPlace
<1> DEFINE Placed == pushed \subseteq Elsewhere \cup ReadableIn(temp)
           Inv == BufferTypeOK /\ CommittedIsApplied /\ LateIsSpoilt /\ ReadIsElsewhere /\ Placed
<1>1. BufferInit => Inv
  <2> SUFFICES ASSUME BufferInit PROVE Inv
    OBVIOUS
  <2>1. worker.at = "idle" /\ pushed = {} /\ Len(temp) = 0 /\ Len(file) = 0
    BY EmptySeq DEF BufferInit, Resting
  <2> QED BY <2>1, BufferTypeInit DEF CommittedIsApplied, ReadIsElsewhere, LateIsSpoilt
<1>2. Inv /\ [BufferNext]_bufferVars => Inv'
  <2> SUFFICES ASSUME Inv, [BufferNext]_bufferVars PROVE Inv'
    OBVIOUS
  <2>1. file \in Seq(Lines) /\ temp \in Seq(Lines) /\ drain \in Nat
    BY SpillTypes
  <2>2. CASE DrainBegins
    <3>1. /\ ReadableIn(temp') = ReadableIn(file) /\ forgotten' = forgotten \cup ReadableIn(temp)
          /\ UNCHANGED <<pushed, spill, batch, spoilt>>
      BY <2>2 DEF DrainBegins
    <3>2. Kept \subseteq Kept'
      BY KeptStep
    <3>3. Placed'
      BY <3>1, <3>2 DEF Elsewhere
    <3> QED BY <3>3, BufferTypeStep, KeptStep, LateStep, ReadIsElsewhereStep
  <2>3. CASE ~DrainBegins
    <3>1. Elsewhere \subseteq Elsewhere' /\ pushed' \subseteq pushed \cup Elsewhere'
      BY <2>3, ElsewhereStep
    <3>2. ReadableIn(temp) \subseteq Elsewhere' \cup ReadableIn(temp')
      <4>1. CASE temp' = temp
        BY <4>1
      <4>2. CASE LinesKept
        BY <4>2 DEF LinesKept, Elsewhere
      <4>3. CASE DrainFails
        <5>1. ReadableIn(file') = ReadableIn(temp)
          BY <2>1, <4>3, WholeAgainIs DEF DrainFails
        <5> QED BY <5>1 DEF Elsewhere
      <4>4. CASE DrainEnds
        <5>1. \A k \in 1 .. Len(temp) : k < drain
          BY <2>1, <4>4 DEF DrainEnds, AllRead
        <5>2. ReadableIn(temp) \subseteq Elsewhere
          BY <2>1, <5>1, ReadableByIndex DEF ReadIsElsewhere
        <5> QED BY <3>1, <5>2
      <4> QED BY <2>3, <4>1, <4>2, <4>3, <4>4, TempStep
    <3>3. Placed'
      BY <3>1, <3>2
    <3> QED BY <3>3, BufferTypeStep, KeptStep, LateStep, ReadIsElsewhereStep
  <2> QED BY <2>2, <2>3
<1>3. Inv => VanishesOnlyWithItsPlace
  BY DEF VanishesOnlyWithItsPlace, Elsewhere, Kept
<1> HIDE DEF Inv
<1> QED BY <1>1, <1>2, <1>3, PTL DEF BufferSpec
=============================================================================
