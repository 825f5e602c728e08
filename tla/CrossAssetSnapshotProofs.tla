----------------------- MODULE CrossAssetSnapshotProofs -----------------------
(***************************************************************************)
(* Theorems about the books, the multiplexer and the snapshot of all       *)
(* books, for any shards and symbols, any number of updates, losses and    *)
(* failures, and a ring of any size.                                       *)
(***************************************************************************)
EXTENDS CrossAssetSnapshot, SequenceTheorems, WellFoundedInduction, TLAPS

-----------------------------------------------------------------------------
(* The loop that replays the ring, by induction over its frames.           *)

(* A set of numbers has a least one.                                       *)
LEMMA LeastOf ==
  ASSUME NEW I \in SUBSET Nat, I # {}
  PROVE  Min(I) \in I /\ \A y \in I : Min(I) <= y
<1> DEFINE R == OpToRel(<, Nat)
<1>1. IsWellFoundedOn(R, Nat)
  BY NatLessThanWellFounded
<1>2. \A x, y \in Nat : <<x, y>> \in R <=> x < y
  BY DEF OpToRel
<1> HIDE DEF R
<1>3. PICK x \in I : \A y \in I : ~(<<y, x>> \in R)
  BY <1>1, WFMin, Zenon
<1>4. \A y \in I : ~(y < x)
  BY <1>2, <1>3, Zenon
<1>5. \A y \in I : x <= y
  BY <1>4
<1>6. \E z \in I : \A y \in I : z <= y
  BY <1>5
<1> QED BY <1>6 DEF Min

(* What holds before the loop and is kept by each round holds throughout.  *)
LEMMA Rounds ==
  ASSUME NEW L \in Nat, NEW S, 0 \in S, \A n \in 1 .. L : n - 1 \in S => n \in S
  PROVE  \A n \in 0 .. L : n \in S
<1> DEFINE Bad == {n \in 0 .. L : n \notin S}
<1> SUFFICES ASSUME Bad # {} PROVE FALSE
  OBVIOUS
<1>1. Bad \in SUBSET Nat
  OBVIOUS
<1>2. PICK n \in Bad : \A m \in Bad : n <= m
  <2> HIDE DEF Bad
  <2> QED BY <1>1, LeastOf
<1>3. n # 0 /\ n \in 1 .. L
  BY <1>2
<1>4. n - 1 \in 0 .. L /\ n - 1 < n
  BY <1>3
<1>5. n - 1 \in S
  BY <1>2, <1>4
<1> QED BY <1>2, <1>3, <1>5

(* f[n] is the book after n frames. *)
IsReplay(f, b, ring, m) ==
  f = [n \in 0 .. m |-> IF n = 0 THEN b ELSE Replayed(f[n - 1], ring[n])]

(* The loop is well defined, and AllReplayed is the book at its end.       *)
LEMMA ReplayRounds ==
  ASSUME NEW b, NEW ring, Len(ring) \in Nat
  PROVE  \E f : IsReplay(f, b, ring, Len(ring)) /\ AllReplayed(b, ring) = f[Len(ring)]
<1> DEFINE L == Len(ring)
           S == {m \in 0 .. L : \E f : IsReplay(f, b, ring, m)}
<1>1. 0 \in S
  <2> DEFINE g == [n \in 0 .. 0 |-> b]
  <2>1. IsReplay(g, b, ring, 0)
    BY DEF IsReplay
  <2> QED BY <2>1
<1>2. \A m \in 1 .. L : m - 1 \in S => m \in S
  <2> SUFFICES ASSUME NEW m \in 1 .. L, m - 1 \in S PROVE m \in S
    OBVIOUS
  <2>1. PICK f : IsReplay(f, b, ring, m - 1)
    OBVIOUS
  <2> DEFINE g == [n \in 0 .. m |-> IF n = m THEN Replayed(f[m - 1], ring[m]) ELSE f[n]]
  <2>2. \A n \in 0 .. m - 1 : g[n] = f[n] /\ f[n] = IF n = 0 THEN b ELSE Replayed(f[n - 1], ring[n])
    BY <2>1 DEF IsReplay
  <2>3. \A n \in 0 .. m : g[n] = IF n = 0 THEN b ELSE Replayed(g[n - 1], ring[n])
    <3> SUFFICES ASSUME NEW n \in 0 .. m
                 PROVE  g[n] = IF n = 0 THEN b ELSE Replayed(g[n - 1], ring[n])
      OBVIOUS
    <3>1. CASE n = m
      <4>1. g[n] = Replayed(f[n - 1], ring[n])
        BY <3>1
      <4>2. n - 1 \in 0 .. m - 1 /\ n # 0
        BY <3>1
      <4> QED BY <4>1, <4>2, <2>2
    <3>2. CASE n # m /\ n # 0
      <4>1. n \in 0 .. m - 1 /\ n - 1 \in 0 .. m - 1
        BY <3>2
      <4> QED BY <3>2, <4>1, <2>2
    <3>3. CASE n # m /\ n = 0
      <4>1. n \in 0 .. m - 1
        BY <3>3
      <4> QED BY <3>3, <4>1, <2>2
    <3> QED BY <3>1, <3>2, <3>3
  <2>4. IsReplay(g, b, ring, m)
    <3> DEFINE h == [n \in 0 .. m |-> IF n = 0 THEN b ELSE Replayed(g[n - 1], ring[n])]
    <3>1. \A n \in 0 .. m : g[n] = h[n]
      BY <2>3
    <3>2. DOMAIN g = 0 .. m /\ DOMAIN h = 0 .. m
      OBVIOUS
    <3>3. g = h
      BY <3>1, <3>2
    <3> QED BY <3>3 DEF IsReplay
  <2> QED BY <2>4
<1>3. \E f : IsReplay(f, b, ring, L)
  <2>1. L \in Nat
    OBVIOUS
  <2> HIDE DEF S, L
  <2>2. \A n \in 0 .. L : n \in S
    BY <1>1, <1>2, <2>1, Rounds
  <2>3. L \in S
    BY <2>1, <2>2
  <2> QED BY <2>3 DEF S
<1> DEFINE r == CHOOSE f : f = [n \in 0 .. L |-> IF n = 0 THEN b ELSE Replayed(f[n - 1], ring[n])]
<1>4. r = [n \in 0 .. L |-> IF n = 0 THEN b ELSE Replayed(r[n - 1], ring[n])]
  BY <1>3 DEF IsReplay
<1>5. AllReplayed(b, ring) = r[L]
  BY DEF AllReplayed
<1> QED BY <1>4, <1>5 DEF IsReplay

-----------------------------------------------------------------------------
(* What a snapshot makes of a book.                                        *)

SoundBook(b) ==
  /\ b.ok <=> b.u # 0
  /\ b.ring # <<>> => b.u = 0

Whole(b) == b.holds = 1 .. b.u

(* A frame that was sent, with U and without.                              *)
WasSent(f) == f.from \in Nat \ {0} /\ f.from <= f.hi
WithU(f) == WasSent(f) /\ f.U \in {f.from, f.hi + 1}
WithoutU(f) == WasSent(f) /\ f.U = 0

(* The frames of the ring that are newer than u go on where u ends.        *)
Continues(ring, u) ==
  \A i \in DOMAIN ring :
    ring[i].hi > u => ring[i].from <= u + 1 \/ (i > 1 /\ ring[i].from = ring[i - 1].hi + 1)

(* The fields of a frame, and of a book.                                   *)
LEMMA FrameFields ==
  ASSUME NEW f \in Deltas
  PROVE  f.from \in Nat /\ f.hi \in Nat /\ f.U \in Nat
BY DEF Deltas

LEMMA BookFields ==
  ASSUME NEW b \in Books
  PROVE  /\ b.u \in Nat /\ b.holds \subseteq Nat /\ b.ok \in BOOLEAN
         /\ b.ring \in Seq(Deltas) /\ b.moved \in BOOLEAN
BY DEF Books

(* The splice cuts off frames that are older than the snapshot.            *)
LEMMA SplicedIsSuffix ==
  ASSUME NEW ring \in Seq(Deltas), NEW u \in Nat
  PROVE  LET t == Spliced(ring, u)
         IN \E k \in Nat :
              /\ t \in Seq(Deltas)
              /\ k <= Len(ring) /\ Len(t) = Len(ring) - k
              /\ \A i \in 1 .. Len(t) : i + k \in 1 .. Len(ring) /\ t[i] = ring[i + k]
              /\ \A i \in 1 .. k : ring[i].hi < u
<1> DEFINE I == {i \in 1 .. Len(ring) : ring[i].hi >= u}
<1>1. CASE ring # <<>> /\ u \in Head(ring).hi .. Last(ring).hi
  <2>1. Len(ring) \in Nat \ {0} /\ Last(ring) = ring[Len(ring)]
    BY <1>1, EmptySeq DEF Last
  <2>2. ring[Len(ring)] \in Deltas /\ ring[Len(ring)].hi \in Nat
    BY <2>1, ElementOfSeq, FrameFields
  <2>3. Head(ring) \in Deltas /\ Head(ring).hi \in Nat
    BY <1>1, FrameFields
  <2>4. Len(ring) \in I
    BY <1>1, <2>1, <2>2, <2>3
  <2>5. I \in SUBSET Nat /\ I # {}
    BY <2>4
  <2>6. PICK m \in I : m = Min(I) /\ \A j \in I : m <= j
    <3> HIDE DEF I
    <3> QED BY <2>5, LeastOf
  <2>7. SelectInSeq(ring, LAMBDA f : f.hi >= u) = m
    BY <2>5, <2>6 DEF SelectInSeq
  <2>8. Spliced(ring, u) = SubSeq(ring, m, Len(ring))
    BY <1>1, <2>7 DEF Spliced
  <2>9. m \in 1 .. Len(ring) /\ m - 1 \in Nat
    BY <2>6
  <2>10. \A i \in 1 .. m - 1 : ring[i].hi < u
    <3> SUFFICES ASSUME NEW i \in 1 .. m - 1 PROVE ring[i].hi < u
      OBVIOUS
    <3>1. i \in 1 .. Len(ring) /\ i < m /\ i \notin I
      BY <2>6, <2>9
    <3>2. ring[i] \in Deltas /\ ring[i].hi \in Nat
      BY <3>1, ElementOfSeq, FrameFields
    <3> QED BY <3>1, <3>2
  <2> DEFINE t == SubSeq(ring, m, Len(ring))
  <2>11. /\ t \in Seq(Deltas) /\ Len(t) = Len(ring) - (m - 1)
         /\ \A i \in 1 .. Len(t) : i + (m - 1) \in 1 .. Len(ring) /\ t[i] = ring[i + (m - 1)]
    BY <2>9, SubSeqProperties
  <2> HIDE DEF t
  <2>12. m - 1 <= Len(ring)
    BY <2>9
  <2> QED BY <2>8, <2>9, <2>10, <2>11, <2>12 DEF t
<1>2. CASE ~(ring # <<>> /\ u \in Head(ring).hi .. Last(ring).hi)
  <2>1. Spliced(ring, u) = ring
    BY <1>2 DEF Spliced
  <2>2. /\ 0 \in Nat /\ 0 <= Len(ring) /\ Len(ring) = Len(ring) - 0
        /\ \A i \in 1 .. Len(ring) : i + 0 \in 1 .. Len(ring) /\ ring[i] = ring[i + 0]
        /\ \A i \in 1 .. 0 : ring[i].hi < u
    OBVIOUS
  <2> QED BY <2>1, <2>2
<1> QED BY <1>1, <1>2

(* The book after a reset.                                                 *)
LEMMA BlankIsSound ==
  Blank \in Books /\ SoundBook(Blank) /\ Blank.ring = <<>> /\ Blank.moved = TRUE /\ ~Blank.ok
<1>1. <<>> \in Seq(Deltas)
  OBVIOUS
<1> QED BY <1>1 DEF Blank, Books, SoundBook

(* Updates that go on where a whole book ends, or before, leave it whole.  *)
LEMMA WithUpdatesBook ==
  ASSUME NEW b \in Books, b.ok, b.ring = <<>>, NEW f \in Deltas, f.hi > b.u
  PROVE  LET r == WithUpdates(b, f)
         IN /\ r \in Books /\ SoundBook(r) /\ r.u = f.hi /\ r.ok
            /\ r.ring = <<>> /\ r.moved = b.moved
            /\ b.holds \subseteq r.holds
            /\ Whole(b) /\ WasSent(f) /\ f.from <= b.u + 1 => Whole(r)
<1> DEFINE r == WithUpdates(b, f)
<1>1. f.from \in Nat /\ f.hi \in Nat /\ f.U \in Nat
  BY FrameFields
<1>2. /\ b.u \in Nat /\ b.holds \subseteq Nat /\ b.ok \in BOOLEAN
      /\ b.ring \in Seq(Deltas) /\ b.moved \in BOOLEAN
  BY BookFields
<1>3. b.holds \cup (f.from .. f.hi) \in SUBSET Nat
  BY <1>1, <1>2
<1>4. r \in Books
  BY <1>1, <1>3 DEF WithUpdates, Books
<1>5. /\ r.u = f.hi /\ r.ok = b.ok /\ r.ring = b.ring /\ r.moved = b.moved
      /\ r.holds = b.holds \cup (f.from .. f.hi)
  BY DEF WithUpdates, Books
<1>7. ASSUME b.holds = 1 .. b.u, WasSent(f), f.from <= b.u + 1
      PROVE  b.holds \cup (f.from .. f.hi) = 1 .. f.hi
  BY <1>1, <1>2, <1>7 DEF WasSent
<1> HIDE DEF r
<1>8. /\ r.u = f.hi /\ r.ok /\ r.ring = <<>> /\ r.moved = b.moved
      /\ r.holds = b.holds \cup (f.from .. f.hi)
  BY <1>5
<1>9. SoundBook(r)
  BY <1>1, <1>2, <1>8 DEF SoundBook
<1>10. Whole(b) /\ WasSent(f) /\ f.from <= b.u + 1 => Whole(r)
  BY <1>7, <1>8 DEF Whole
<1> QED BY <1>4, <1>8, <1>9, <1>10 DEF r

(* One round, for any frame.                                               *)
LEMMA ReplayedBook ==
  ASSUME NEW b \in Books, SoundBook(b), b.ring = <<>>, b.moved = TRUE,
         NEW f \in Deltas
  PROVE  LET r == Replayed(b, f)
         IN /\ r \in Books /\ SoundBook(r) /\ r.ring = <<>> /\ r.moved = TRUE
            /\ WithU(f) /\ (b.ok => Whole(b)) => (r.ok => Whole(r))
            /\ b.ok /\ Whole(b) /\ WithoutU(f) /\ (f.hi > b.u => f.from <= b.u + 1) =>
                 r.ok /\ Whole(r) /\ r.u >= b.u /\ r.u >= f.hi
<1> DEFINE r == Replayed(b, f)
<1>1. f.from \in Nat /\ f.hi \in Nat /\ f.U \in Nat /\ b.u \in Nat
  BY FrameFields, BookFields
<1>2. CASE ~b.ok \/ f.hi <= b.u
  <2>1. r = b
    BY <1>2 DEF Replayed
  <2> HIDE DEF r
  <2> QED BY <1>1, <1>2, <2>1 DEF r
<1>3. CASE b.ok /\ f.hi > b.u /\ f.U > b.u + 1
  <2>1. r = Blank
    BY <1>1, <1>3 DEF Replayed
  <2>2. ~WithoutU(f)
    BY <1>1, <1>3 DEF WithoutU
  <2> HIDE DEF r
  <2> QED BY <2>1, <2>2, BlankIsSound DEF r
<1>4. CASE b.ok /\ f.hi > b.u /\ ~(f.U > b.u + 1)
  <2>1. r = WithUpdates(b, f)
    BY <1>1, <1>4 DEF Replayed
  <2>2. WithU(f) => WasSent(f) /\ f.from <= b.u + 1
    BY <1>1, <1>4 DEF WithU, WasSent
  <2>3. WithoutU(f) => WasSent(f)
    BY DEF WithoutU
  <2> HIDE DEF r
  <2>4. /\ r \in Books /\ SoundBook(r) /\ r.u = f.hi /\ r.ok
        /\ r.ring = <<>> /\ r.moved = b.moved
        /\ Whole(b) /\ WasSent(f) /\ f.from <= b.u + 1 => Whole(r)
    BY <1>4, <2>1, WithUpdatesBook
  <2>5. r.u >= b.u /\ r.u >= f.hi
    BY <1>1, <1>4, <2>4
  <2> QED BY <1>4, <2>2, <2>3, <2>4, <2>5 DEF r
<1>5. b.ok \in BOOLEAN
  BY BookFields
<1>6. \/ ~b.ok \/ f.hi <= b.u
      \/ b.ok /\ f.hi > b.u /\ f.U > b.u + 1
      \/ b.ok /\ f.hi > b.u /\ ~(f.U > b.u + 1)
  BY <1>1, <1>5
<1> QED BY <1>2, <1>3, <1>4, <1>6

(* The book that a snapshot starts from.                                   *)
LEMMA AnchoredBook ==
  ASSUME NEW u \in Nat \ {0}
  PROVE  LET b == Anchored(u)
         IN /\ b \in Books /\ SoundBook(b) /\ b.ring = <<>> /\ b.moved = TRUE
            /\ b.ok /\ Whole(b) /\ b.u = u
<1>1. <<>> \in Seq(Deltas)
  OBVIOUS
<1>2. 1 .. u \in SUBSET Nat
  OBVIOUS
<1> QED BY <1>1, <1>2 DEF Anchored, Books, SoundBook, Whole

(* All rounds: what a snapshot of u makes of the ring of a book.           *)
LEMMA SnapshotBook ==
  ASSUME NEW b \in Books, NEW u \in Nat \ {0}
  PROVE  LET r == Snapshot(b, u)
         IN /\ r \in Books /\ SoundBook(r) /\ r.ring = <<>> /\ r.moved = TRUE
            /\ (\A i \in DOMAIN b.ring : WithU(b.ring[i])) => (r.ok => Whole(r))
            /\ (\A i \in DOMAIN b.ring : WithoutU(b.ring[i])) /\ Continues(b.ring, u) =>
                 r.ok /\ Whole(r) /\ r.u >= u /\ \A i \in DOMAIN b.ring : b.ring[i].hi <= r.u
<1> DEFINE ring == b.ring
           t == Spliced(ring, u)
           L == Len(t)
<1>1. ring \in Seq(Deltas) /\ u \in Nat /\ DOMAIN ring = 1 .. Len(ring)
  BY BookFields
<1>2. PICK k \in Nat :
        /\ t \in Seq(Deltas)
        /\ k <= Len(ring) /\ Len(t) = Len(ring) - k
        /\ \A i \in 1 .. Len(t) : i + k \in 1 .. Len(ring) /\ t[i] = ring[i + k]
        /\ \A i \in 1 .. k : ring[i].hi < u
  <2> HIDE DEF ring
  <2> QED BY <1>1, SplicedIsSuffix
<1>3. L \in Nat /\ Len(ring) \in Nat
  BY <1>1, <1>2
<1> HIDE DEF ring, t, L
<1>4. PICK f : IsReplay(f, Anchored(u), t, L) /\ AllReplayed(Anchored(u), t) = f[L]
  BY <1>3, ReplayRounds DEF L
<1>5. f[0] = Anchored(u) /\ \A n \in 1 .. L : f[n] = Replayed(f[n - 1], t[n])
  <2>1. \A n \in 0 .. L : f[n] = IF n = 0 THEN Anchored(u) ELSE Replayed(f[n - 1], t[n])
    BY <1>4 DEF IsReplay
  <2> QED BY <1>3, <2>1
<1>6. \A n \in 1 .. L : t[n] \in Deltas
  BY <1>2 DEF L
<1>7. \A i \in DOMAIN ring : ring[i] \in Deltas
  BY <1>1
<1>8. Snapshot(b, u) = f[L]
  BY <1>4 DEF Snapshot, t, ring
<1> DEFINE Typed(n) == f[n] \in Books /\ SoundBook(f[n]) /\ f[n].ring = <<>> /\ f[n].moved = TRUE
<1>9. \A n \in 0 .. L : Typed(n)
  <2> DEFINE S == {n \in 0 .. L : Typed(n)}
  <2>1. 0 \in S
    <3>1. Typed(0)
      BY <1>5, AnchoredBook
    <3> QED BY <1>3, <3>1
  <2>2. \A n \in 1 .. L : n - 1 \in S => n \in S
    <3> SUFFICES ASSUME NEW n \in 1 .. L, n - 1 \in S PROVE n \in S
      OBVIOUS
    <3>1. Typed(n - 1)
      OBVIOUS
    <3>2. f[n] = Replayed(f[n - 1], t[n]) /\ t[n] \in Deltas
      BY <1>5, <1>6
    <3>3. Typed(n)
      BY <3>1, <3>2, ReplayedBook
    <3> QED BY <3>3
  <2>3. \A n \in 0 .. L : n \in S
    <3> HIDE DEF S
    <3> QED BY <1>3, <2>1, <2>2, Rounds
  <2> QED BY <2>3
<1>10. ASSUME \A i \in DOMAIN ring : WithU(ring[i])
       PROVE  f[L].ok => Whole(f[L])
  <2> DEFINE S == {n \in 0 .. L : f[n].ok => Whole(f[n])}
  <2>1. 0 \in S
    <3>1. Whole(f[0])
      BY <1>5, AnchoredBook
    <3> QED BY <1>3, <3>1
  <2>2. \A n \in 1 .. L : n - 1 \in S => n \in S
    <3> SUFFICES ASSUME NEW n \in 1 .. L, n - 1 \in S PROVE n \in S
      OBVIOUS
    <3>1. Typed(n - 1) /\ (f[n - 1].ok => Whole(f[n - 1]))
      BY <1>3, <1>9
    <3>2. f[n] = Replayed(f[n - 1], t[n]) /\ t[n] \in Deltas
      BY <1>5, <1>6
    <3>3. WithU(t[n])
      BY <1>1, <1>2, <1>10 DEF L
    <3>4. f[n].ok => Whole(f[n])
      BY <3>1, <3>2, <3>3, ReplayedBook
    <3> QED BY <3>4
  <2>3. \A n \in 0 .. L : n \in S
    <3> HIDE DEF S
    <3> QED BY <1>3, <2>1, <2>2, Rounds
  <2>4. L \in 0 .. L
    BY <1>3
  <2> QED BY <2>3, <2>4
<1>11. ASSUME \A i \in DOMAIN ring : WithoutU(ring[i]), Continues(ring, u)
       PROVE  /\ f[L].ok /\ Whole(f[L]) /\ f[L].u >= u
              /\ \A i \in DOMAIN ring : ring[i].hi <= f[L].u
  <2> DEFINE Grown(n) == /\ f[n].ok /\ Whole(f[n]) /\ f[n].u >= u
                         /\ \A i \in 1 .. n : t[i].hi <= f[n].u
             S == {n \in 0 .. L : Grown(n)}
  <2>1. 0 \in S
    <3>1. f[0].ok /\ Whole(f[0]) /\ f[0].u = u
      BY <1>5, AnchoredBook
    <3>2. \A i \in 1 .. 0 : t[i].hi <= f[0].u
      OBVIOUS
    <3> QED BY <1>3, <3>1, <3>2
  <2>2. \A n \in 1 .. L : n - 1 \in S => n \in S
    <3> SUFFICES ASSUME NEW n \in 1 .. L, n - 1 \in S PROVE n \in S
      OBVIOUS
    <3>1. Typed(n - 1) /\ Grown(n - 1) /\ Typed(n)
      BY <1>3, <1>9
    <3>2. f[n] = Replayed(f[n - 1], t[n]) /\ t[n] \in Deltas
      BY <1>5, <1>6
    <3>3. n + k \in 1 .. Len(ring) /\ t[n] = ring[n + k]
      BY <1>2 DEF L
    <3>4. WithoutU(t[n])
      BY <1>1, <1>11, <3>3
    <3>5. f[n - 1].u \in Nat /\ f[n].u \in Nat
      BY <3>1, BookFields
    <3>6. ASSUME t[n].hi > f[n - 1].u PROVE t[n].from <= f[n - 1].u + 1
      <4>1. t[n].hi \in Nat /\ t[n].from \in Nat
        BY <3>2, FrameFields
      <4>2. t[n].hi > u
        BY <1>1, <3>1, <3>5, <3>6, <4>1
      <4>3. ring[n + k].from <= u + 1 \/ (n + k > 1 /\ ring[n + k].from = ring[n + k - 1].hi + 1)
        BY <1>1, <1>11, <3>3, <4>2 DEF Continues
      <4>4. CASE ring[n + k].from <= u + 1
        <5>1. t[n].from <= u + 1
          BY <3>3, <4>4
        <5>2. u <= f[n - 1].u
          BY <3>1
        <5> QED BY <1>1, <3>5, <4>1, <5>1, <5>2
      <4>5. CASE n + k > 1 /\ ring[n + k].from = ring[n + k - 1].hi + 1 /\ n > 1
        <5>1. n - 1 \in 1 .. L /\ n - 1 \in 1 .. n - 1 /\ (n - 1) + k = n + k - 1
          BY <1>3, <4>5
        <5>2. t[n - 1] = ring[n + k - 1]
          BY <1>2, <5>1 DEF L
        <5>3. t[n - 1].hi <= f[n - 1].u
          BY <3>1, <5>1
        <5>4. t[n - 1].hi \in Nat
          BY <5>1, <1>6, FrameFields
        <5>5. t[n].from = t[n - 1].hi + 1
          BY <3>3, <4>5, <5>2
        <5> QED BY <3>5, <5>3, <5>4, <5>5
      <4>6. CASE n + k > 1 /\ ring[n + k].from = ring[n + k - 1].hi + 1 /\ ~(n > 1)
        <5>1. n = 1 /\ n + k - 1 = k /\ k \in 1 .. k /\ k \in 1 .. Len(ring)
          BY <1>2, <1>3, <3>3, <4>6
        <5>2. ring[k].hi < u
          BY <1>2, <5>1
        <5>3. ring[k].hi \in Nat
          BY <1>1, <1>7, <5>1, FrameFields
        <5> QED BY <1>1, <3>1, <3>3, <3>5, <4>6, <5>1, <5>2, <5>3
      <4> QED BY <4>3, <4>4, <4>5, <4>6
    <3>7. f[n].ok /\ Whole(f[n]) /\ f[n].u >= f[n - 1].u /\ f[n].u >= t[n].hi
      BY <3>1, <3>2, <3>4, <3>6, ReplayedBook
    <3>8. \A i \in 1 .. n : t[i].hi <= f[n].u
      <4> SUFFICES ASSUME NEW i \in 1 .. n PROVE t[i].hi <= f[n].u
        OBVIOUS
      <4>1. t[i].hi \in Nat
        BY <1>3, <1>6, FrameFields
      <4>2. CASE i = n
        BY <3>5, <3>7, <4>1, <4>2
      <4>3. CASE i # n
        <5>1. t[i].hi <= f[n - 1].u
          BY <3>1, <4>3
        <5> QED BY <3>5, <3>7, <4>1, <5>1
      <4> QED BY <4>2, <4>3
    <3>9. f[n].u >= u
      BY <1>1, <3>1, <3>5, <3>7
    <3> QED BY <3>7, <3>8, <3>9
  <2>3. \A n \in 0 .. L : n \in S
    <3> HIDE DEF S
    <3> QED BY <1>3, <2>1, <2>2, Rounds
  <2>4. Grown(L)
    <3>1. L \in 0 .. L
      BY <1>3
    <3> QED BY <2>3, <3>1
  <2>5. \A i \in DOMAIN ring : ring[i].hi <= f[L].u
    <3> SUFFICES ASSUME NEW i \in 1 .. Len(ring) PROVE ring[i].hi <= f[L].u
      BY <1>1
    <3>1. ring[i].hi \in Nat /\ f[L].u \in Nat
      <4>1. L \in 0 .. L
        BY <1>3
      <4> QED BY <1>1, <1>7, <1>9, <4>1, FrameFields, BookFields
    <3>2. CASE i <= k
      <4>1. ring[i].hi < u
        BY <1>2, <3>2
      <4> QED BY <1>1, <2>4, <3>1, <4>1
    <3>3. CASE ~(i <= k)
      <4>1. i - k \in 1 .. L /\ (i - k) + k = i
        BY <1>2, <1>3, <3>3 DEF L
      <4>2. t[i - k] = ring[i]
        BY <1>2, <4>1 DEF L
      <4> QED BY <2>4, <4>1, <4>2
    <3> QED BY <3>2, <3>3
  <2> QED BY <2>4, <2>5
<1>12. L \in 0 .. L
  BY <1>3
<1>13. Typed(L)
  BY <1>9, <1>12
<1> QED BY <1>8, <1>10, <1>11, <1>13 DEF ring

-----------------------------------------------------------------------------
(* What a delta makes of a book.                                           *)

(* The ring keeps its bound, and as long as it is not full all frames.     *)
LEMMA WrittenRing ==
  ASSUME NEW ring \in Seq(Deltas), Len(ring) <= Capacity, NEW f \in Deltas
  PROVE  LET r == Written(ring, f)
         IN /\ r \in Seq(Deltas) /\ Len(r) <= Capacity
            /\ \A i \in DOMAIN r : r[i] = f \/ \E j \in DOMAIN ring : r[i] = ring[j]
            /\ Len(ring) < Capacity => r = Append(ring, f)
<1> DEFINE kept == IF Len(ring) >= Capacity THEN Tail(ring) ELSE ring
<1>1. Capacity \in Nat \ {0} /\ Len(ring) \in Nat
  BY BookAssumption
<1>2. /\ kept \in Seq(Deltas) /\ Len(kept) + 1 <= Capacity
      /\ \A i \in 1 .. Len(kept) : \E j \in 1 .. Len(ring) : kept[i] = ring[j]
  <2>1. CASE Len(ring) >= Capacity
    <3>1. ring # <<>>
      BY <1>1, <2>1
    <3>2. /\ Tail(ring) \in Seq(Deltas) /\ Len(Tail(ring)) = Len(ring) - 1
          /\ \A i \in 1 .. Len(Tail(ring)) : Tail(ring)[i] = ring[i + 1]
      BY <3>1, HeadTailProperties
    <3>3. \A i \in 1 .. Len(Tail(ring)) : i + 1 \in 1 .. Len(ring)
      BY <1>1, <3>2
    <3> QED BY <1>1, <2>1, <3>2, <3>3
  <2>2. CASE ~(Len(ring) >= Capacity)
    BY <1>1, <2>2
  <2> QED BY <2>1, <2>2
<1>3. Written(ring, f) = Append(kept, f)
  BY DEF Written
<1>4. Len(ring) < Capacity => kept = ring
  BY <1>1
<1> HIDE DEF kept
<1> DEFINE r == Append(kept, f)
<1>5. /\ r \in Seq(Deltas) /\ Len(r) = Len(kept) + 1 /\ DOMAIN r = 1 .. Len(kept) + 1
      /\ \A i \in 1 .. Len(kept) : r[i] = kept[i]
      /\ r[Len(kept) + 1] = f
  BY <1>2, AppendProperties
<1>6. Len(r) <= Capacity
  BY <1>2, <1>5
<1>7. \A i \in DOMAIN r : r[i] = f \/ \E j \in DOMAIN ring : r[i] = ring[j]
  <2> SUFFICES ASSUME NEW i \in DOMAIN r, i # Len(kept) + 1
               PROVE  \E j \in DOMAIN ring : r[i] = ring[j]
    BY <1>5
  <2>1. Len(kept) \in Nat
    BY <1>2
  <2>2. i \in 1 .. Len(kept)
    BY <1>5, <2>1
  <2>3. PICK j \in 1 .. Len(ring) : kept[i] = ring[j]
    BY <1>2, <2>2
  <2> QED BY <1>5, <2>2, <2>3
<1> HIDE DEF r
<1> QED BY <1>3, <1>4, <1>5, <1>6, <1>7 DEF r

(* Whatever ingest_delta decides; moved stays only if nothing that was     *)
(* held is gone.                                                           *)
LEMMA DeltaBook ==
  ASSUME NEW b \in Books, SoundBook(b), Len(b.ring) <= Capacity,
         NEW f \in Deltas, WasSent(f)
  PROVE  LET r == Delta(b, f)
         IN /\ r \in Books /\ SoundBook(r) /\ Len(r.ring) <= Capacity
            /\ \A i \in DOMAIN r.ring : r.ring[i] = f \/ \E j \in DOMAIN b.ring : r.ring[i] = b.ring[j]
            /\ Verdict(b, f) = "no_snapshot_anchor" /\ Len(b.ring) < Capacity =>
                 r.ring = Append(b.ring, f)
            /\ Verdict(b, f) # "no_snapshot_anchor" => r.ring = <<>>
            /\ r.ok => b.ok
            /\ ~r.moved => ~b.moved /\ (b.ok => r.ok /\ b.holds \subseteq r.holds)
            /\ WithU(f) /\ (b.ok => Whole(b)) => (r.ok => Whole(r))
            /\ WithoutU(f) /\ b.ok /\ Whole(b) /\ f.from <= b.u + 1 =>
                 Whole(r) /\ r.u >= f.hi
<1> DEFINE r == Delta(b, f)
<1>1. f.from \in Nat /\ f.hi \in Nat /\ f.U \in Nat /\ b.u \in Nat /\ b.ok \in BOOLEAN
  BY FrameFields, BookFields
<1>2. b.ring \in Seq(Deltas) /\ b.moved \in BOOLEAN
  BY BookFields
<1>3. CASE b.u = 0
  <2>1. Verdict(b, f) = "no_snapshot_anchor"
    BY <1>3 DEF Verdict
  <2>2. r = [b EXCEPT !.ring = Written(@, f)]
    BY <2>1 DEF Delta
  <2>3. /\ Written(b.ring, f) \in Seq(Deltas) /\ Len(Written(b.ring, f)) <= Capacity
        /\ \A i \in DOMAIN Written(b.ring, f) :
             Written(b.ring, f)[i] = f \/ \E j \in DOMAIN b.ring : Written(b.ring, f)[i] = b.ring[j]
        /\ Len(b.ring) < Capacity => Written(b.ring, f) = Append(b.ring, f)
    BY <1>2, WrittenRing
  <2> HIDE DEF r
  <2>4. r \in Books
    BY <2>2, <2>3 DEF Books
  <2>5. r.u = b.u /\ r.ok = b.ok /\ r.holds = b.holds /\ r.moved = b.moved /\ r.ring = Written(b.ring, f)
    BY <2>2 DEF Books
  <2>6. ~b.ok
    BY <1>3 DEF SoundBook
  <2>7. SoundBook(r)
    BY <1>3, <2>5, <2>6 DEF SoundBook
  <2> QED BY <2>1, <2>3, <2>4, <2>5, <2>6, <2>7 DEF r
<1>4. CASE b.u # 0
  <2>1. b.ok /\ b.ring = <<>>
    BY <1>4 DEF SoundBook
  <2>2. Verdict(b, f) # "no_snapshot_anchor"
    BY <1>4 DEF Verdict
  <2>3. Len(<<>>) <= Capacity /\ DOMAIN <<>> = {}
    BY BookAssumption, EmptySeq
  <2>4. CASE Verdict(b, f) \in {"invalid_u_range", "sequence_gap"}
    <3>1. r = Blank
      BY <2>4 DEF Delta
    <3>2. f.U > f.hi \/ f.U > b.u + 1
      BY <2>4 DEF Verdict
    <3>3. ~WithoutU(f)
      BY <1>1, <3>2 DEF WithoutU
    <3> HIDE DEF r
    <3> QED BY <2>2, <2>3, <3>1, <3>3, BlankIsSound DEF r
  <2>5. CASE Verdict(b, f) = "stale_or_duplicate_u"
    <3>1. r = b
      BY <2>5 DEF Delta
    <3>2. f.hi <= b.u
      BY <2>5 DEF Verdict
    <3> HIDE DEF r
    <3> QED BY <1>1, <2>1, <2>2, <2>3, <3>1, <3>2 DEF r
  <2>6. CASE Verdict(b, f) = "applied"
    <3>1. r = WithUpdates(b, f)
      BY <2>6 DEF Delta
    <3>2. ~(f.U > f.hi) /\ ~(f.hi <= b.u) /\ ~(f.U > b.u + 1)
      BY <2>6 DEF Verdict
    <3>3. f.hi > b.u
      BY <1>1, <3>2
    <3> HIDE DEF r
    <3>4. /\ r \in Books /\ SoundBook(r) /\ r.u = f.hi /\ r.ok
          /\ r.ring = <<>> /\ r.moved = b.moved
          /\ b.holds \subseteq r.holds
          /\ Whole(b) /\ WasSent(f) /\ f.from <= b.u + 1 => Whole(r)
      BY <2>1, <3>1, <3>3, WithUpdatesBook
    <3>5. WithU(f) => f.from <= b.u + 1
      BY <1>1, <3>2 DEF WithU
    <3> QED BY <1>1, <2>1, <2>2, <2>3, <3>4, <3>5 DEF r
  <2> QED BY <2>2, <2>4, <2>5, <2>6 DEF Verdict
<1> QED BY <1>3, <1>4

-----------------------------------------------------------------------------
(* The invariants.                                                         *)

Waits == {"taken", "fetching", "backoff", "sleeping"}

PumpType ==
  /\ pump.phase = "idle" => pump = Idle
  /\ pump.phase \in Waits => pump \in [phase : Waits, sym : Symbols, epoch : Nat]
  /\ pump.phase = "answered" =>
       /\ pump \in [phase : {"answered"}, sym : Symbols, epoch : Nat, u : Nat \ {0}]
       /\ pump.u <= made[pump.sym]

ShotType ==
  /\ shot.phase \in {"trying", "failed", "held"}
  /\ shot.phase # "held" => shot \in [phase : {"trying", "failed"}, tries : Nat]
  /\ shot.phase = "held" => shot \in [phase : {"held"}, msq : [Symbols -> SUBSET Nat], u : [Symbols -> Nat]]

(* A feed is where its connection is, and never ahead of the exchange.     *)
FeedFollows ==
  \A s \in Symbols :
    /\ feed[s] = "none" <=> link[ShardOf[s]] = "down"
    /\ feed[s] # "none" => next[s] > 1
    /\ next[s] <= made[s] + 1

(* The ring of a book has frames the connection has sent, and is empty     *)
(* while the book is not.                                                  *)
BooksAreSound ==
  \A s \in Symbols :
    /\ SoundBook(book[s])
    /\ book[s].ring # <<>> => state[s] # "SYNCED"
    /\ \A i \in DOMAIN book[s].ring :
         /\ book[s].ring[i].hi < next[s]
         /\ IF s \in ranged THEN WithU(book[s].ring[i]) ELSE WithoutU(book[s].ring[i])

Types == TypeOK /\ PumpType /\ ShotType /\ FeedFollows /\ BooksAreSound

(* All requests carry the present epoch, none a later one.                 *)
RequestsAreFresh ==
  /\ \A e \in Range(queue) : e[1] \in Symbols /\ e = <<e[1], epoch>>
  /\ pump.phase # "idle" => pump.epoch <= epoch
  /\ pump.phase \in {"backoff", "sleeping"} => failed[pump.sym] > 0

(* What keeps request_resync from asking again is asked for.               *)
Asked(s) == <<s, epoch>> \in Range(queue)
InHand(s, phases) == pump.phase \in phases /\ pump.sym = s /\ pump.epoch = epoch
PendingIsUnderWay == \A s \in pending : Asked(s) \/ InHand(s, {"taken"})

(* Without a connection nothing is asked for, unless REST failed.          *)
OutageIsQuiet ==
  \A s \in Symbols :
    link[ShardOf[s]] = "down" /\ failed[s] = 0 =>
      /\ ~Usable(s)
      /\ ~Asked(s)
      /\ ~InHand(s, {"taken", "fetching", "answered"})

(* A book that waits is asked for, unless another shard's loss came over it. *)
Retrying(s) == pump.phase \in {"backoff", "sleeping"} /\ pump.sym = s
WaitingIsAskedFor ==
  \A s \in Symbols : state[s] = "RECOVERING" =>
    Asked(s) \/ Retrying(s) \/ InHand(s, {"taken", "fetching", "answered"}) \/ s \in orphaned

Requests == RequestsAreFresh /\ PendingIsUnderWay /\ OutageIsQuiet /\ WaitingIsAskedFor

-----------------------------------------------------------------------------
(* Requests and the pump.                                                  *)

(* A request puts its symbol into the queue, unless it is pending.         *)
LEMMA RequestMade ==
  ASSUME TypeOK, NEW s \in Symbols, Request(s)
  PROVE  /\ Range(queue') = IF s \in pending THEN Range(queue) ELSE Range(queue) \cup {<<s, epoch>>}
         /\ queue' \in Seq(Symbols \X (0 .. epoch))
         /\ pending' = pending \cup {s} /\ pending' \subseteq Symbols
         /\ orphaned' = orphaned \ {s} /\ epoch' = epoch
<1>1. queue \in Seq(Symbols \X (0 .. epoch)) /\ epoch \in Nat /\ pending \subseteq Symbols
  BY DEF TypeOK
<1>2. <<s, epoch>> \in Symbols \X (0 .. epoch)
  BY <1>1
<1>3. CASE s \in pending
  BY <1>1, <1>3 DEF Request
<1>4. CASE s \notin pending
  <2>1. queue' = Append(queue, <<s, epoch>>)
    BY <1>4 DEF Request
  <2> DEFINE D == Symbols \X (0 .. epoch)
             e == <<s, epoch>>
             t == <<e>>
  <2>2. Append(queue, e) = queue \o t
    BY <1>1, <1>2, AppendIsConcat
  <2>3. t \in Seq(D) /\ Range(t) = {e}
    <3>1. t \in Seq(D)
      BY <1>2
    <3>2. DOMAIN t = {1} /\ t[1] = e
      OBVIOUS
    <3> QED BY <3>1, <3>2 DEF Range
  <2>4. queue \in Seq(D)
    BY <1>1
  <2> HIDE DEF D, e, t
  <2>5. Range(queue \o t) = Range(queue) \cup {e}
    BY <2>3, <2>4, RangeConcatenation
  <2>6. Append(queue, e) \in Seq(D)
    BY <1>2, <2>4, AppendProperties DEF D, e
  <2> QED BY <1>1, <1>4, <2>1, <2>2, <2>5, <2>6 DEF Request, D, e
<1> QED BY <1>3, <1>4

(* The entry of the pump leaves the queue.                                 *)
LEMMA TakenEntry ==
  ASSUME TypeOK, queue # <<>>
  PROVE  /\ Head(queue) \in Range(queue)
         /\ Range(queue) = Range(Tail(queue)) \cup {Head(queue)}
         /\ Tail(queue) \in Seq(Symbols \X (0 .. epoch))
<1>1. queue \in Seq(Symbols \X (0 .. epoch))
  BY DEF TypeOK
<1>2. /\ Tail(queue) \in Seq(Symbols \X (0 .. epoch)) /\ Head(queue) = queue[1]
      /\ Len(Tail(queue)) = Len(queue) - 1 /\ Len(queue) \in Nat \ {0}
      /\ \A i \in 1 .. Len(Tail(queue)) : Tail(queue)[i] = queue[i + 1]
  BY <1>1, HeadTailProperties, EmptySeq
<1>3. Range(queue) = {queue[i] : i \in 1 .. Len(queue)}
  BY <1>1 DEF Range
<1>4. Range(Tail(queue)) = {Tail(queue)[i] : i \in 1 .. Len(queue) - 1}
  <2>1. DOMAIN Tail(queue) = 1 .. Len(queue) - 1
    BY <1>2
  <2> QED BY <2>1 DEF Range
<1>5. \A i \in 1 .. Len(queue) : i = 1 \/ i - 1 \in 1 .. Len(queue) - 1
  BY <1>2
<1>6. \A i \in 1 .. Len(queue) - 1 : i + 1 \in 1 .. Len(queue)
  BY <1>2
<1>7. Range(queue) \subseteq Range(Tail(queue)) \cup {Head(queue)}
  <2> SUFFICES ASSUME NEW i \in 1 .. Len(queue), i # 1
               PROVE  queue[i] \in Range(Tail(queue))
    BY <1>2, <1>3
  <2>1. i - 1 \in 1 .. Len(queue) - 1 /\ (i - 1) + 1 = i
    BY <1>5
  <2>2. Tail(queue)[i - 1] = queue[i]
    BY <1>2, <2>1
  <2> QED BY <1>4, <2>1, <2>2
<1>8. Head(queue) \in Range(queue)
  BY <1>2, <1>3
<1>9. Range(Tail(queue)) \subseteq Range(queue)
  BY <1>2, <1>3, <1>4, <1>6
<1> QED BY <1>2, <1>7, <1>8, <1>9

(* A frame of s concerns s alone, and asks for a snapshot or not.          *)
LEMMA FrameAsks ==
  ASSUME Types, NEW s \in Symbols, Frames(s)
  PROVE  /\ UNCHANGED <<exchange, link, pump, drops, failed, epoch>>
         /\ feed[s] # "none" /\ feed' = [feed EXCEPT ![s] = "deltas"]
         /\ state' \in [Symbols -> {"SYNCED", "DESYNCED", "RECOVERING"}]
         /\ \A r \in Symbols \ {s} : state'[r] = state[r] /\ book'[r] = book[r]
         /\ \/ UNCHANGED <<resync, orphaned>> /\ state'[s] = state[s]
            \/ Request(s) /\ state'[s] = "RECOVERING"
<1>1. /\ state \in [Symbols -> {"SYNCED", "DESYNCED", "RECOVERING"}] /\ book \in [Symbols -> Books]
      /\ feed \in [Symbols -> {"none", "snapshot", "deltas"}]
  BY DEF Types, TypeOK
<1>2. CASE SnapshotFrame(s)
  <2>1. UNCHANGED <<exchange, link, pump, drops, failed>> /\ feed[s] # "none"
        /\ feed' = [feed EXCEPT ![s] = "deltas"] /\ HandleSnapshot(s)
    BY <1>2 DEF SnapshotFrame
  <2>2. CASE Desynced(s)
    BY <1>1, <2>1, <2>2 DEF Desynced, Request
  <2>3. CASE NoRequest /\ UNCHANGED state /\ (UNCHANGED book \/ book' = [book EXCEPT ![s] = Snapshot(@, next[s] - 1)])
    BY <1>1, <2>1, <2>3 DEF NoRequest, resync
  <2> QED BY <2>1, <2>2, <2>3 DEF HandleSnapshot
<1>3. CASE \E hi \in 1 .. MaxUpdates[s], malformed \in BOOLEAN : DeltaFrame(s, hi, malformed)
  <2>1. PICK hi \in 1 .. MaxUpdates[s], malformed \in BOOLEAN : DeltaFrame(s, hi, malformed)
    BY <1>3
  <2>2. PICK f : /\ UNCHANGED <<exchange, link, feed, pump, drops, failed>>
                 /\ feed[s] = "deltas" /\ HandleDelta(s, f)
    BY <2>1 DEF DeltaFrame
  <2>3. feed' = [feed EXCEPT ![s] = "deltas"]
    BY <1>1, <2>2
  <2>4. CASE Desynced(s)
    BY <1>1, <2>2, <2>3, <2>4 DEF Desynced, Request
  <2>5. CASE NoRequest /\ UNCHANGED state /\ book' = [book EXCEPT ![s] = Delta(@, f)]
    BY <1>1, <2>2, <2>3, <2>5 DEF NoRequest, resync
  <2>6. CASE /\ state' = [state EXCEPT ![s] = "RECOVERING"] /\ Request(s)
             /\ book' = [book EXCEPT ![s] = Delta(@, f)]
    BY <1>1, <2>2, <2>3, <2>6 DEF Request
  <2> QED BY <2>2, <2>4, <2>5, <2>6 DEF HandleDelta
<1> QED BY <1>2, <1>3 DEF Frames

-----------------------------------------------------------------------------
(* The books.                                                              *)

(* With U no book has a hole, whatever its state.                          *)
RangedIsWhole == \A s \in ranged : book[s].ok => Whole(book[s])

BooksGood ==
  /\ book \in [Symbols -> Books] /\ \A s \in Symbols : Len(book[s].ring) <= Capacity
  /\ BooksAreSound

(* The frame of a delta step.                                              *)
LEMMA DeltaFrameActs ==
  ASSUME Types, NEW s \in Symbols, NEW hi, NEW malformed \in BOOLEAN, DeltaFrame(s, hi, malformed)
  PROVE  \E f \in Deltas :
           /\ f.from = next[s] /\ f.hi = hi
           /\ IF s \in ranged THEN WithU(f) ELSE WithoutU(f)
           /\ hi \in Nat /\ next[s] \in Nat \ {0} /\ next[s] <= hi /\ hi <= made[s]
           /\ feed[s] = "deltas" /\ next' = [next EXCEPT ![s] = hi + 1]
           /\ HandleDelta(s, f)
           /\ late' = IF KeptForSnapshot(s, f) THEN late ELSE late \cup {s}
           /\ UNCHANGED <<exchange, link, feed, pump, drops, failed, excused>>
<1> DEFINE U == IF s \notin ranged THEN 0 ELSE IF malformed THEN hi + 1 ELSE next[s]
           f == Frame(next[s], hi, U)
<1>1. next[s] \in Nat \ {0} /\ made[s] \in Nat
  BY DEF Types, TypeOK
<1>2. hi \in next[s] .. made[s]
  BY DEF DeltaFrame
<1>3. hi \in Nat /\ next[s] <= hi /\ hi <= made[s]
  BY <1>1, <1>2
<1>4. U \in Nat /\ (s \notin ranged => U = 0) /\ (s \in ranged => U \in {next[s], hi + 1})
  BY <1>1, <1>3
<1>5. f \in Deltas /\ f.from = next[s] /\ f.hi = hi /\ f.U = U
  BY <1>1, <1>3, <1>4 DEF Frame, Deltas
<1>6. WasSent(f)
  BY <1>1, <1>3, <1>5 DEF WasSent
<1>7. IF s \in ranged THEN WithU(f) ELSE WithoutU(f)
  BY <1>4, <1>5, <1>6 DEF WithU, WithoutU
<1>8. /\ feed[s] = "deltas" /\ next' = [next EXCEPT ![s] = hi + 1]
      /\ HandleDelta(s, f)
      /\ late' = IF KeptForSnapshot(s, f) THEN late ELSE late \cup {s}
      /\ UNCHANGED <<exchange, link, feed, pump, drops, failed, excused>>
  BY DEF DeltaFrame
<1> HIDE DEF f
<1> QED BY <1>1, <1>3, <1>5, <1>7, <1>8

(* A step that leaves the books alone.                                     *)
LEMMA BooksKept ==
  ASSUME Types, UNCHANGED <<ranged, book>>,
         \A s \in Symbols : next'[s] \in Nat /\ next[s] <= next'[s],
         \A s \in Symbols : state'[s] = "SYNCED" => state[s] = "SYNCED"
  PROVE  BooksGood' /\ (RangedIsWhole => RangedIsWhole')
<1>1. BooksGood /\ next \in [Symbols -> Nat \ {0}]
  BY DEF Types, TypeOK, BooksGood
<1>2. ASSUME NEW s \in Symbols, NEW i \in DOMAIN book[s].ring
      PROVE  book[s].ring[i].hi < next'[s]
  <2>1. book[s].ring[i].hi < next[s] /\ next[s] \in Nat /\ next'[s] \in Nat /\ next[s] <= next'[s]
    BY <1>1 DEF BooksGood, BooksAreSound
  <2>2. book[s].ring \in Seq(Deltas)
    BY <1>1, BookFields DEF BooksGood
  <2>3. book[s].ring[i] \in Deltas
    BY <2>2
  <2>4. book[s].ring[i].hi \in Nat
    BY <2>3, FrameFields
  <2> QED BY <2>1, <2>4
<1>3. BooksAreSound'
  BY <1>1, <1>2 DEF BooksGood, BooksAreSound, WithU, WithoutU, WasSent
<1>4. BooksGood'
  BY <1>1, <1>3 DEF BooksGood
<1> QED BY <1>4 DEF RangedIsWhole

(* A step that replaces the book of s by a sound one.                      *)
LEMMA BookChanged ==
  ASSUME Types, NEW s \in Symbols, NEW r \in Books, book' = [book EXCEPT ![s] = r], ranged' = ranged,
         SoundBook(r), Len(r.ring) <= Capacity,
         r.ring # <<>> => state'[s] # "SYNCED",
         \A i \in DOMAIN r.ring :
           /\ r.ring[i].hi < next'[s]
           /\ IF s \in ranged THEN WithU(r.ring[i]) ELSE WithoutU(r.ring[i]),
         \A q \in Symbols \ {s} : next'[q] = next[q] /\ state'[q] = state[q],
         RangedIsWhole /\ s \in ranged => (r.ok => Whole(r))
  PROVE  BooksGood' /\ (RangedIsWhole => RangedIsWhole')
<1>1. BooksGood /\ ranged \subseteq Symbols
  BY DEF Types, TypeOK, BooksGood
<1>2. book' \in [Symbols -> Books] /\ book'[s] = r /\ \A q \in Symbols \ {s} : book'[q] = book[q]
  BY <1>1 DEF BooksGood
<1>3. BooksAreSound'
  <2> SUFFICES ASSUME NEW q \in Symbols
               PROVE  /\ SoundBook(book'[q])
                      /\ book'[q].ring # <<>> => state'[q] # "SYNCED"
                      /\ \A i \in DOMAIN book'[q].ring :
                           /\ book'[q].ring[i].hi < next'[q]
                           /\ IF q \in ranged THEN WithU(book'[q].ring[i]) ELSE WithoutU(book'[q].ring[i])
    BY DEF BooksAreSound, SoundBook, WithU, WithoutU, WasSent
  <2>1. CASE q = s
    BY <1>2, <2>1
  <2>2. CASE q # s
    BY <1>1, <1>2, <2>2 DEF BooksGood, BooksAreSound
  <2> QED BY <2>1, <2>2
<1>4. \A q \in Symbols : Len(book'[q].ring) <= Capacity
  BY <1>1, <1>2 DEF BooksGood
<1>5. RangedIsWhole => RangedIsWhole'
  <2> SUFFICES ASSUME RangedIsWhole, NEW q \in ranged, book'[q].ok
               PROVE  Whole(book'[q])
    BY DEF RangedIsWhole, Whole
  <2>1. CASE q = s
    BY <1>2, <2>1
  <2>2. CASE q # s
    BY <1>1, <1>2, <2>2 DEF RangedIsWhole
  <2> QED BY <2>1, <2>2
<1> QED BY <1>2, <1>3, <1>4, <1>5 DEF BooksGood

(* A delta and a snapshot keep the books sound.                            *)
LEMMA FrameBooks ==
  ASSUME Types, NEW s \in Symbols, Frames(s)
  PROVE  BooksGood' /\ (RangedIsWhole => RangedIsWhole')
<1>1. /\ state \in [Symbols -> {"SYNCED", "DESYNCED", "RECOVERING"}]
      /\ next \in [Symbols -> Nat \ {0}]
      /\ BooksGood
  BY DEF Types, TypeOK, BooksGood
<1>2. /\ \A r \in Symbols \ {s} : state'[r] = state[r]
      /\ ranged' = ranged /\ feed[s] # "none"
      /\ state'[s] = state[s] \/ state'[s] = "RECOVERING"
  BY FrameAsks DEF exchange
<1>3. /\ book[s] \in Books /\ SoundBook(book[s]) /\ Len(book[s].ring) <= Capacity
      /\ book[s].ring \in Seq(Deltas)
  BY <1>1, BookFields DEF BooksGood, BooksAreSound
<1>4. CASE SnapshotFrame(s)
  <2>1. next' = next /\ HandleSnapshot(s)
    BY <1>4 DEF SnapshotFrame
  <2>2. CASE book' = book
    BY <1>1, <1>2, <2>1, <2>2, BooksKept
  <2>3. CASE book' = [book EXCEPT ![s] = Snapshot(book[s], next[s] - 1)]
    <3>1. next[s] - 1 \in Nat \ {0}
      BY <1>1, <1>2 DEF Types, FeedFollows
    <3> DEFINE r == Snapshot(book[s], next[s] - 1)
    <3>2. /\ r \in Books /\ SoundBook(r) /\ r.ring = <<>>
          /\ (\A i \in DOMAIN book[s].ring : WithU(book[s].ring[i])) => (r.ok => Whole(r))
      BY <1>3, <3>1, SnapshotBook
    <3>3. Len(r.ring) <= Capacity /\ DOMAIN r.ring = {}
      BY <3>2, BookAssumption
    <3>4. s \in ranged => (r.ok => Whole(r))
      BY <1>1, <3>2 DEF BooksGood, BooksAreSound
    <3> HIDE DEF r
    <3>5. book' = [book EXCEPT ![s] = r]
      BY <2>3 DEF r
    <3> QED BY <1>2, <2>1, <3>2, <3>3, <3>4, <3>5, BookChanged
  <2> QED BY <2>1, <2>2, <2>3 DEF HandleSnapshot, Desynced
<1>5. CASE \E hi \in 1 .. MaxUpdates[s], malformed \in BOOLEAN : DeltaFrame(s, hi, malformed)
  <2>1. PICK hi \in 1 .. MaxUpdates[s], malformed \in BOOLEAN : DeltaFrame(s, hi, malformed)
    BY <1>5
  <2>2. PICK f \in Deltas :
           /\ f.from = next[s] /\ f.hi = hi
           /\ IF s \in ranged THEN WithU(f) ELSE WithoutU(f)
           /\ hi \in Nat /\ next[s] \in Nat \ {0} /\ next[s] <= hi
           /\ next' = [next EXCEPT ![s] = hi + 1]
           /\ HandleDelta(s, f)
    BY <2>1, DeltaFrameActs
  <2>3. /\ next'[s] = hi + 1 /\ \A q \in Symbols \ {s} : next'[q] = next[q]
        /\ \A q \in Symbols : next'[q] \in Nat /\ next[q] <= next'[q]
    BY <1>1, <2>2
  <2>4. CASE book' = book
    BY <1>1, <1>2, <2>3, <2>4, BooksKept
  <2>5. CASE /\ book' = [book EXCEPT ![s] = Delta(book[s], f)]
             /\ state'[s] = "SYNCED" => Verdict(book[s], f) # "no_snapshot_anchor"
    <3> DEFINE r == Delta(book[s], f)
    <3>1. WasSent(f)
      BY <2>2 DEF WithU, WithoutU
    <3>2. /\ r \in Books /\ SoundBook(r) /\ Len(r.ring) <= Capacity
          /\ \A i \in DOMAIN r.ring :
               r.ring[i] = f \/ \E j \in DOMAIN book[s].ring : r.ring[i] = book[s].ring[j]
          /\ Verdict(book[s], f) # "no_snapshot_anchor" => r.ring = <<>>
          /\ r.ok => book[s].ok
          /\ WithU(f) /\ (book[s].ok => Whole(book[s])) => (r.ok => Whole(r))
      BY <1>3, <3>1, DeltaBook
    <3> HIDE DEF r
    <3>3. \A i \in DOMAIN r.ring :
            /\ r.ring[i].hi < next'[s]
            /\ IF s \in ranged THEN WithU(r.ring[i]) ELSE WithoutU(r.ring[i])
      <4> SUFFICES ASSUME NEW i \in DOMAIN r.ring
                   PROVE  /\ r.ring[i].hi < next'[s]
                          /\ IF s \in ranged THEN WithU(r.ring[i]) ELSE WithoutU(r.ring[i])
        OBVIOUS
      <4>1. CASE r.ring[i] = f
        BY <2>2, <2>3, <4>1
      <4>2. CASE \E j \in DOMAIN book[s].ring : r.ring[i] = book[s].ring[j]
        <5>1. PICK j \in DOMAIN book[s].ring : r.ring[i] = book[s].ring[j]
          BY <4>2
        <5>2. book[s].ring[j] \in Deltas
          BY <1>3
        <5>3. book[s].ring[j].hi \in Nat /\ book[s].ring[j].hi < next[s]
          BY <1>1, <5>2, FrameFields DEF BooksGood, BooksAreSound
        <5>4. IF s \in ranged THEN WithU(book[s].ring[j]) ELSE WithoutU(book[s].ring[j])
          BY <1>1 DEF BooksGood, BooksAreSound
        <5> QED BY <2>2, <2>3, <5>1, <5>3, <5>4
      <4> QED BY <3>2, <4>1, <4>2
    <3>4. RangedIsWhole /\ s \in ranged => (r.ok => Whole(r))
      BY <2>2, <3>2 DEF RangedIsWhole
    <3>5. book' = [book EXCEPT ![s] = r]
      BY <2>5 DEF r
    <3> QED BY <1>2, <2>3, <2>5, <3>2, <3>3, <3>4, <3>5, BookChanged
  <2>6. \/ book' = book
        \/ /\ book' = [book EXCEPT ![s] = Delta(book[s], f)]
           /\ state'[s] = "SYNCED" => Verdict(book[s], f) # "no_snapshot_anchor"
    BY <1>1, <2>2 DEF HandleDelta, Desynced, LosesPlace
  <2> QED BY <2>4, <2>5, <2>6
<1> QED BY <1>4, <1>5 DEF Frames

(* An answer that is ingested, whatever waits in the ring.                 *)
LEMMA CompleteBooks ==
  ASSUME Types, Complete, pump.epoch = epoch
  PROVE  BooksGood' /\ (RangedIsWhole => RangedIsWhole')
<1>1. /\ BooksGood /\ state \in [Symbols -> {"SYNCED", "DESYNCED", "RECOVERING"}]
      /\ pump.phase = "answered"
      /\ pump \in [phase : {"answered"}, sym : Symbols, epoch : Nat, u : Nat \ {0}]
  BY DEF Types, TypeOK, BooksGood, PumpType, Complete
<1>2. PICK s \in Symbols : s = pump.sym
  BY <1>1
<1>3. PICK u \in Nat \ {0} : u = pump.u
  BY <1>1
<1>4. /\ book' = [book EXCEPT ![s] = Snapshot(book[s], u)]
      /\ \A q \in Symbols \ {s} : next'[q] = next[q] /\ state'[q] = state[q]
      /\ ranged' = ranged
  BY <1>1, <1>2, <1>3 DEF Complete, Ingested, exchange, socket
<1> DEFINE r == Snapshot(book[s], u)
<1>5. book[s] \in Books
  BY <1>1 DEF BooksGood
<1>6. /\ r \in Books /\ SoundBook(r) /\ r.ring = <<>>
      /\ (\A i \in DOMAIN book[s].ring : WithU(book[s].ring[i])) => (r.ok => Whole(r))
  BY <1>5, SnapshotBook
<1>7. Len(r.ring) <= Capacity /\ DOMAIN r.ring = {}
  BY <1>6, BookAssumption
<1>8. s \in ranged => (r.ok => Whole(r))
  BY <1>1, <1>6 DEF BooksGood, BooksAreSound
<1> HIDE DEF r
<1>9. book' = [book EXCEPT ![s] = r]
  BY <1>4 DEF r
<1> QED BY <1>4, <1>6, <1>7, <1>8, <1>9, BookChanged

(* A snapshot of all books notes their epochs and changes nothing else.    *)
LEMMA TakeShotBooks ==
  ASSUME Types, TakeShot
  PROVE  /\ BooksGood' /\ (RangedIsWhole => RangedIsWhole')
         /\ \A s \in Symbols :
              /\ book'[s].u = book[s].u /\ book'[s].ok = book[s].ok
              /\ book'[s].holds = book[s].holds /\ book'[s].ring = book[s].ring
<1>1. BooksGood /\ ranged \subseteq Symbols
  BY DEF Types, TypeOK, BooksGood
<1>2. /\ book' = [s \in Symbols |-> [book[s] EXCEPT !.moved = FALSE]]
      /\ UNCHANGED <<ranged, next, state>>
  BY DEF TakeShot, exchange, socket
<1>3. \A s \in Symbols :
        /\ book'[s] \in Books
        /\ book'[s].u = book[s].u /\ book'[s].ok = book[s].ok
        /\ book'[s].holds = book[s].holds /\ book'[s].ring = book[s].ring
  <2> SUFFICES ASSUME NEW s \in Symbols, NEW b \in Books, b = book[s]
               PROVE  LET r == [b EXCEPT !.moved = FALSE]
                      IN /\ r \in Books /\ r.u = b.u /\ r.ok = b.ok
                         /\ r.holds = b.holds /\ r.ring = b.ring
    BY <1>1, <1>2 DEF BooksGood
  <2> QED BY DEF Books
<1>4. book' \in [Symbols -> Books]
  BY <1>2, <1>3
<1>5. BooksAreSound'
  BY <1>1, <1>2, <1>3 DEF BooksGood, BooksAreSound, SoundBook, WithU, WithoutU, WasSent
<1>6. RangedIsWhole => RangedIsWhole'
  BY <1>1, <1>2, <1>3 DEF RangedIsWhole, Whole
<1> QED BY <1>1, <1>3, <1>4, <1>5, <1>6 DEF BooksGood

(* What steps of the exchange, the connections and the pump do to feeds    *)
(* and states, as far as the books are concerned.                          *)
LEMMA BooksNext ==
  ASSUME Types, [ShotNext]_allVars
  PROVE  BooksGood' /\ (RangedIsWhole => RangedIsWhole')
<1>1. /\ state \in [Symbols -> {"SYNCED", "DESYNCED", "RECOVERING"}]
      /\ next \in [Symbols -> Nat \ {0}] /\ made \in [Symbols -> Nat \ {0}]
      /\ \A s \in Symbols : next[s] <= made[s] + 1 /\ next[s] \in Nat /\ next[s] <= next[s]
  BY DEF Types, TypeOK, FeedFollows
<1>2. ASSUME UNCHANGED <<ranged, next, book, state>>
      PROVE  BooksGood' /\ (RangedIsWhole => RangedIsWhole')
  BY <1>1, <1>2, BooksKept
<1>3. ASSUME NEW c \in Shards, Connect(c)
      PROVE  BooksGood' /\ (RangedIsWhole => RangedIsWhole')
  <2>1. UNCHANGED <<ranged, book, state>>
    BY <1>3 DEF Connect, exchange
  <2>2. \A s \in Symbols : next'[s] = made[s] + 1 \/ next'[s] = next[s]
    BY <1>3 DEF Connect
  <2>3. \A s \in Symbols : next'[s] \in Nat /\ next[s] <= next'[s]
    BY <1>1, <2>2
  <2> QED BY <2>1, <2>3, BooksKept
<1>4. ASSUME NEW c \in Shards, Drop(c)
      PROVE  BooksGood' /\ (RangedIsWhole => RangedIsWhole')
  <2>1. UNCHANGED <<ranged, next, book>>
    BY <1>4 DEF Drop, exchange
  <2>2. \A s \in Symbols : state'[s] = "SYNCED" => state[s] = "SYNCED"
    BY <1>4 DEF Drop
  <2> QED BY <1>1, <2>1, <2>2, BooksKept
<1>5. ASSUME Requeue \/ FetchErrs
      PROVE  BooksGood' /\ (RangedIsWhole => RangedIsWhole')
  <2>1. UNCHANGED <<ranged, next, book>>
    BY <1>5 DEF Requeue, FetchErrs, Failing, exchange, socket
  <2>2. \A s \in Symbols : state'[s] = "SYNCED" => state[s] = "SYNCED"
    BY <1>1, <1>5 DEF Requeue, FetchErrs, Failing
  <2> QED BY <1>1, <2>1, <2>2, BooksKept
<1>6. CASE Complete
  <2>1. CASE pump.epoch = epoch
    BY <1>6, <2>1, CompleteBooks
  <2>2. CASE pump.epoch # epoch
    BY <1>2, <1>6, <2>2 DEF Complete, exchange, socket
  <2> QED BY <2>1, <2>2
<1>7. ASSUME \E s \in Symbols : Update(s)
      PROVE  UNCHANGED <<ranged, next, book, state>>
  BY <1>7 DEF Update, socket
<1>8. ASSUME Take \/ Proceed \/ Serve \/ RateLimited \/ AskAgain
      PROVE  UNCHANGED <<ranged, next, book, state>>
  BY <1>8 DEF Take, Proceed, Serve, RateLimited, Failing, AskAgain, exchange, socket
<1>9. ASSUME Retry \/ TimeUp \/ UNCHANGED allVars
      PROVE  UNCHANGED <<ranged, next, book, state>>
  BY <1>9 DEF Retry, TimeUp, allVars, vars, exchange, socket
<1> QED BY <1>2, <1>3, <1>4, <1>5, <1>6, <1>7, <1>8, <1>9, FrameBooks, TakeShotBooks
        DEF ShotNext, Next, Shard, Pump

-----------------------------------------------------------------------------
(* The types.                                                              *)

(* TypeOK without the books.                                               *)
ControlTypes ==
  /\ ranged \subseteq Symbols /\ made \in [Symbols -> Nat \ {0}]
  /\ link \in [Shards -> {"up", "down"}]
  /\ feed \in [Symbols -> {"none", "snapshot", "deltas"}]
  /\ next \in [Symbols -> Nat \ {0}]
  /\ state \in [Symbols -> {"SYNCED", "DESYNCED", "RECOVERING"}]
  /\ epoch \in Nat /\ queue \in Seq(Symbols \X (0 .. epoch)) /\ pending \subseteq Symbols
  /\ pump.phase \in Phases
  /\ drops \in [Shards -> Nat] /\ \A c \in Shards : drops[c] <= MaxDrops[c]
  /\ failed \in [Symbols -> Nat] /\ \A s \in Symbols : failed[s] <= MaxFailures[s]
  /\ orphaned \subseteq Symbols /\ late \subseteq Symbols /\ excused \subseteq Symbols

(* The types of all but the books, through every step.                     *)
LEMMA ControlTypesNext ==
  ASSUME Types, [ShotNext]_allVars
  PROVE  ControlTypes'
<1>1. ControlTypes /\ PumpType /\ \A s \in Symbols : next[s] <= made[s] + 1
  BY DEF Types, TypeOK, ControlTypes, FeedFollows
<1>2. TypeOK
  BY DEF Types
<1>3. ASSUME NEW s \in Symbols, Update(s) PROVE ControlTypes'
  <2>1. made' \in [Symbols -> Nat \ {0}]
    BY <1>1, <1>3 DEF Update, ControlTypes
  <2> QED BY <1>1, <1>3, <2>1 DEF Update, ControlTypes, socket, resync, ghost
<1>4. ASSUME NEW c \in Shards, Connect(c) PROVE ControlTypes'
  <2>1. /\ link' \in [Shards -> {"up", "down"}]
        /\ feed' \in [Symbols -> {"none", "snapshot", "deltas"}]
    BY <1>1, <1>4 DEF Connect, ControlTypes
  <2>2. next' \in [Symbols -> Nat \ {0}]
    BY <1>1, <1>4 DEF Connect, ControlTypes
  <2> QED BY <1>1, <1>4, <2>1, <2>2 DEF Connect, ControlTypes, exchange, resync, ghost
<1>5. ASSUME NEW c \in Shards, Drop(c) PROVE ControlTypes'
  <2>1. /\ link' \in [Shards -> {"up", "down"}]
        /\ feed' \in [Symbols -> {"none", "snapshot", "deltas"}]
        /\ state' \in [Symbols -> {"SYNCED", "DESYNCED", "RECOVERING"}]
    BY <1>1, <1>5 DEF Drop, ControlTypes
  <2>2. /\ epoch' \in Nat /\ queue' \in Seq(Symbols \X (0 .. epoch')) /\ pending' = {}
    BY <1>1, <1>5 DEF Drop, ControlTypes
  <2>3. drops' \in [Shards -> Nat] /\ \A q \in Shards : drops'[q] <= MaxDrops[q]
    <3>1. drops \in [Shards -> Nat] /\ MaxDrops \in [Shards -> Nat]
      BY <1>1, ResyncAssumption DEF ControlTypes
    <3>2. drops[c] < MaxDrops[c] /\ drops' = [drops EXCEPT ![c] = drops[c] + 1]
      BY <1>5 DEF Drop
    <3>3. drops[c] \in Nat /\ MaxDrops[c] \in Nat /\ drops[c] + 1 \in Nat /\ drops[c] + 1 <= MaxDrops[c]
      BY <3>1, <3>2
    <3>4. \A q \in Shards : drops'[q] = IF q = c THEN drops[c] + 1 ELSE drops[q]
      BY <3>1, <3>2
    <3>5. drops' \in [Shards -> Nat]
      BY <3>1, <3>2, <3>3
    <3> QED BY <1>1, <3>3, <3>4, <3>5 DEF ControlTypes
  <2>4. Requested \subseteq Symbols
    <3>1. \A e \in Range(queue) : e \in Symbols \X (0 .. epoch)
      BY <1>1 DEF ControlTypes, Range
    <3>2. \A e \in Range(queue) : e[1] \in Symbols
      BY <3>1
    <3> QED BY <3>2 DEF Requested
  <2>5. orphaned' \subseteq Symbols
    BY <1>1, <1>5, <2>4 DEF Drop, ControlTypes
  <2> QED BY <1>1, <1>5, <2>1, <2>2, <2>3, <2>5 DEF Drop, ControlTypes, exchange
<1>6. ASSUME NEW s \in Symbols, Frames(s) PROVE ControlTypes'
  <2>1. /\ UNCHANGED <<exchange, link, pump, drops, failed, epoch>>
        /\ feed' = [feed EXCEPT ![s] = "deltas"]
        /\ state' \in [Symbols -> {"SYNCED", "DESYNCED", "RECOVERING"}]
        /\ UNCHANGED <<resync, orphaned>> \/ Request(s)
    BY <1>6, FrameAsks
  <2>2. feed' \in [Symbols -> {"none", "snapshot", "deltas"}]
    BY <1>1, <2>1 DEF ControlTypes
  <2>3. queue' \in Seq(Symbols \X (0 .. epoch')) /\ pending' \subseteq Symbols /\ orphaned' \subseteq Symbols
    <3>1. CASE UNCHANGED <<resync, orphaned>>
      BY <1>1, <3>1 DEF ControlTypes, resync
    <3>2. CASE Request(s)
      BY <1>1, <1>2, <3>2, RequestMade DEF ControlTypes
    <3> QED BY <2>1, <3>1, <3>2
  <2>4. next' \in [Symbols -> Nat \ {0}] /\ late' \subseteq Symbols /\ excused' \subseteq Symbols
    <3>1. CASE SnapshotFrame(s)
      BY <1>1, <3>1 DEF SnapshotFrame, HandleSnapshot, ControlTypes
    <3>2. CASE \E hi \in 1 .. MaxUpdates[s], malformed \in BOOLEAN : DeltaFrame(s, hi, malformed)
      <4>1. PICK hi \in 1 .. MaxUpdates[s], malformed \in BOOLEAN : DeltaFrame(s, hi, malformed)
        BY <3>2
      <4>2. /\ hi \in Nat /\ next' = [next EXCEPT ![s] = hi + 1] /\ excused' = excused
            /\ late' = late \/ late' = late \cup {s}
        BY <4>1, DeltaFrameActs
      <4>3. next' \in [Symbols -> Nat \ {0}]
        <5>1. hi + 1 \in Nat \ {0} /\ next \in [Symbols -> Nat \ {0}]
          BY <1>1, <4>2 DEF ControlTypes
        <5> QED BY <4>2, <5>1
      <4>4. late' \subseteq Symbols /\ excused' \subseteq Symbols
        BY <1>1, <4>2 DEF ControlTypes
      <4> QED BY <4>3, <4>4
    <3> QED BY <1>6, <3>1, <3>2 DEF Frames
  <2> QED BY <1>1, <2>1, <2>2, <2>3, <2>4 DEF ControlTypes, exchange
<1>7. CASE Take
  <2>1. Tail(queue) \in Seq(Symbols \X (0 .. epoch))
    BY <1>2, <1>7, TakenEntry DEF Take
  <2>2. pump'.phase = "taken" /\ queue' = Tail(queue)
    BY <1>7 DEF Take
  <2> QED BY <1>1, <1>7, <2>1, <2>2 DEF Take, ControlTypes, exchange, socket, ghost, Phases
<1>8. CASE Proceed
  <2>1. pump'.phase \in Phases
    <3>1. pump \in [phase : Waits, sym : Symbols, epoch : Nat]
      BY <1>1, <1>8 DEF Proceed, PumpType, Waits
    <3> QED BY <1>8, <3>1 DEF Proceed, Phases, Idle
  <2> QED BY <1>1, <1>8, <2>1 DEF Proceed, ControlTypes, exchange, socket, ghost
<1>9. CASE Serve
  <2>1. pump'.phase \in Phases
    BY <1>9 DEF Serve, Phases
  <2> QED BY <1>1, <1>9, <2>1 DEF Serve, ControlTypes, exchange, socket, resync
<1>10. CASE Complete
  <2>1. pump'.phase \in Phases
    BY <1>10 DEF Complete, Phases, Idle
  <2>2. pump.sym \in Symbols
    BY <1>1, <1>10 DEF Complete, PumpType
  <2>3. /\ state' \in [Symbols -> {"SYNCED", "DESYNCED", "RECOVERING"}]
        /\ orphaned' \subseteq Symbols /\ excused' \subseteq Symbols
    <3>1. CASE pump.epoch = epoch
      <4>1. state' = [state EXCEPT ![pump.sym] = "SYNCED"]
        BY <1>10, <3>1 DEF Complete, Ingested
      <4>2. orphaned' \subseteq orphaned
        BY <1>10, <3>1 DEF Complete, Ingested
      <4>3. excused' \subseteq excused \cup {pump.sym}
        BY <1>10, <3>1 DEF Complete, Ingested
      <4> QED BY <1>1, <2>2, <4>1, <4>2, <4>3 DEF ControlTypes
    <3>2. CASE pump.epoch # epoch
      BY <1>1, <1>10, <3>2 DEF Complete, ControlTypes
    <3> QED BY <3>1, <3>2
  <2> QED BY <1>1, <1>10, <2>1, <2>3 DEF Complete, ControlTypes, exchange, socket, resync
<1>11. CASE RateLimited \/ FetchErrs
  <2>1. /\ pump.phase = "fetching" /\ failed[pump.sym] < MaxFailures[pump.sym]
        /\ failed' = [failed EXCEPT ![pump.sym] = @ + 1]
        /\ \E p \in {"backoff", "sleeping"} : pump' = [pump EXCEPT !.phase = p]
        /\ UNCHANGED <<exchange, socket, book, resync, drops, orphaned, late, excused>>
        /\ UNCHANGED state \/ state' = [state EXCEPT ![pump.sym] = "DESYNCED"]
    BY <1>11 DEF RateLimited, FetchErrs, Failing
  <2>2. pump \in [phase : Waits, sym : Symbols, epoch : Nat]
    BY <1>1, <2>1 DEF PumpType, Waits
  <2>3. pump'.phase \in Phases /\ pump.sym \in Symbols
    BY <2>1, <2>2 DEF Phases
  <2>4. failed' \in [Symbols -> Nat] /\ \A s \in Symbols : failed'[s] <= MaxFailures[s]
    <3>1. PICK s \in Symbols : s = pump.sym
      BY <2>3
    <3>2. failed \in [Symbols -> Nat] /\ MaxFailures \in [Symbols -> Nat]
      BY <1>1, ResyncAssumption DEF ControlTypes
    <3>3. failed[s] < MaxFailures[s] /\ failed' = [failed EXCEPT ![s] = failed[s] + 1]
      BY <2>1, <3>1
    <3>4. failed[s] \in Nat /\ MaxFailures[s] \in Nat /\ failed[s] + 1 \in Nat /\ failed[s] + 1 <= MaxFailures[s]
      BY <3>2, <3>3
    <3>5. \A q \in Symbols : failed'[q] = IF q = s THEN failed[s] + 1 ELSE failed[q]
      BY <3>2, <3>3
    <3>6. failed' \in [Symbols -> Nat]
      BY <3>2, <3>3, <3>4
    <3> QED BY <1>1, <3>4, <3>5, <3>6 DEF ControlTypes
  <2>5. state' \in [Symbols -> {"SYNCED", "DESYNCED", "RECOVERING"}]
    BY <1>1, <2>1, <2>3 DEF ControlTypes
  <2> QED BY <1>1, <2>1, <2>3, <2>4, <2>5 DEF ControlTypes, exchange, socket, resync
<1>12. CASE Requeue \/ AskAgain
  <2>1. /\ pump.phase \in {"backoff", "sleeping"} /\ pump' = Idle /\ Request(pump.sym)
        /\ UNCHANGED <<exchange, socket, book, drops, failed, late, excused>>
        /\ UNCHANGED state \/ state' = [state EXCEPT ![pump.sym] = "RECOVERING"]
    BY <1>12 DEF Requeue, AskAgain
  <2>2. pump.sym \in Symbols
    BY <1>1, <2>1 DEF PumpType, Waits
  <2>3. /\ queue' \in Seq(Symbols \X (0 .. epoch)) /\ pending' \subseteq Symbols
        /\ orphaned' \subseteq Symbols /\ epoch' = epoch
    BY <1>1, <1>2, <2>1, <2>2, RequestMade DEF ControlTypes
  <2>4. state' \in [Symbols -> {"SYNCED", "DESYNCED", "RECOVERING"}]
    BY <1>1, <2>1, <2>2 DEF ControlTypes
  <2>5. pump'.phase \in Phases
    BY <2>1 DEF Idle, Phases
  <2> QED BY <1>1, <2>1, <2>3, <2>4, <2>5 DEF ControlTypes, exchange, socket
<1>13. CASE TakeShot \/ Retry \/ TimeUp \/ UNCHANGED allVars
  BY <1>1, <1>13 DEF TakeShot, Retry, TimeUp, ControlTypes, allVars, vars, exchange, socket, resync, ghost
<1> QED BY <1>3, <1>4, <1>5, <1>6, <1>7, <1>8, <1>9, <1>10, <1>11, <1>12, <1>13
        DEF ShotNext, Next, Shard, Pump

(* The entry of the pump.                                                  *)
LEMMA PumpTypeNext ==
  ASSUME Types, [ShotNext]_allVars
  PROVE  PumpType'
<1>1. PumpType /\ ControlTypes /\ TypeOK
  BY DEF Types, TypeOK, ControlTypes
<1>2. ASSUME pump' = pump, \A s \in Symbols : made'[s] \in Nat /\ made[s] <= made'[s]
      PROVE  PumpType'
  <2>1. ASSUME pump.phase = "answered" PROVE pump.u <= made'[pump.sym]
    <3>1. pump.u \in Nat /\ pump.sym \in Symbols /\ pump.u <= made[pump.sym]
      BY <1>1, <2>1 DEF PumpType
    <3>2. made[pump.sym] \in Nat /\ made'[pump.sym] \in Nat /\ made[pump.sym] <= made'[pump.sym]
      BY <1>1, <1>2, <3>1 DEF ControlTypes
    <3> QED BY <3>1, <3>2
  <2> QED BY <1>1, <1>2, <2>1 DEF PumpType, Idle
<1>3. \A s \in Symbols : made[s] \in Nat /\ made[s] <= made[s]
  BY <1>1 DEF ControlTypes
<1>4. ASSUME NEW s \in Symbols, Update(s) PROVE PumpType'
  <2>1. pump' = pump /\ made' = [made EXCEPT ![s] = @ + 1]
    BY <1>4 DEF Update
  <2>2. \A q \in Symbols : made'[q] \in Nat /\ made[q] <= made'[q]
    BY <1>1, <2>1 DEF ControlTypes
  <2> QED BY <1>2, <2>1, <2>2
<1>5. ASSUME pump' = pump, made' = made PROVE PumpType'
  BY <1>2, <1>3, <1>5
<1>6. ASSUME pump' = Idle PROVE PumpType'
  BY <1>6 DEF PumpType, Idle, Waits
<1>7. ASSUME NEW p \in Waits, pump \in [phase : Waits, sym : Symbols, epoch : Nat],
             pump' = [pump EXCEPT !.phase = p]
      PROVE  PumpType'
  <2>1. pump' \in [phase : Waits, sym : Symbols, epoch : Nat] /\ pump'.phase = p
    BY <1>7
  <2> QED BY <2>1 DEF PumpType, Waits
<1>8. CASE Take
  <2>1. Head(queue) \in Range(queue) /\ queue \in Seq(Symbols \X (0 .. epoch)) /\ epoch \in Nat
    BY <1>1, <1>8, TakenEntry DEF Take, ControlTypes
  <2>2. Head(queue) \in Symbols \X (0 .. epoch)
    BY <2>1 DEF Range
  <2>3. Head(queue)[1] \in Symbols /\ Head(queue)[2] \in Nat
    BY <2>1, <2>2
  <2>4. pump' = [phase |-> "taken", sym |-> Head(queue)[1], epoch |-> Head(queue)[2]]
    BY <1>8 DEF Take
  <2>5. pump' \in [phase : Waits, sym : Symbols, epoch : Nat] /\ pump'.phase = "taken"
    BY <2>3, <2>4 DEF Waits
  <2> QED BY <2>5 DEF PumpType, Waits
<1>9. CASE Proceed
  <2>1. pump \in [phase : Waits, sym : Symbols, epoch : Nat]
    BY <1>1, <1>9 DEF Proceed, PumpType, Waits
  <2>2. pump' = Idle \/ pump' = [pump EXCEPT !.phase = "fetching"]
    BY <1>9 DEF Proceed
  <2> QED BY <1>6, <1>7, <2>1, <2>2 DEF Waits
<1>10. CASE Serve
  <2>1. pump \in [phase : Waits, sym : Symbols, epoch : Nat]
    BY <1>1, <1>10 DEF Serve, PumpType, Waits
  <2>2. /\ pump' = [phase |-> "answered", sym |-> pump.sym, epoch |-> pump.epoch, u |-> made[pump.sym]]
        /\ made' = made
    BY <1>10 DEF Serve, exchange
  <2>3. made[pump.sym] \in Nat \ {0} /\ made[pump.sym] <= made[pump.sym]
    BY <1>1, <2>1 DEF ControlTypes
  <2> QED BY <2>1, <2>2, <2>3 DEF PumpType, Waits
<1>11. CASE RateLimited \/ FetchErrs
  <2>1. pump \in [phase : Waits, sym : Symbols, epoch : Nat]
    BY <1>1, <1>11 DEF RateLimited, FetchErrs, Failing, PumpType, Waits
  <2>2. pump' = [pump EXCEPT !.phase = "backoff"] \/ pump' = [pump EXCEPT !.phase = "sleeping"]
    BY <1>11 DEF RateLimited, FetchErrs, Failing
  <2> QED BY <1>7, <2>1, <2>2 DEF Waits
<1>12. CASE Complete \/ Requeue \/ AskAgain
  BY <1>6, <1>12 DEF Complete, Requeue, AskAgain
<1>13. ASSUME \/ \E c \in Shards : Connect(c) \/ Drop(c)
              \/ TakeShot \/ Retry \/ TimeUp \/ UNCHANGED allVars
       PROVE  PumpType'
  <2>1. pump' = pump /\ made' = made
    BY <1>13 DEF Connect, Drop, TakeShot, Retry, TimeUp, allVars, vars, exchange
  <2> QED BY <1>5, <2>1
<1>14. ASSUME NEW s \in Symbols, Frames(s) PROVE PumpType'
  <2>1. pump' = pump /\ made' = made
    BY <1>14, FrameAsks DEF exchange
  <2> QED BY <1>5, <2>1
<1> QED BY <1>4, <1>8, <1>9, <1>10, <1>11, <1>12, <1>13, <1>14 DEF ShotNext, Next, Shard, Pump

(* The attempts and the held costs of the signal.                          *)
LEMMA ShotTypeNext ==
  ASSUME Types, [ShotNext]_allVars
  PROVE  ShotType'
<1>1. ShotType /\ book \in [Symbols -> Books] /\ MaxRetries \in Nat \ {0}
  BY SnapshotAssumption DEF Types, TypeOK
<1>2. CASE shot' = shot
  BY <1>1, <1>2 DEF ShotType
<1>3. CASE TakeShot
  <2> DEFINE m == [s \in Symbols |-> Msq(book[s])]
  <2>1. \A s \in Symbols : Msq(book[s]) \in SUBSET Nat
    <3> SUFFICES ASSUME NEW s \in Symbols PROVE Msq(book[s]) \in SUBSET Nat
      OBVIOUS
    <3>1. book[s].holds \subseteq Nat
      BY <1>1, BookFields
    <3> QED BY <3>1 DEF Msq, Standing
  <2> DEFINE n == [s \in Symbols |-> book[s].u]
  <2>2. m \in [Symbols -> SUBSET Nat] /\ n \in [Symbols -> Nat]
    BY <1>1, <2>1, BookFields
  <2>3. shot' = [phase |-> "held", msq |-> m, u |-> n]
    BY <1>3 DEF TakeShot
  <2> HIDE DEF m, n
  <2> QED BY <2>2, <2>3 DEF ShotType
<1>4. CASE Retry
  <2>1. shot.phase = "trying" /\ shot \in [phase : {"trying", "failed"}, tries : Nat]
    BY <1>1, <1>4 DEF Retry, ShotType
  <2>2. PICK n \in Nat : n = shot.tries + 1
    BY <2>1
  <2>3. PICK p \in {"trying", "failed"} : shot' = [shot EXCEPT !.tries = n, !.phase = p]
    BY <1>4, <2>2 DEF Retry
  <2>4. shot' \in [phase : {"trying", "failed"}, tries : Nat] /\ shot'.phase = p
    BY <2>1, <2>3
  <2> QED BY <2>4 DEF ShotType
<1>5. CASE TimeUp
  <2>1. shot.phase = "trying" /\ shot \in [phase : {"trying", "failed"}, tries : Nat]
    BY <1>1, <1>5 DEF TimeUp, ShotType
  <2>2. shot' = [shot EXCEPT !.phase = "failed", !.tries = MaxRetries]
    BY <1>5 DEF TimeUp
  <2>3. shot' \in [phase : {"trying", "failed"}, tries : Nat] /\ shot'.phase = "failed"
    BY <1>1, <2>1, <2>2
  <2> QED BY <2>3 DEF ShotType
<1> QED BY <1>2, <1>3, <1>4, <1>5 DEF ShotNext, allVars

(* Connections, their feeds and the exchange keep their order.             *)
LEMMA FeedFollowsNext ==
  ASSUME Types, [ShotNext]_allVars
  PROVE  FeedFollows'
<1>1. FeedFollows /\ ControlTypes
  BY DEF Types, TypeOK, ControlTypes
<1>2. ASSUME UNCHANGED <<made, link, feed, next>> PROVE FeedFollows'
  BY <1>1, <1>2 DEF FeedFollows
<1>3. ASSUME NEW s \in Symbols, Update(s) PROVE FeedFollows'
  <2>1. made' = [made EXCEPT ![s] = @ + 1] /\ UNCHANGED <<link, feed, next>>
    BY <1>3 DEF Update, socket
  <2>2. \A q \in Symbols : next[q] <= made'[q] + 1
    BY <1>1, <2>1 DEF ControlTypes, FeedFollows
  <2> QED BY <1>1, <2>1, <2>2 DEF FeedFollows
<1>4. ASSUME NEW c \in Shards, Connect(c) PROVE FeedFollows'
  <2> SUFFICES ASSUME NEW q \in Symbols
               PROVE  /\ feed'[q] = "none" <=> link'[ShardOf[q]] = "down"
                      /\ feed'[q] # "none" => next'[q] > 1
                      /\ next'[q] <= made'[q] + 1
    BY DEF FeedFollows
  <2>1. made' = made /\ made[q] \in Nat \ {0} /\ ShardOf[q] \in Shards
    BY <1>1, <1>4, ResyncAssumption DEF Connect, exchange, ControlTypes
  <2>2. CASE ShardOf[q] = c
    <3>1. feed'[q] = "snapshot" /\ next'[q] = made[q] + 1 /\ link'[ShardOf[q]] = "up"
      BY <1>1, <1>4, <2>2 DEF Connect, SymbolsOf, ControlTypes
    <3> QED BY <2>1, <3>1
  <2>3. CASE ShardOf[q] # c
    <3>1. feed'[q] = feed[q] /\ next'[q] = next[q] /\ link'[ShardOf[q]] = link[ShardOf[q]]
      BY <1>1, <1>4, <2>1, <2>3 DEF Connect, SymbolsOf, ControlTypes
    <3> QED BY <1>1, <2>1, <3>1 DEF FeedFollows
  <2> QED BY <2>2, <2>3
<1>5. ASSUME NEW c \in Shards, Drop(c) PROVE FeedFollows'
  <2> SUFFICES ASSUME NEW q \in Symbols
               PROVE  /\ feed'[q] = "none" <=> link'[ShardOf[q]] = "down"
                      /\ feed'[q] # "none" => next'[q] > 1
                      /\ next'[q] <= made'[q] + 1
    BY DEF FeedFollows
  <2>1. made' = made /\ next' = next /\ ShardOf[q] \in Shards
    BY <1>5, ResyncAssumption DEF Drop, exchange
  <2>2. CASE ShardOf[q] = c
    <3>1. feed'[q] = "none" /\ link'[ShardOf[q]] = "down"
      BY <1>1, <1>5, <2>2 DEF Drop, SymbolsOf, ControlTypes
    <3> QED BY <1>1, <2>1, <3>1 DEF FeedFollows
  <2>3. CASE ShardOf[q] # c
    <3>1. feed'[q] = feed[q] /\ link'[ShardOf[q]] = link[ShardOf[q]]
      BY <1>1, <1>5, <2>1, <2>3 DEF Drop, SymbolsOf, ControlTypes
    <3> QED BY <1>1, <2>1, <3>1 DEF FeedFollows
  <2> QED BY <2>2, <2>3
<1>6. ASSUME NEW s \in Symbols, Frames(s) PROVE FeedFollows'
  <2>1. made' = made /\ link' = link /\ feed[s] # "none" /\ feed' = [feed EXCEPT ![s] = "deltas"]
    BY <1>6, FrameAsks DEF exchange
  <2>2. \A q \in Symbols : next'[q] <= made[q] + 1 /\ (feed'[q] # "none" => next'[q] > 1)
    <3>1. CASE SnapshotFrame(s)
      <4>1. next' = next
        BY <3>1 DEF SnapshotFrame
      <4> QED BY <1>1, <2>1, <4>1 DEF FeedFollows, ControlTypes
    <3>2. CASE \E hi \in 1 .. MaxUpdates[s], malformed \in BOOLEAN : DeltaFrame(s, hi, malformed)
      <4>1. PICK hi \in 1 .. MaxUpdates[s], malformed \in BOOLEAN : DeltaFrame(s, hi, malformed)
        BY <3>2
      <4>2. /\ hi \in Nat /\ next[s] \in Nat \ {0} /\ next[s] <= hi /\ hi <= made[s]
            /\ next' = [next EXCEPT ![s] = hi + 1] /\ feed' = feed
        BY <4>1, DeltaFrameActs
      <4>3. made[s] \in Nat /\ hi + 1 <= made[s] + 1 /\ hi + 1 > 1
        BY <1>1, <4>2 DEF ControlTypes
      <4>4. \A q \in Symbols : next'[q] = IF q = s THEN hi + 1 ELSE next[q]
        BY <1>1, <4>2 DEF ControlTypes
      <4> QED BY <1>1, <4>2, <4>3, <4>4 DEF FeedFollows
    <3> QED BY <1>6, <3>1, <3>2 DEF Frames
  <2> QED BY <1>1, <2>1, <2>2 DEF FeedFollows, ControlTypes
<1>7. ASSUME Pump \/ TakeShot \/ Retry \/ TimeUp \/ UNCHANGED allVars
      PROVE  UNCHANGED <<made, link, feed, next>>
  BY <1>7 DEF Pump, Take, Proceed, Serve, Complete, RateLimited, Requeue, FetchErrs, AskAgain, Failing,
     TakeShot, Retry, TimeUp, allVars, vars, exchange, socket
<1> QED BY <1>2, <1>3, <1>4, <1>5, <1>6, <1>7 DEF ShotNext, Next, Shard

(* The books start blank, and so sound.                                    *)
LEMMA TypesInit ==
  ASSUME ShotInit
  PROVE  Types /\ RangedIsWhole
<1>1. Init /\ shot = [phase |-> "trying", tries |-> 0]
  BY DEF ShotInit
<1>2. pump = [phase |-> "idle"] /\ queue = <<>> /\ epoch = 0
  BY <1>1 DEF Init, Idle
<1>3. queue \in Seq(Symbols \X (0 .. epoch))
  BY <1>2
<1>4. book = [s \in Symbols |-> Blank] /\ Blank.ring = <<>> /\ Len(<<>>) = 0
  BY <1>1, BlankIsSound DEF Init
<1>5. Len(<<>>) <= Capacity /\ DOMAIN <<>> = {}
  BY <1>4, BookAssumption
<1>6. book \in [Symbols -> Books] /\ \A s \in Symbols : Len(book[s].ring) <= Capacity
  BY <1>4, <1>5, BlankIsSound
<1>7. BooksAreSound /\ RangedIsWhole
  <2>1. ranged \subseteq Symbols
    BY <1>1 DEF Init
  <2> QED BY <1>4, <1>5, <2>1, BlankIsSound DEF BooksAreSound, RangedIsWhole
<1>8. ControlTypes
  <2>1. made \in [Symbols -> Nat \ {0}] /\ next \in [Symbols -> Nat \ {0}]
    BY <1>1 DEF Init
  <2>2. drops \in [Shards -> Nat] /\ \A c \in Shards : drops[c] <= MaxDrops[c]
    BY <1>1, ResyncAssumption DEF Init
  <2>3. failed \in [Symbols -> Nat] /\ \A s \in Symbols : failed[s] <= MaxFailures[s]
    BY <1>1, ResyncAssumption DEF Init
  <2> QED BY <1>1, <1>2, <1>3, <2>1, <2>2, <2>3 DEF Init, ControlTypes, Phases
<1>9. TypeOK
  BY <1>6, <1>8 DEF ControlTypes, TypeOK
<1>10. PumpType
  BY <1>2 DEF PumpType, Waits, Idle
<1>11. ShotType
  BY <1>1 DEF ShotType
<1>12. FeedFollows
  BY <1>1, ResyncAssumption DEF Init, FeedFollows
<1> QED BY <1>7, <1>9, <1>10, <1>11, <1>12 DEF Types

(* All types through every step of the program.                            *)
LEMMA TypesNext ==
  ASSUME Types, [ShotNext]_allVars
  PROVE  Types' /\ (RangedIsWhole => RangedIsWhole')
<1>1. ControlTypes' /\ PumpType' /\ ShotType' /\ FeedFollows'
  BY ControlTypesNext, PumpTypeNext, ShotTypeNext, FeedFollowsNext
<1>2. BooksGood' /\ (RangedIsWhole => RangedIsWhole')
  BY BooksNext
<1>3. TypeOK'
  BY <1>1, <1>2 DEF ControlTypes, BooksGood, TypeOK
<1> QED BY <1>1, <1>2, <1>3 DEF Types, BooksGood

(* Types, and the ring stays within its slots (TypeOK of L2Resync): what a *)
(* snapshot or a delta makes of a book is a book.                          *)
THEOREM TypeCorrect == ShotSpec => []TypeOK
<1>1. ShotInit => Types
  BY TypesInit
<1>2. Types /\ [ShotNext]_allVars => Types'
  BY TypesNext
<1>3. Types => TypeOK
  BY DEF Types
<1> QED BY <1>1, <1>2, <1>3, PTL DEF ShotSpec

-----------------------------------------------------------------------------
(* Requests through every step.                                            *)

(* Nothing is asked for at the start.                                      *)
LEMMA RequestsInit ==
  ASSUME ShotInit
  PROVE  Requests
<1>1. /\ queue = <<>> /\ epoch = 0 /\ pending = {} /\ pump = Idle
      /\ state = [s \in Symbols |-> "SYNCED"] /\ book = [s \in Symbols |-> Blank]
  BY DEF ShotInit, Init
<1>2. Range(queue) = {}
  BY <1>1 DEF Range
<1>3. \A s \in Symbols : ~Usable(s) /\ state[s] # "RECOVERING"
  BY <1>1, BlankIsSound DEF Usable
<1>4. pump.phase = "idle"
  BY <1>1 DEF Idle
<1> QED BY <1>1, <1>2, <1>3, <1>4 DEF Requests, RequestsAreFresh, PendingIsUnderWay,
        OutageIsQuiet, WaitingIsAskedFor, Asked, InHand

(* A step that leaves requests alone.                                      *)
LEMMA RequestsKept ==
  ASSUME Requests, UNCHANGED <<epoch, queue, pending, pump, failed, orphaned>>,
         \A s \in Symbols : link'[ShardOf[s]] = "down" => link[ShardOf[s]] = "down",
         \A s \in Symbols : Usable(s)' /\ link[ShardOf[s]] = "down" => Usable(s),
         \A s \in Symbols : state'[s] = "RECOVERING" => state[s] = "RECOVERING"
  PROVE  Requests'
<1>1. RequestsAreFresh'
  BY DEF Requests, RequestsAreFresh
<1>2. PendingIsUnderWay'
  BY DEF Requests, PendingIsUnderWay, Asked, InHand
<1>3. OutageIsQuiet'
  BY DEF Requests, OutageIsQuiet, Asked, InHand
<1>4. WaitingIsAskedFor'
  BY DEF Requests, WaitingIsAskedFor, Asked, InHand, Retrying
<1> QED BY <1>1, <1>2, <1>3, <1>4 DEF Requests

(* A loss voids all requests: those of other shards it leaves orphaned.    *)
LEMMA RequestsDropped ==
  ASSUME Types, Requests, NEW c \in Shards, Drop(c)
  PROVE  Requests'
<1>1. /\ epoch' = epoch + 1 /\ epoch \in Nat /\ queue' = <<>> /\ pending' = {}
      /\ UNCHANGED <<pump, failed, book>>
      /\ orphaned' = (orphaned \cup Requested) \ SymbolsOf(c)
      /\ state' = [s \in Symbols |-> IF s \in SymbolsOf(c) THEN "DESYNCED" ELSE state[s]]
      /\ link' = [link EXCEPT ![c] = "down"] /\ link \in [Shards -> {"up", "down"}]
  BY DEF Drop, Types, TypeOK
<1>2. Range(queue') = {}
  BY <1>1 DEF Range
<1>3. pump.phase # "idle" => pump.epoch \in Nat /\ pump.epoch <= epoch
  BY DEF Types, TypeOK, PumpType, Waits, Phases, Requests, RequestsAreFresh
<1>4. pump.phase # "idle" => pump.epoch <= epoch' /\ pump.epoch # epoch'
  BY <1>1, <1>3
<1>5. RequestsAreFresh'
  BY <1>1, <1>2, <1>4 DEF Requests, RequestsAreFresh
<1>6. PendingIsUnderWay'
  BY <1>1 DEF PendingIsUnderWay
<1>7. OutageIsQuiet'
  <2> SUFFICES ASSUME NEW s \in Symbols, link'[ShardOf[s]] = "down", failed'[s] = 0
               PROVE  /\ ~Usable(s)' /\ ~Asked(s)'
                      /\ ~InHand(s, {"taken", "fetching", "answered"})'
    BY DEF OutageIsQuiet
  <2>1. ~Asked(s)'
    BY <1>2 DEF Asked
  <2>2. ~InHand(s, {"taken", "fetching", "answered"})'
    BY <1>1, <1>4 DEF InHand
  <2>3. CASE s \in SymbolsOf(c)
    BY <1>1, <2>1, <2>2, <2>3 DEF Usable
  <2>4. CASE s \notin SymbolsOf(c)
    <3>1. ShardOf[s] \in Shards /\ ShardOf[s] # c
      BY <2>4, ResyncAssumption DEF SymbolsOf
    <3>2. link[ShardOf[s]] = "down" /\ state'[s] = state[s]
      BY <1>1, <2>4, <3>1
    <3>3. ~Usable(s)
      BY <1>1, <3>2 DEF Requests, OutageIsQuiet
    <3> QED BY <1>1, <2>1, <2>2, <3>2, <3>3 DEF Usable
  <2> QED BY <2>3, <2>4
<1>8. WaitingIsAskedFor'
  <2> SUFFICES ASSUME NEW s \in Symbols, state'[s] = "RECOVERING"
               PROVE  Retrying(s)' \/ s \in orphaned'
    BY DEF WaitingIsAskedFor
  <2>1. s \notin SymbolsOf(c) /\ state[s] = "RECOVERING"
    BY <1>1
  <2>2. CASE Asked(s)
    <3>1. <<s, epoch>>[1] = s
      OBVIOUS
    <3>2. s \in Requested
      BY <2>2, <3>1 DEF Asked, Requested
    <3> QED BY <1>1, <2>1, <3>2
  <2>3. CASE InHand(s, {"taken", "fetching", "answered"})
    <3>1. s \in Requested
      BY <2>3 DEF InHand, Requested
    <3> QED BY <1>1, <2>1, <3>1
  <2>4. CASE Retrying(s)
    BY <1>1, <2>4 DEF Retrying
  <2>5. CASE s \in orphaned
    BY <1>1, <2>1, <2>5
  <2> QED BY <2>1, <2>2, <2>3, <2>4, <2>5 DEF Requests, WaitingIsAskedFor
<1> QED BY <1>5, <1>6, <1>7, <1>8 DEF Requests

(* A request for s, by a frame or by the pump that lets go of s.           *)
LEMMA RequestsAsked ==
  ASSUME Types, Requests, NEW s \in Symbols, Request(s),
         UNCHANGED <<link, failed>>,
         link[ShardOf[s]] = "up" \/ failed[s] > 0,
         pump' = pump \/ (Retrying(s) /\ pump' = Idle),
         \A q \in Symbols : Usable(q)' /\ link[ShardOf[q]] = "down" => Usable(q),
         \A q \in Symbols \ {s} : state'[q] = state[q]
  PROVE  Requests'
<1>1. /\ Range(queue') = IF s \in pending THEN Range(queue) ELSE Range(queue) \cup {<<s, epoch>>}
      /\ pending' = pending \cup {s} /\ orphaned' = orphaned \ {s} /\ epoch' = epoch
  BY RequestMade DEF Types
<1>2. \A q \in Symbols : Asked(q) => Asked(q)'
  BY <1>1 DEF Asked
<1>3. \A q \in Symbols \ {s} : Asked(q)' => Asked(q)
  <2> SUFFICES ASSUME NEW q \in Symbols \ {s}, Asked(q)' PROVE Asked(q)
    OBVIOUS
  <2>1. <<q, epoch>> # <<s, epoch>>
    OBVIOUS
  <2> QED BY <1>1, <2>1 DEF Asked
<1>4. \A q, P : P \in SUBSET {"taken", "fetching", "answered"} => (InHand(q, P)' <=> InHand(q, P))
  BY <1>1 DEF InHand, Retrying, Idle
<1>5. Asked(s)' \/ InHand(s, {"taken"})'
  <2>1. CASE s \in pending
    <3>1. Asked(s) \/ InHand(s, {"taken"})
      BY <2>1 DEF Requests, PendingIsUnderWay
    <3> QED BY <1>2, <1>4, <3>1
  <2>2. CASE s \notin pending
    BY <1>1, <2>2 DEF Asked
  <2> QED BY <2>1, <2>2
<1>6. RequestsAreFresh'
  <2>1. \A e \in Range(queue') : e[1] \in Symbols /\ e = <<e[1], epoch'>>
    <3>1. <<s, epoch>>[1] = s
      OBVIOUS
    <3> QED BY <1>1, <3>1 DEF Requests, RequestsAreFresh
  <2>2. /\ pump'.phase # "idle" => pump'.epoch <= epoch'
        /\ pump'.phase \in {"backoff", "sleeping"} => failed'[pump'.sym] > 0
    BY <1>1 DEF Requests, RequestsAreFresh, Idle
  <2> QED BY <2>1, <2>2 DEF RequestsAreFresh
<1>7. PendingIsUnderWay'
  <2> SUFFICES ASSUME NEW q \in pending', q # s
               PROVE  Asked(q)' \/ InHand(q, {"taken"})'
    BY <1>5 DEF PendingIsUnderWay
  <2>1. q \in pending /\ q \in Symbols
    BY <1>1 DEF Types, TypeOK
  <2>2. Asked(q) \/ InHand(q, {"taken"})
    BY <2>1 DEF Requests, PendingIsUnderWay
  <2> QED BY <1>2, <1>4, <2>1, <2>2
<1>8. OutageIsQuiet'
  <2> SUFFICES ASSUME NEW q \in Symbols, link'[ShardOf[q]] = "down", failed'[q] = 0
               PROVE  /\ ~Usable(q)' /\ ~Asked(q)'
                      /\ ~InHand(q, {"taken", "fetching", "answered"})'
    BY DEF OutageIsQuiet
  <2>1. q # s /\ link[ShardOf[q]] = "down" /\ failed[q] = 0
    OBVIOUS
  <2>2. /\ ~Usable(q) /\ ~Asked(q)
        /\ ~InHand(q, {"taken", "fetching", "answered"})
    BY <2>1 DEF Requests, OutageIsQuiet
  <2> QED BY <1>3, <1>4, <2>1, <2>2
<1>9. WaitingIsAskedFor'
  <2> SUFFICES ASSUME NEW q \in Symbols, state'[q] = "RECOVERING"
               PROVE  Asked(q)' \/ Retrying(q)' \/ InHand(q, {"taken", "fetching", "answered"})' \/ q \in orphaned'
    BY DEF WaitingIsAskedFor
  <2>1. CASE q = s
    BY <1>5, <2>1 DEF InHand
  <2>2. CASE q # s
    <3>1. Asked(q) \/ Retrying(q) \/ InHand(q, {"taken", "fetching", "answered"}) \/ q \in orphaned
      BY <2>2 DEF Requests, WaitingIsAskedFor
    <3>2. Retrying(q) => Retrying(q)'
      BY <2>2 DEF Retrying
    <3> QED BY <1>1, <1>2, <1>4, <2>2, <3>1, <3>2
  <2> QED BY <2>1, <2>2
<1> QED BY <1>6, <1>7, <1>8, <1>9 DEF Requests

(* The steps of the pump that ask for nothing.                             *)
LEMMA RequestsPumped ==
  ASSUME Types, Requests, Take \/ Proceed \/ Serve \/ Complete \/ RateLimited \/ FetchErrs
  PROVE  Requests'
<1>1. /\ state \in [Symbols -> {"SYNCED", "DESYNCED", "RECOVERING"}] /\ book \in [Symbols -> Books]
      /\ pending \subseteq Symbols /\ failed \in [Symbols -> Nat] /\ epoch \in Nat
      /\ UNCHANGED <<epoch, link>>
      /\ pump.phase # "idle" => pump.sym \in Symbols
  <2>1. UNCHANGED <<epoch, link>>
    BY DEF Take, Proceed, Serve, Complete, RateLimited, FetchErrs, Failing, socket, resync
  <2> QED BY <2>1 DEF Types, TypeOK, PumpType, Waits, Phases
<1>2. /\ \A e \in Range(queue) : e[1] \in Symbols /\ e = <<e[1], epoch>>
      /\ pump.phase # "idle" => pump.epoch <= epoch
      /\ pump.phase \in {"backoff", "sleeping"} => failed[pump.sym] > 0
  BY DEF Requests, RequestsAreFresh
<1>3. /\ \A q \in pending : Asked(q) \/ InHand(q, {"taken"})
      /\ \A q \in Symbols : link[ShardOf[q]] = "down" /\ failed[q] = 0 =>
           ~Usable(q) /\ ~Asked(q) /\ ~InHand(q, {"taken", "fetching", "answered"})
      /\ \A q \in Symbols : state[q] = "RECOVERING" =>
           Asked(q) \/ Retrying(q) \/ InHand(q, {"taken", "fetching", "answered"}) \/ q \in orphaned
  BY DEF Requests, PendingIsUnderWay, OutageIsQuiet, WaitingIsAskedFor
<1>4. CASE Take
  <2>1. /\ pump = Idle /\ queue # <<>> /\ queue' = Tail(queue)
        /\ pump' = [phase |-> "taken", sym |-> Head(queue)[1], epoch |-> Head(queue)[2]]
        /\ UNCHANGED <<book, state, pending, failed, orphaned>>
    BY <1>4 DEF Take, ghost
  <2>2. Head(queue) \in Range(queue) /\ Range(queue) = Range(queue') \cup {Head(queue)}
    BY <2>1, TakenEntry DEF Types
  <2>3. PICK s \in Symbols : s = Head(queue)[1] /\ Head(queue) = <<s, epoch>>
    BY <1>2, <2>2
  <2>4. pump'.phase = "taken" /\ pump'.sym = s /\ pump'.epoch = epoch
    BY <2>1, <2>3
  <2>5. \A q \in Symbols : ~InHand(q, {"taken", "fetching", "answered"}) /\ ~InHand(q, {"taken"}) /\ ~Retrying(q)
    BY <2>1 DEF InHand, Retrying, Idle
  <2>6. \A q \in Symbols : Asked(q) <=> Asked(q)' \/ q = s
    <3>1. \A q \in Symbols : <<q, epoch>> = <<s, epoch>> <=> q = s
      OBVIOUS
    <3>2. \A q \in Symbols : Asked(q)' <=> <<q, epoch>> \in Range(queue')
      BY <1>1 DEF Asked
    <3> QED BY <2>2, <2>3, <3>1, <3>2 DEF Asked
  <2>7. \A q \in Symbols : /\ InHand(q, {"taken", "fetching", "answered"})' <=> q = s
                           /\ InHand(q, {"taken"})' <=> q = s
    BY <1>1, <2>4 DEF InHand
  <2>8. RequestsAreFresh'
    BY <1>1, <1>2, <2>2, <2>4 DEF RequestsAreFresh
  <2>9. PendingIsUnderWay'
    BY <1>1, <1>3, <2>1, <2>5, <2>6, <2>7 DEF PendingIsUnderWay
  <2>10. OutageIsQuiet'
    BY <1>1, <1>3, <2>1, <2>6, <2>7 DEF OutageIsQuiet, Usable
  <2>11. WaitingIsAskedFor'
    BY <1>3, <2>1, <2>5, <2>6, <2>7 DEF WaitingIsAskedFor
  <2> QED BY <2>8, <2>9, <2>10, <2>11 DEF Requests
<1>5. ASSUME queue' = queue PROVE \A q : Asked(q)' <=> Asked(q)
  BY <1>1, <1>5 DEF Asked
<1>6. CASE Proceed
  <2>1. /\ pump.phase = "taken" /\ pending' = pending \ {pump.sym}
        /\ UNCHANGED <<queue, book, state, failed, orphaned>>
        /\ pump' = IF pump.epoch = epoch THEN [pump EXCEPT !.phase = "fetching"] ELSE Idle
    BY <1>6 DEF Proceed, ghost
  <2>2. pump \in [phase : Waits, sym : Symbols, epoch : Nat]
    BY <2>1 DEF Types, PumpType, Waits
  <2>3. IF pump.epoch = epoch
          THEN pump'.phase = "fetching" /\ pump'.sym = pump.sym /\ pump'.epoch = pump.epoch
          ELSE pump'.phase = "idle"
    BY <2>1, <2>2 DEF Idle
  <2>4. \A q : InHand(q, {"taken", "fetching", "answered"})' <=> InHand(q, {"taken", "fetching", "answered"})
    BY <1>1, <2>1, <2>3 DEF InHand
  <2>5. \A q : ~Retrying(q)
    BY <2>1 DEF Retrying
  <2>6. RequestsAreFresh'
    BY <1>1, <1>2, <2>1, <2>3 DEF RequestsAreFresh
  <2>7. PendingIsUnderWay'
    BY <1>3, <1>5, <2>1 DEF PendingIsUnderWay, InHand
  <2>8. OutageIsQuiet'
    BY <1>1, <1>3, <1>5, <2>1, <2>4 DEF OutageIsQuiet, Usable
  <2>9. WaitingIsAskedFor'
    BY <1>3, <1>5, <2>1, <2>4, <2>5 DEF WaitingIsAskedFor
  <2> QED BY <2>6, <2>7, <2>8, <2>9 DEF Requests
<1>7. CASE Serve
  <2>1. /\ pump.phase = "fetching"
        /\ UNCHANGED <<queue, pending, book, state, failed, orphaned>>
        /\ pump'.phase = "answered" /\ pump'.sym = pump.sym /\ pump'.epoch = pump.epoch
    BY <1>7 DEF Serve, resync
  <2>2. \A q : InHand(q, {"taken", "fetching", "answered"})' <=> InHand(q, {"taken", "fetching", "answered"})
    BY <1>1, <2>1 DEF InHand
  <2>3. \A q : ~Retrying(q) /\ ~InHand(q, {"taken"})
    BY <2>1 DEF Retrying, InHand
  <2>4. RequestsAreFresh'
    BY <1>1, <1>2, <2>1 DEF RequestsAreFresh
  <2>5. PendingIsUnderWay'
    BY <1>1, <1>3, <1>5, <2>1, <2>3 DEF PendingIsUnderWay
  <2>6. OutageIsQuiet'
    BY <1>1, <1>3, <1>5, <2>1, <2>2 DEF OutageIsQuiet, Usable
  <2>7. WaitingIsAskedFor'
    BY <1>3, <1>5, <2>1, <2>2, <2>3 DEF WaitingIsAskedFor
  <2> QED BY <2>4, <2>5, <2>6, <2>7 DEF Requests
<1>8. CASE Complete
  <2>1. /\ pump.phase = "answered" /\ pump' = Idle /\ UNCHANGED <<queue, pending, failed>>
        /\ IF pump.epoch = epoch THEN Ingested(pump.sym, pump.u) ELSE UNCHANGED <<book, state, orphaned>>
    BY <1>8 DEF Complete, resync
  <2>2. /\ \A q \in Symbols : state'[q] = state[q] \/ (q = pump.sym /\ state'[q] = "SYNCED")
        /\ \A q \in Symbols : ~InHand(q, {"answered"}) => Usable(q)' = Usable(q) /\ (q \in orphaned' <=> q \in orphaned)
        /\ \A q \in Symbols : InHand(q, {"answered"}) => state'[q] = "SYNCED"
    BY <1>1, <2>1 DEF Ingested, Usable, InHand
  <2>3. \A q : /\ InHand(q, {"taken", "fetching", "answered"}) <=> InHand(q, {"answered"})
               /\ ~Retrying(q) /\ ~InHand(q, {"taken"})
    BY <2>1 DEF Retrying, InHand
  <2>4. \A q : ~InHand(q, {"taken", "fetching", "answered"})'
    BY <2>1 DEF InHand, Idle
  <2>5. RequestsAreFresh'
    BY <1>1, <1>2, <2>1 DEF RequestsAreFresh, Idle
  <2>6. PendingIsUnderWay'
    BY <1>1, <1>3, <1>5, <2>1, <2>3 DEF PendingIsUnderWay
  <2>7. OutageIsQuiet'
    BY <1>1, <1>3, <1>5, <2>1, <2>2, <2>3, <2>4 DEF OutageIsQuiet
  <2>8. WaitingIsAskedFor'
    BY <1>3, <1>5, <2>1, <2>2, <2>3 DEF WaitingIsAskedFor
  <2> QED BY <2>5, <2>6, <2>7, <2>8 DEF Requests
<1>9. CASE RateLimited \/ FetchErrs
  <2>1. /\ pump.phase = "fetching" /\ UNCHANGED <<queue, pending, book, orphaned>>
        /\ failed' = [failed EXCEPT ![pump.sym] = @ + 1]
        /\ \E p \in {"backoff", "sleeping"} : pump' = [pump EXCEPT !.phase = p]
        /\ UNCHANGED state \/ state' = [state EXCEPT ![pump.sym] = "DESYNCED"]
    BY <1>9 DEF RateLimited, FetchErrs, Failing, resync
  <2>2. pump \in [phase : Waits, sym : Symbols, epoch : Nat]
    BY <2>1 DEF Types, PumpType, Waits
  <2>3. pump'.phase \in {"backoff", "sleeping"} /\ pump'.sym = pump.sym /\ pump'.epoch = pump.epoch
    BY <2>1, <2>2
  <2>4. /\ \A q \in Symbols : failed'[q] = 0 => failed[q] = 0 /\ q # pump.sym
        /\ failed'[pump.sym] > 0
    BY <1>1, <2>1
  <2>5. /\ \A q \in Symbols : state'[q] = state[q] \/ state'[q] = "DESYNCED"
        /\ \A q \in Symbols : q # pump.sym => state'[q] = state[q]
    BY <1>1, <2>1
  <2>6. \A q : ~InHand(q, {"taken", "fetching", "answered"})' /\ ~InHand(q, {"taken"})
    BY <2>1, <2>3 DEF InHand
  <2>7. /\ \A q : ~Retrying(q) /\ (InHand(q, {"taken", "fetching", "answered"}) => q = pump.sym)
        /\ Retrying(pump.sym)'
    BY <2>1, <2>3 DEF Retrying, InHand
  <2>8. \A q : q = pump.sym => Retrying(q)'
    BY <2>3 DEF Retrying
  <2>9. RequestsAreFresh'
    BY <1>1, <1>2, <2>1, <2>3, <2>4 DEF RequestsAreFresh
  <2>10. PendingIsUnderWay'
    BY <1>1, <1>3, <1>5, <2>1, <2>6 DEF PendingIsUnderWay
  <2>11. OutageIsQuiet'
    BY <1>1, <1>3, <1>5, <2>1, <2>4, <2>5, <2>6 DEF OutageIsQuiet, Usable
  <2>12. WaitingIsAskedFor'
    BY <1>3, <1>5, <2>1, <2>5, <2>7, <2>8 DEF WaitingIsAskedFor
  <2> QED BY <2>9, <2>10, <2>11, <2>12 DEF Requests
<1> QED BY <1>4, <1>6, <1>7, <1>8, <1>9

(* Requests through every step of the program.                             *)
LEMMA RequestsNext ==
  ASSUME Types, Requests, [ShotNext]_allVars
  PROVE  Requests'
<1>1. /\ state \in [Symbols -> {"SYNCED", "DESYNCED", "RECOVERING"}] /\ book \in [Symbols -> Books]
      /\ link \in [Shards -> {"up", "down"}] /\ ShardOf \in [Symbols -> Shards]
  BY ResyncAssumption DEF Types, TypeOK
<1>2. ASSUME UNCHANGED <<link, book, state, epoch, queue, pending, pump, failed, orphaned>> PROVE Requests'
  BY <1>2, RequestsKept DEF Usable
<1>3. ASSUME NEW s \in Symbols, Update(s) PROVE Requests'
  BY <1>2, <1>3 DEF Update, socket, resync, ghost
<1>4. ASSUME NEW c \in Shards, Connect(c) PROVE Requests'
  <2>1. /\ link' = [link EXCEPT ![c] = "up"]
        /\ UNCHANGED <<book, state, epoch, queue, pending, pump, failed, orphaned>>
    BY <1>4 DEF Connect, resync, ghost
  <2>2. \A s \in Symbols : link'[ShardOf[s]] = "down" => link[ShardOf[s]] = "down"
    BY <1>1, <2>1
  <2> QED BY <2>1, <2>2, RequestsKept DEF Usable
<1>5. ASSUME NEW c \in Shards, Drop(c) PROVE Requests'
  BY <1>5, RequestsDropped
<1>6. ASSUME NEW s \in Symbols, Frames(s) PROVE Requests'
  <2>1. /\ UNCHANGED <<link, pump, failed, epoch>> /\ feed[s] # "none"
        /\ \A r \in Symbols \ {s} : state'[r] = state[r] /\ book'[r] = book[r]
        /\ \/ UNCHANGED <<resync, orphaned>> /\ state'[s] = state[s]
           \/ Request(s) /\ state'[s] = "RECOVERING"
    BY <1>6, FrameAsks
  <2>2. link[ShardOf[s]] = "up"
    <3>1. link[ShardOf[s]] \in {"up", "down"}
      BY <1>1
    <3> QED BY <2>1, <3>1 DEF Types, FeedFollows
  <2>3. \A q \in Symbols : Usable(q)' /\ link[ShardOf[q]] = "down" => Usable(q)
    BY <2>1, <2>2 DEF Usable
  <2>4. CASE UNCHANGED <<resync, orphaned>> /\ state'[s] = state[s]
    BY <2>1, <2>3, <2>4, RequestsKept DEF resync
  <2>5. CASE Request(s)
    BY <2>1, <2>2, <2>3, <2>5, RequestsAsked
  <2> QED BY <2>1, <2>4, <2>5
<1>7. CASE Requeue \/ AskAgain
  <2>1. /\ pump.phase \in {"backoff", "sleeping"} /\ pump' = Idle /\ Request(pump.sym)
        /\ UNCHANGED <<link, book, failed>>
        /\ UNCHANGED state \/ state' = [state EXCEPT ![pump.sym] = "RECOVERING"]
    BY <1>7 DEF Requeue, AskAgain, socket
  <2>2. PICK s \in Symbols : s = pump.sym
    BY <2>1 DEF Types, PumpType, Waits
  <2>3. Retrying(s) /\ failed[s] > 0
    BY <2>1, <2>2 DEF Retrying, Requests, RequestsAreFresh
  <2>4. \A q \in Symbols : Usable(q)' => Usable(q)
    BY <1>1, <2>1, <2>2 DEF Usable
  <2>5. \A q \in Symbols \ {s} : state'[q] = state[q]
    BY <1>1, <2>1, <2>2
  <2>6. Request(s)
    BY <2>1, <2>2
  <2> QED BY <2>1, <2>3, <2>4, <2>5, <2>6, RequestsAsked
<1>8. CASE TakeShot
  <2>1. \A s \in Symbols : book'[s].u = book[s].u /\ book'[s].ok = book[s].ok
    BY <1>8, TakeShotBooks
  <2>2. UNCHANGED <<link, state, epoch, queue, pending, pump, failed, orphaned>>
    BY <1>8 DEF TakeShot, socket, resync, ghost
  <2> QED BY <2>1, <2>2, RequestsKept DEF Usable
<1>9. CASE Retry \/ TimeUp \/ UNCHANGED allVars
  BY <1>2, <1>9 DEF Retry, TimeUp, allVars, vars, socket, resync, ghost
<1> QED BY <1>3, <1>4, <1>5, <1>6, <1>7, <1>8, <1>9, RequestsPumped
        DEF ShotNext, Next, Shard, Pump

(* A book is usable without a connection only if REST failed for it        *)
(* (_resync_pump asks again under the epoch of the outage): otherwise no   *)
(* request of the present epoch is left, and none is made, until the       *)
(* worker is back.                                                         *)
THEOREM UsedOnlyConnected == ShotSpec => []UsableOnlyConnected
<1> DEFINE I == Types /\ Requests
<1>1. ShotInit => I
  BY TypesInit, RequestsInit
<1>2. I /\ [ShotNext]_allVars => I'
  BY TypesNext, RequestsNext
<1>3. I => UsableOnlyConnected
  <2> SUFFICES ASSUME I, NEW s \in Symbols, Usable(s), link[ShardOf[s]] = "down"
               PROVE  failed[s] > 0
    BY DEF UsableOnlyConnected
  <2>1. failed[s] \in Nat /\ failed[s] # 0
    BY DEF Types, TypeOK, Requests, OutageIsQuiet
  <2> QED BY <2>1
<1> QED BY <1>1, <1>2, <1>3, PTL DEF ShotSpec

(* A book that waits for its snapshot without a request that the pump will *)
(* honour owes that to the loss of another shard's connection, which voids *)
(* the requests of all (_drain_resync_queue).                              *)
THEOREM StuckOnlyByOthers == ShotSpec => []StuckOnlyByForeignDrop
<1> DEFINE I == Types /\ Requests
<1>1. ShotInit => I
  BY TypesInit, RequestsInit
<1>2. I /\ [ShotNext]_allVars => I'
  BY TypesNext, RequestsNext
<1>3. I => StuckOnlyByForeignDrop
  BY DEF Requests, WaitingIsAskedFor, Asked, Retrying, InHand, Idle,
         StuckOnlyByForeignDrop, UnderWay
<1> QED BY <1>1, <1>2, <1>3, PTL DEF ShotSpec
-----------------------------------------------------------------------------
(* Books without U.                                                        *)

(* Such a book has no hole while it is usable, unless it is excused, and   *)
(* what its feed delivers goes on where it ends.                           *)
GoesOn(s) ==
  s \notin ranged /\ s \notin excused /\ state[s] = "SYNCED" /\ book[s].ok =>
    /\ Whole(book[s])
    /\ feed[s] = "deltas" => next[s] <= book[s].u + 1

(* The feed goes on where u or the ring ends.                              *)
Reaches(ring, u, n) == n <= u + 1 \/ (ring # <<>> /\ n = ring[Len(ring)].hi + 1)

(* A REST answer that nothing has overtaken fits the deltas in the ring.   *)
Fits(s) ==
  s \notin ranged /\ s \notin late /\ pump.phase = "answered" /\ pump.sym = s =>
    /\ Continues(book[s].ring, pump.u)
    /\ feed[s] = "deltas" => Reaches(book[s].ring, pump.u, next[s])

Places == RangedIsWhole /\ \A s \in Symbols : GoesOn(s) /\ Fits(s)

(* A step that moves neither the book nor the feed of s.                   *)
LEMMA GoesOnKept ==
  ASSUME NEW s, GoesOn(s), ranged' = ranged,
         book'[s].u = book[s].u, book'[s].holds = book[s].holds, book'[s].ok = book[s].ok,
         state'[s] = "SYNCED" => state[s] = "SYNCED",
         feed'[s] = "deltas" => feed[s] = "deltas" /\ next'[s] = next[s],
         s \in excused => s \in excused'
  PROVE  GoesOn(s)'
BY DEF GoesOn, Whole

(* And that serves no answer for s.                                        *)
LEMMA FitsKept ==
  ASSUME NEW s, Fits(s), ranged' = ranged, book'[s].ring = book[s].ring,
         pump' = pump \/ pump'.phase # "answered" \/ pump'.sym # s,
         feed'[s] = "deltas" => feed[s] = "deltas" /\ next'[s] = next[s],
         s \in late => s \in late'
  PROVE  Fits(s)'
BY DEF Fits, Continues, Reaches

(* A frame: a delta is applied where the book ends, kept in the ring where *)
(* the ring ends, or makes the answer late.                                *)
LEMMA FramePlaces ==
  ASSUME Types, NEW s \in Symbols, Frames(s), NEW q \in Symbols, GoesOn(q), Fits(q)
  PROVE  GoesOn(q)' /\ Fits(q)'
<1>1. /\ state \in [Symbols -> {"SYNCED", "DESYNCED", "RECOVERING"}]
      /\ feed \in [Symbols -> {"none", "snapshot", "deltas"}]
      /\ next \in [Symbols -> Nat \ {0}] /\ book \in [Symbols -> Books]
  BY DEF Types, TypeOK
<1>2. /\ \A r \in Symbols \ {s} : state'[r] = state[r] /\ book'[r] = book[r]
      /\ ranged' = ranged /\ pump' = pump /\ feed[s] # "none"
      /\ feed' = [feed EXCEPT ![s] = "deltas"]
  BY FrameAsks DEF exchange
<1>3. /\ book[s] \in Books /\ SoundBook(book[s]) /\ Len(book[s].ring) <= Capacity
      /\ book[s].ring \in Seq(Deltas)
      /\ book[s].ring # <<>> => state[s] # "SYNCED"
  BY <1>1, BookFields DEF Types, TypeOK, BooksAreSound
<1>4. CASE SnapshotFrame(s)
  <2>1. /\ next' = next /\ late' = late \cup {s}
        /\ \A r \in Symbols \ {s} : r \in excused => r \in excused'
    BY <1>4 DEF SnapshotFrame, HandleSnapshot
  <2>2. Fits(q)'
    <3>1. CASE q = s
      BY <2>1, <3>1 DEF Fits
    <3>2. CASE q # s
      <4>1. feed'[q] = feed[q] /\ book'[q].ring = book[q].ring
        BY <1>1, <1>2, <3>2
      <4> QED BY <1>2, <2>1, <4>1, FitsKept
    <3> QED BY <3>1, <3>2
  <2>3. GoesOn(q)'
    <3>1. CASE q # s
      <4>1. feed'[q] = feed[q] /\ book'[q] = book[q] /\ state'[q] = state[q] /\ next'[q] = next[q]
        BY <1>1, <1>2, <2>1, <3>1
      <4> QED BY <1>2, <2>1, <3>1, <4>1, GoesOnKept
    <3>2. CASE q = s /\ state[s] = "SYNCED"
      <4> DEFINE r == Snapshot(book[s], next[s] - 1)
      <4>1. next[s] - 1 \in Nat \ {0} /\ next[s] \in Nat
        BY <1>1, <1>2 DEF Types, FeedFollows
      <4>2. book' = [book EXCEPT ![s] = r]
        BY <1>4, <3>2 DEF SnapshotFrame, HandleSnapshot, Desynced
      <4>3. DOMAIN book[s].ring = {}
        BY <1>3, <3>2
      <4>4. (\A i \in DOMAIN book[s].ring : WithoutU(book[s].ring[i])) /\ Continues(book[s].ring, next[s] - 1)
        BY <4>3 DEF Continues
      <4>5. r \in Books /\ r.ok /\ Whole(r) /\ r.u >= next[s] - 1
        BY <1>3, <4>1, <4>4, SnapshotBook
      <4> HIDE DEF r
      <4>6. book'[s] = r
        BY <1>1, <4>2
      <4>7. next[s] <= r.u + 1
        <5>1. r.u \in Nat
          BY <4>5, BookFields
        <5> QED BY <4>1, <4>5, <5>1
      <4> QED BY <2>1, <3>2, <4>5, <4>6, <4>7 DEF GoesOn, Whole
    <3>3. CASE q = s /\ state[s] # "SYNCED"
      <4>1. state'[s] # "SYNCED"
        BY <1>1, <1>4, <3>3 DEF SnapshotFrame, HandleSnapshot, Desynced
      <4> QED BY <3>3, <4>1 DEF GoesOn
    <3> QED BY <3>1, <3>2, <3>3
  <2> QED BY <2>2, <2>3
<1>5. CASE \E hi \in 1 .. MaxUpdates[s], malformed \in BOOLEAN : DeltaFrame(s, hi, malformed)
  <2>1. PICK hi \in 1 .. MaxUpdates[s], malformed \in BOOLEAN : DeltaFrame(s, hi, malformed)
    BY <1>5
  <2>2. PICK f \in Deltas :
           /\ f.from = next[s] /\ f.hi = hi
           /\ IF s \in ranged THEN WithU(f) ELSE WithoutU(f)
           /\ hi \in Nat /\ next[s] \in Nat \ {0} /\ next[s] <= hi
           /\ feed[s] = "deltas"
           /\ next' = [next EXCEPT ![s] = hi + 1]
           /\ HandleDelta(s, f)
           /\ late' = IF KeptForSnapshot(s, f) THEN late ELSE late \cup {s}
           /\ excused' = excused
    BY <2>1, DeltaFrameActs
  <2>3. WasSent(f)
    BY <2>2 DEF WithU, WithoutU
  <2>4. CASE q # s
    <3>1. feed'[q] = feed[q] /\ book'[q] = book[q] /\ state'[q] = state[q] /\ next'[q] = next[q]
      BY <1>1, <1>2, <2>2, <2>4
    <3>2. q \in late => q \in late'
      BY <2>2
    <3> QED BY <1>2, <2>2, <3>1, <3>2, GoesOnKept, FitsKept
  <2>5. CASE q = s
    <3> DEFINE r == Delta(book[s], f)
    <3>1. /\ r \in Books
          /\ Verdict(book[s], f) = "no_snapshot_anchor" /\ Len(book[s].ring) < Capacity =>
               r.ring = Append(book[s].ring, f)
          /\ r.ok => book[s].ok
          /\ WithoutU(f) /\ book[s].ok /\ Whole(book[s]) /\ f.from <= book[s].u + 1 =>
               Whole(r) /\ r.u >= f.hi
      BY <1>3, <2>3, DeltaBook
    <3>2. next'[s] = hi + 1
      BY <1>1, <2>2
    <3>3. state[s] # "DESYNCED" => book'[s] = r
      BY <1>1, <2>2 DEF HandleDelta, Desynced
    <3>4. state'[s] = "SYNCED" => state[s] = "SYNCED"
      BY <1>1, <2>2 DEF HandleDelta, Desynced
    <3> HIDE DEF r
    <3>5. GoesOn(q)'
      <4> SUFFICES ASSUME s \notin ranged, s \notin excused, state'[s] = "SYNCED", r.ok, book'[s] = r
                   PROVE  Whole(r) /\ hi + 1 <= r.u + 1
        BY <1>2, <2>2, <2>5, <3>2, <3>3, <3>4 DEF GoesOn, Whole
      <4>1. Whole(book[s]) /\ next[s] <= book[s].u + 1
        BY <2>2, <2>5, <3>1, <3>4 DEF GoesOn
      <4>2. WithoutU(f) /\ f.from <= book[s].u + 1
        BY <2>2, <4>1
      <4>3. Whole(r) /\ r.u >= hi
        BY <2>2, <3>1, <4>1, <4>2
      <4>4. r.u \in Nat
        BY <3>1, BookFields
      <4> QED BY <2>2, <4>3, <4>4
    <3>6. Fits(q)'
      <4> SUFFICES ASSUME s \notin ranged, s \notin late', pump.phase = "answered", pump.sym = s
                   PROVE  /\ Continues(book'[s].ring, pump.u)
                          /\ Reaches(book'[s].ring, pump.u, hi + 1)
        BY <1>2, <2>5, <3>2 DEF Fits, Continues, Reaches
      <4>1. KeptForSnapshot(s, f) /\ s \notin late
        BY <2>2
      <4> DEFINE ring == book[s].ring
                 longer == Append(ring, f)
      <4>2. book'[s] = r /\ r.ring = longer
        BY <3>1, <3>3, <4>1 DEF KeptForSnapshot
      <4>3. Continues(ring, pump.u) /\ Reaches(ring, pump.u, next[s])
        BY <2>2, <2>5, <4>1 DEF Fits
      <4>4. ring \in Seq(Deltas) /\ Len(ring) \in Nat
        BY <1>3
      <4> HIDE DEF ring
      <4>5. /\ Len(longer) = Len(ring) + 1 /\ DOMAIN longer = 1 .. Len(ring) + 1 /\ longer # <<>>
            /\ \A i \in 1 .. Len(ring) : longer[i] = ring[i]
            /\ longer[Len(ring) + 1] = f
        BY <4>4, AppendProperties
      <4> HIDE DEF longer
      <4>6. Reaches(longer, pump.u, hi + 1)
        BY <2>2, <4>5 DEF Reaches
      <4>7. Continues(longer, pump.u)
        <5> SUFFICES ASSUME NEW i \in 1 .. Len(ring) + 1, longer[i].hi > pump.u
                     PROVE  longer[i].from <= pump.u + 1 \/ (i > 1 /\ longer[i].from = longer[i - 1].hi + 1)
          BY <4>5 DEF Continues
        <5>1. CASE i = Len(ring) + 1
          <6>1. longer[i].from = next[s]
            BY <2>2, <4>5, <5>1
          <6>2. CASE next[s] <= pump.u + 1
            BY <6>1, <6>2
          <6>3. CASE ring # <<>> /\ next[s] = ring[Len(ring)].hi + 1
            <7>1. Len(ring) \in 1 .. Len(ring) /\ i - 1 = Len(ring) /\ i > 1
              BY <4>4, <5>1, <6>3, EmptySeq
            <7>2. longer[i - 1] = ring[Len(ring)]
              BY <4>5, <7>1
            <7> QED BY <6>1, <6>3, <7>1, <7>2
          <6> QED BY <4>3, <6>2, <6>3 DEF Reaches
        <5>2. CASE i # Len(ring) + 1
          <6>1. i \in 1 .. Len(ring) /\ longer[i] = ring[i] /\ DOMAIN ring = 1 .. Len(ring)
            BY <4>4, <4>5, <5>2
          <6>2. i > 1 => i - 1 \in 1 .. Len(ring)
            BY <4>4, <6>1
          <6>3. i > 1 => longer[i - 1] = ring[i - 1]
            BY <4>5, <6>2
          <6>4. ring[i].from <= pump.u + 1 \/ (i > 1 /\ ring[i].from = ring[i - 1].hi + 1)
            BY <4>3, <6>1 DEF Continues
          <6> QED BY <6>1, <6>3, <6>4
        <5> QED BY <5>1, <5>2
      <4> QED BY <4>2, <4>6, <4>7
    <3> QED BY <3>5, <3>6
  <2> QED BY <2>4, <2>5
<1> QED BY <1>4, <1>5 DEF Frames

(* An answer is served: all the ring is older.                             *)
LEMMA ServedPlaces ==
  ASSUME Types, Serve, NEW s \in Symbols, GoesOn(s), Fits(s)
  PROVE  GoesOn(s)' /\ Fits(s)'
<1>1. /\ UNCHANGED <<ranged, feed, next, book, state, excused>>
      /\ late' = late \ {pump.sym} /\ pump'.phase = "answered" /\ pump'.sym = pump.sym
      /\ pump'.u = made[pump.sym]
  BY DEF Serve, exchange, socket
<1>2. GoesOn(s)'
  BY <1>1, GoesOnKept
<1>3. CASE pump.sym # s
  BY <1>1, <1>2, <1>3 DEF Fits
<1>4. CASE pump.sym = s
  <2>1. made[s] \in Nat /\ next[s] \in Nat /\ next[s] <= made[s] + 1 /\ book[s] \in Books
    BY DEF Types, TypeOK, FeedFollows
  <2>2. \A i \in DOMAIN book[s].ring : ~(book[s].ring[i].hi > made[s])
    <3> SUFFICES ASSUME NEW i \in DOMAIN book[s].ring PROVE ~(book[s].ring[i].hi > made[s])
      OBVIOUS
    <3>1. book[s].ring[i] \in Deltas
      BY <2>1, BookFields
    <3>2. book[s].ring[i].hi \in Nat /\ book[s].ring[i].hi < next[s]
      BY <3>1, FrameFields DEF Types, BooksAreSound
    <3> QED BY <2>1, <3>2
  <2>3. Continues(book[s].ring, made[s]) /\ Reaches(book[s].ring, made[s], next[s])
    BY <2>1, <2>2 DEF Continues, Reaches
  <2> QED BY <1>1, <1>2, <1>4, <2>3 DEF Fits, Continues, Reaches
<1> QED BY <1>3, <1>4

(* And ingested: what the ring has kept closes up with the feed.           *)
LEMMA CompletedPlaces ==
  ASSUME Types, Complete, NEW s \in Symbols, GoesOn(s), Fits(s)
  PROVE  GoesOn(s)' /\ Fits(s)'
<1>1. /\ pump.phase = "answered" /\ pump' = Idle /\ UNCHANGED <<ranged, feed, next, late>>
      /\ state \in [Symbols -> {"SYNCED", "DESYNCED", "RECOVERING"}] /\ book \in [Symbols -> Books]
  BY DEF Complete, exchange, socket, Types, TypeOK
<1>2. Fits(s)'
  BY <1>1 DEF Fits, Idle
<1>3. CASE pump.epoch # epoch
  <2>1. UNCHANGED <<book, state, excused>>
    BY <1>3 DEF Complete
  <2> QED BY <1>1, <1>2, <2>1, GoesOnKept
<1>4. CASE pump.epoch = epoch /\ pump.sym # s
  <2>1. state'[s] = state[s] /\ book'[s] = book[s] /\ (s \in excused => s \in excused')
    BY <1>1, <1>4 DEF Complete, Ingested
  <2> QED BY <1>1, <1>2, <2>1, GoesOnKept
<1>5. CASE pump.epoch = epoch /\ pump.sym = s
  <2>1. PICK u \in Nat \ {0} : u = pump.u
    BY <1>1 DEF Types, PumpType
  <2> DEFINE r == Snapshot(book[s], u)
  <2>2. book'[s] = r /\ (s \notin excused' => s \notin late)
    BY <1>1, <1>5, <2>1 DEF Complete, Ingested
  <2> SUFFICES ASSUME s \notin ranged, s \notin late
               PROVE  Whole(r) /\ (feed[s] = "deltas" => next[s] <= r.u + 1)
    BY <1>1, <1>2, <2>2 DEF GoesOn, Whole
  <2>3. /\ Continues(book[s].ring, u)
        /\ feed[s] = "deltas" => Reaches(book[s].ring, u, next[s])
    BY <1>1, <1>5, <2>1 DEF Fits
  <2>4. \A i \in DOMAIN book[s].ring : WithoutU(book[s].ring[i])
    BY DEF Types, BooksAreSound
  <2>5. book[s] \in Books /\ next[s] \in Nat
    BY DEF Types, TypeOK
  <2>6. r \in Books /\ Whole(r) /\ r.u >= u /\ \A i \in DOMAIN book[s].ring : book[s].ring[i].hi <= r.u
    BY <2>3, <2>4, <2>5, SnapshotBook
  <2>7. r.u \in Nat
    BY <2>6, BookFields
  <2> HIDE DEF r
  <2>8. ASSUME feed[s] = "deltas" PROVE next[s] <= r.u + 1
    <3>1. CASE next[s] <= u + 1
      BY <2>5, <2>6, <2>7, <3>1
    <3>2. CASE book[s].ring # <<>> /\ next[s] = book[s].ring[Len(book[s].ring)].hi + 1
      <4>1. book[s].ring \in Seq(Deltas)
        BY <2>5, BookFields
      <4>2. Len(book[s].ring) \in DOMAIN book[s].ring
        BY <3>2, <4>1, EmptySeq
      <4>3. book[s].ring[Len(book[s].ring)] \in Deltas
        BY <4>1, <4>2
      <4>4. book[s].ring[Len(book[s].ring)].hi \in Nat /\ book[s].ring[Len(book[s].ring)].hi <= r.u
        BY <2>6, <4>2, <4>3, FrameFields
      <4> QED BY <2>7, <3>2, <4>4
    <3> QED BY <2>3, <2>8, <3>1, <3>2 DEF Reaches
  <2> QED BY <2>6, <2>8
<1> QED BY <1>3, <1>4, <1>5

(* Places through every step of the program.                               *)
LEMMA PlacesNext ==
  ASSUME Types, Places, [ShotNext]_allVars
  PROVE  Places'
<1>1. /\ state \in [Symbols -> {"SYNCED", "DESYNCED", "RECOVERING"}] /\ book \in [Symbols -> Books]
      /\ feed \in [Symbols -> {"none", "snapshot", "deltas"}]
  BY DEF Types, TypeOK
<1>2. RangedIsWhole'
  BY TypesNext DEF Places
<1> SUFFICES ASSUME NEW s \in Symbols PROVE GoesOn(s)' /\ Fits(s)'
  BY <1>2 DEF Places
<1>3. GoesOn(s) /\ Fits(s)
  BY DEF Places
<1>4. ASSUME UNCHANGED <<ranged, feed, next, book, late, excused>>,
             state'[s] = "SYNCED" => state[s] = "SYNCED",
             pump' = pump \/ pump'.phase # "answered"
      PROVE  GoesOn(s)' /\ Fits(s)'
  BY <1>3, <1>4, GoesOnKept, FitsKept
<1>5. ASSUME NEW q \in Symbols, Update(q) PROVE GoesOn(s)' /\ Fits(s)'
  BY <1>4, <1>5 DEF Update, socket, ghost
<1>6. ASSUME NEW c \in Shards, Connect(c) PROVE GoesOn(s)' /\ Fits(s)'
  <2>1. UNCHANGED <<ranged, book, state, pump, late, excused>>
    BY <1>6 DEF Connect, exchange, ghost
  <2>2. feed'[s] = "deltas" => feed[s] = "deltas" /\ next'[s] = next[s]
    BY <1>6 DEF Connect
  <2> QED BY <1>3, <2>1, <2>2, GoesOnKept, FitsKept
<1>7. ASSUME NEW c \in Shards, Drop(c) PROVE GoesOn(s)' /\ Fits(s)'
  <2>1. UNCHANGED <<ranged, book, next, pump, late, excused>>
    BY <1>7 DEF Drop, exchange
  <2>2. /\ feed'[s] = "deltas" => feed[s] = "deltas"
        /\ state'[s] = "SYNCED" => state[s] = "SYNCED"
    BY <1>7 DEF Drop
  <2> QED BY <1>3, <2>1, <2>2, GoesOnKept, FitsKept
<1>8. CASE Take
  <2>1. pump'.phase # "answered"
    BY <1>8 DEF Take
  <2> QED BY <1>4, <1>8, <2>1 DEF Take, exchange, socket, ghost
<1>9. CASE Proceed
  <2>1. pump \in [phase : Waits, sym : Symbols, epoch : Nat]
    BY <1>9 DEF Proceed, Types, PumpType, Waits
  <2>2. pump'.phase # "answered"
    BY <1>9, <2>1 DEF Proceed, Idle
  <2> QED BY <1>4, <1>9, <2>2 DEF Proceed, exchange, socket, ghost
<1>10. CASE RateLimited \/ FetchErrs
  <2>1. /\ pump.phase = "fetching"
        /\ \E p \in {"backoff", "sleeping"} : pump' = [pump EXCEPT !.phase = p]
        /\ UNCHANGED <<ranged, feed, next, book, late, excused>>
        /\ UNCHANGED state \/ state' = [state EXCEPT ![pump.sym] = "DESYNCED"]
    BY <1>10 DEF RateLimited, FetchErrs, Failing, exchange, socket
  <2>2. pump \in [phase : Waits, sym : Symbols, epoch : Nat]
    BY <2>1 DEF Types, PumpType, Waits
  <2>3. pump'.phase # "answered"
    BY <2>1, <2>2
  <2>4. state'[s] = "SYNCED" => state[s] = "SYNCED"
    BY <1>1, <2>1
  <2> QED BY <1>4, <2>1, <2>3, <2>4
<1>11. CASE Requeue \/ AskAgain
  <2>1. /\ pump' = Idle /\ UNCHANGED <<ranged, feed, next, book, late, excused>>
        /\ UNCHANGED state \/ state' = [state EXCEPT ![pump.sym] = "RECOVERING"]
    BY <1>11 DEF Requeue, AskAgain, exchange, socket
  <2>2. pump'.phase # "answered"
    BY <2>1 DEF Idle
  <2>3. state'[s] = "SYNCED" => state[s] = "SYNCED"
    BY <1>1, <2>1
  <2> QED BY <1>4, <2>1, <2>2, <2>3
<1>12. CASE TakeShot
  <2>1. /\ book'[s].u = book[s].u /\ book'[s].ok = book[s].ok
        /\ book'[s].holds = book[s].holds /\ book'[s].ring = book[s].ring
    BY <1>12, TakeShotBooks
  <2>2. UNCHANGED <<ranged, feed, next, state, pump, late, excused>>
    BY <1>12 DEF TakeShot, exchange, socket, ghost
  <2> QED BY <1>3, <2>1, <2>2, GoesOnKept, FitsKept
<1>13. CASE Retry \/ TimeUp \/ UNCHANGED allVars
  BY <1>4, <1>13 DEF Retry, TimeUp, allVars, vars, exchange, socket, ghost
<1> QED BY <1>3, <1>5, <1>6, <1>7, <1>8, <1>9, <1>10, <1>11, <1>12, <1>13,
           FramePlaces, ServedPlaces, CompletedPlaces
        DEF ShotNext, Next, Shard, Pump

(* A usable book has missed no update, unless its deltas carry no U and    *)
(* its latest snapshot is a REST answer that was overtaken (HoleOnlyByRace *)
(* of L2Resync): with U a gap shows in every state, without it a delta is  *)
(* taken where the book, or the ring, ends.                                *)
THEOREM HolesOnlyByRaces == ShotSpec => []HoleOnlyByRace
<1> DEFINE I == Types /\ Places
<1>1. ShotInit => I
  <2> SUFFICES ASSUME ShotInit, NEW s \in Symbols PROVE GoesOn(s) /\ Fits(s)
    BY TypesInit DEF Places
  <2>1. book = [q \in Symbols |-> Blank] /\ pump.phase = "idle"
    BY DEF ShotInit, Init, Idle
  <2> QED BY <2>1, BlankIsSound DEF GoesOn, Fits
<1>2. I /\ [ShotNext]_allVars => I'
  BY TypesNext, PlacesNext
<1>3. I => HoleOnlyByRace
  BY DEF Places, RangedIsWhole, GoesOn, Whole, HoleOnlyByRace, Usable
<1> QED BY <1>1, <1>2, <1>3, PTL DEF ShotSpec
-----------------------------------------------------------------------------
(* The snapshot that is held.                                              *)

(* A book takes nothing beyond its u, and what it lacks lies before n: the *)
(* next frame closes no hole behind its back.                              *)
Ends(b, n) == b.ok => (\A m \in b.holds : m <= b.u) /\ (Whole(b) \/ b.u < n)

BooksEnd == \A s \in Symbols : Ends(book[s], next[s])

(* One book goes on: all it had up to u it has still, and no more of that. *)
Extends(r, b) == r.ok /\ b.u <= r.u /\ \A m \in 0 .. b.u : m \in r.holds <=> m \in b.holds

(* A book whose read_epoch has not grown since the snapshot goes on from   *)
(* where it was.                                                           *)
HeldIsKept ==
  shot.phase = "held" =>
    \A s \in Symbols : ~book[s].moved =>
      book[s].ok /\ shot.u[s] <= book[s].u /\ shot.msq[s] = Then(book[s], shot.u[s])

(* The updates of an applied frame: the book ends with the frame.          *)
LEMMA UpdatesEnd ==
  ASSUME NEW b \in Books, NEW f \in Deltas, b.ok, f.hi > b.u, NEW n \in Nat, Ends(b, n)
  PROVE  LET r == WithUpdates(b, f)
         IN /\ r.u = f.hi /\ r.ok /\ r.moved = b.moved /\ r.holds = b.holds \cup (f.from .. f.hi)
            /\ \A m \in Nat : f.hi < m => Ends(r, m)
<1> DEFINE r == WithUpdates(b, f)
<1>1. f.from \in Nat /\ f.hi \in Nat /\ b.u \in Nat /\ b.holds \subseteq Nat
  BY FrameFields, BookFields
<1>2. /\ r.u = f.hi /\ r.ok = b.ok /\ r.moved = b.moved
      /\ r.holds = b.holds \cup (f.from .. f.hi)
  BY DEF WithUpdates, Books
<1>3. \A m \in b.holds : m <= b.u
  BY DEF Ends
<1> HIDE DEF r
<1>4. \A m \in r.holds : m <= r.u
  BY <1>1, <1>2, <1>3
<1>5. \A m \in Nat : f.hi < m => Ends(r, m)
  BY <1>1, <1>2, <1>4 DEF Ends
<1> QED BY <1>2, <1>5 DEF r

(* A delta of a book: what comes next is n, the first of the frame.        *)
LEMMA DeltaEnds ==
  ASSUME NEW b \in Books, SoundBook(b), NEW f \in Deltas, WasSent(f), Ends(b, f.from)
  PROVE  LET r == Delta(b, f)
         IN Ends(r, f.hi + 1) /\ (~r.moved => ~b.moved /\ (b.ok => Extends(r, b)))
<1> DEFINE r == Delta(b, f)
<1>1. f.from \in Nat \ {0} /\ f.hi \in Nat /\ f.from <= f.hi /\ b.u \in Nat /\ b.holds \subseteq Nat
  BY FrameFields, BookFields DEF WasSent
<1>2. (Ends(b, f.hi + 1) /\ Extends(b, b)) \/ ~b.ok
  BY <1>1 DEF Ends, Extends
<1>3. Ends(b, f.hi + 1)
  BY <1>2 DEF Ends
<1>4. CASE Verdict(b, f) = "no_snapshot_anchor"
  <2>1. r = [b EXCEPT !.ring = Written(@, f)]
    BY <1>4 DEF Delta
  <2>2. r.ok = b.ok /\ r.moved = b.moved
    BY <2>1 DEF Books
  <2>3. ~b.ok
    BY <1>4 DEF Verdict, SoundBook
  <2> HIDE DEF r
  <2> QED BY <2>2, <2>3 DEF Ends, r
<1>5. CASE Verdict(b, f) \in {"invalid_u_range", "sequence_gap"}
  <2>1. r = Blank
    BY <1>5 DEF Delta
  <2> HIDE DEF r
  <2> QED BY <2>1 DEF Blank, Ends, r
<1>6. CASE Verdict(b, f) = "stale_or_duplicate_u"
  <2>1. r = b
    BY <1>6 DEF Delta
  <2> HIDE DEF r
  <2> QED BY <1>2, <1>3, <2>1 DEF r
<1>7. CASE Verdict(b, f) = "applied"
  <2>1. r = WithUpdates(b, f)
    BY <1>7 DEF Delta
  <2>2. b.u # 0 /\ ~(f.hi <= b.u)
    BY <1>7 DEF Verdict
  <2>3. b.ok /\ f.hi > b.u
    BY <1>1, <2>2 DEF SoundBook
  <2>4. f.hi + 1 \in Nat /\ f.hi < f.hi + 1
    BY <1>1
  <2> HIDE DEF r
  <2>5. /\ r.u = f.hi /\ r.ok /\ r.moved = b.moved /\ r.holds = b.holds \cup (f.from .. f.hi)
        /\ Ends(r, f.hi + 1)
    BY <1>1, <2>1, <2>3, <2>4, UpdatesEnd
  <2>6. ASSUME NEW m \in 0 .. b.u, m \in f.from .. f.hi
        PROVE  m \in b.holds
    <3>1. Whole(b)
      BY <1>1, <2>3, <2>6 DEF Ends
    <3> QED BY <1>1, <2>6, <3>1 DEF Whole
  <2>7. Extends(r, b)
    BY <1>1, <2>3, <2>5, <2>6 DEF Extends
  <2> QED BY <2>5, <2>7 DEF r
<1> QED BY <1>4, <1>5, <1>6, <1>7 DEF Verdict

(* A snapshot, whose ring has frames from before n.                        *)
LEMMA SnapshotEnds ==
  ASSUME NEW b \in Books, NEW u \in Nat \ {0}, NEW n \in Nat,
         \A i \in DOMAIN b.ring : b.ring[i].hi < n
  PROVE  Ends(Snapshot(b, u), n)
<1> DEFINE ring == b.ring
           t == Spliced(ring, u)
           L == Len(t)
<1>1. ring \in Seq(Deltas) /\ u \in Nat /\ DOMAIN ring = 1 .. Len(ring)
  BY BookFields
<1>2. PICK k \in Nat :
        /\ t \in Seq(Deltas)
        /\ k <= Len(ring) /\ Len(t) = Len(ring) - k
        /\ \A i \in 1 .. Len(t) : i + k \in 1 .. Len(ring) /\ t[i] = ring[i + k]
        /\ \A i \in 1 .. k : ring[i].hi < u
  <2> HIDE DEF ring
  <2> QED BY <1>1, SplicedIsSuffix
<1>3. L \in Nat /\ \A i \in 1 .. L : t[i] \in Deltas /\ t[i].hi < n
  <2>1. L \in Nat /\ \A i \in 1 .. L : t[i] \in Deltas
    BY <1>2
  <2>2. \A i \in 1 .. L : t[i].hi < n
    BY <1>1, <1>2
  <2> QED BY <2>1, <2>2
<1> HIDE DEF ring, t, L
<1>4. PICK f : IsReplay(f, Anchored(u), t, L) /\ AllReplayed(Anchored(u), t) = f[L]
  BY <1>3, ReplayRounds DEF L
<1>5. f[0] = Anchored(u) /\ \A i \in 1 .. L : f[i] = Replayed(f[i - 1], t[i])
  <2>1. \A i \in 0 .. L : f[i] = IF i = 0 THEN Anchored(u) ELSE Replayed(f[i - 1], t[i])
    BY <1>4 DEF IsReplay
  <2> QED BY <1>3, <2>1
<1>6. Snapshot(b, u) = f[L]
  BY <1>4 DEF Snapshot, t, ring
<1> DEFINE Good(i) == /\ f[i] \in Books /\ SoundBook(f[i]) /\ f[i].ring = <<>> /\ f[i].moved = TRUE
                      /\ Ends(f[i], n)
           S == {i \in 0 .. L : Good(i)}
<1>7. 0 \in S
  <2>1. /\ f[0] \in Books /\ SoundBook(f[0]) /\ f[0].ring = <<>> /\ f[0].moved = TRUE
        /\ Whole(f[0]) /\ f[0].u = u
    BY <1>5, AnchoredBook
  <2>2. Ends(f[0], n)
    BY <1>1, <2>1 DEF Ends, Whole
  <2> QED BY <1>3, <2>1, <2>2
<1>8. \A i \in 1 .. L : i - 1 \in S => i \in S
  <2> SUFFICES ASSUME NEW i \in 1 .. L, i - 1 \in S PROVE i \in S
    OBVIOUS
  <2> DEFINE c == f[i - 1]
             e == t[i]
  <2>1. Good(i - 1)
    OBVIOUS
  <2>2. f[i] = Replayed(c, e) /\ e \in Deltas /\ e.hi < n
    BY <1>3, <1>5
  <2>3. /\ f[i] \in Books /\ SoundBook(f[i]) /\ f[i].ring = <<>> /\ f[i].moved = TRUE
        /\ c \in Books /\ Ends(c, n)
    BY <2>1, <2>2, ReplayedBook
  <2>4. c.u \in Nat /\ e.hi \in Nat
    BY <2>2, <2>3, BookFields, FrameFields
  <2> HIDE DEF c, e
  <2>5. Ends(f[i], n)
    <3>1. CASE f[i] = c
      BY <2>3, <3>1
    <3>2. CASE f[i] = Blank
      BY <3>2 DEF Blank, Ends
    <3>3. CASE f[i] = WithUpdates(c, e) /\ c.ok /\ e.hi > c.u
      <4>1. \A j \in Nat : e.hi < j => Ends(WithUpdates(c, e), j)
        BY <2>2, <2>3, <3>3, UpdatesEnd
      <4> QED BY <2>2, <3>3, <4>1
    <3> QED BY <2>2, <2>4, <3>1, <3>2, <3>3 DEF Replayed
  <2> QED BY <2>3, <2>5
<1>9. \A i \in 0 .. L : i \in S
  <2> HIDE DEF S
  <2> QED BY <1>3, <1>7, <1>8, Rounds
<1> QED BY <1>3, <1>6, <1>9

(* What a frame or an answer does to a book.                               *)
LEMMA BookMovesOrGoesOn ==
  ASSUME Types, BooksEnd, NEW s \in Symbols, NEW q \in Symbols, Frames(q) \/ Complete
  PROVE  /\ Ends(book'[s], next'[s])
         /\ ~book'[s].moved => ~book[s].moved /\ (book[s].ok => Extends(book'[s], book[s]))
<1>1. book \in [Symbols -> Books] /\ next \in [Symbols -> Nat \ {0}]
  BY DEF Types, TypeOK
<1>2. book[s] \in Books /\ SoundBook(book[s]) /\ Ends(book[s], next[s]) /\ book[s].u \in Nat
  BY <1>1, BookFields DEF Types, BooksAreSound, BooksEnd
<1>3. ASSUME book'[s] = book[s], next'[s] \in Nat, next[s] <= next'[s]
      PROVE  /\ Ends(book'[s], next'[s])
             /\ ~book'[s].moved => ~book[s].moved /\ (book[s].ok => Extends(book'[s], book[s]))
  BY <1>1, <1>2, <1>3 DEF Ends, Extends
<1>4. ASSUME NEW u \in Nat \ {0}, book'[s] = Snapshot(book[s], u), next'[s] = next[s]
      PROVE  Ends(book'[s], next'[s]) /\ book'[s].moved = TRUE
  <2>1. \A i \in DOMAIN book[s].ring : book[s].ring[i].hi < next[s]
    BY DEF Types, BooksAreSound
  <2>2. Ends(Snapshot(book[s], u), next[s])
    BY <1>1, <1>2, <2>1, SnapshotEnds
  <2>3. Snapshot(book[s], u).moved = TRUE
    BY <1>2, SnapshotBook
  <2> QED BY <1>4, <2>2, <2>3
<1>5. CASE Complete
  <2>1. /\ pump.u \in Nat \ {0} /\ pump.sym \in Symbols
        /\ book' = book \/ book' = [book EXCEPT ![pump.sym] = Snapshot(@, pump.u)]
        /\ next' = next
    BY <1>5 DEF Types, PumpType, Complete, Ingested, socket
  <2>2. book'[s] = book[s] \/ book'[s] = Snapshot(book[s], pump.u)
    BY <1>1, <2>1
  <2>3. next'[s] = next[s] /\ next'[s] \in Nat /\ next[s] <= next'[s]
    BY <1>1, <2>1
  <2>4. CASE book'[s] = book[s]
    BY <1>3, <2>3, <2>4
  <2>5. CASE book'[s] = Snapshot(book[s], pump.u)
    BY <1>4, <2>1, <2>3, <2>5
  <2> QED BY <2>2, <2>4, <2>5
<1>6. CASE SnapshotFrame(q)
  <2>1. /\ feed[q] # "none" /\ next' = next
        /\ book' = book \/ book' = [book EXCEPT ![q] = Snapshot(@, next[q] - 1)]
    BY <1>6 DEF SnapshotFrame, HandleSnapshot, Desynced
  <2>2. next[q] - 1 \in Nat \ {0}
    BY <1>1, <2>1 DEF Types, FeedFollows
  <2>3. book'[s] = book[s] \/ (book'[s] = Snapshot(book[s], next[q] - 1))
    BY <1>1, <2>1
  <2>4. next'[s] = next[s] /\ next'[s] \in Nat /\ next[s] <= next'[s]
    BY <1>1, <2>1
  <2> QED BY <1>3, <1>4, <2>2, <2>3, <2>4
<1>7. CASE \E hi \in 1 .. MaxUpdates[q], malformed \in BOOLEAN : DeltaFrame(q, hi, malformed)
  <2>1. PICK hi \in 1 .. MaxUpdates[q], malformed \in BOOLEAN : DeltaFrame(q, hi, malformed)
    BY <1>7
  <2>2. PICK f \in Deltas :
          /\ f.from = next[q] /\ f.hi = hi
          /\ IF q \in ranged THEN WithU(f) ELSE WithoutU(f)
          /\ hi \in Nat /\ next[q] <= hi
          /\ next' = [next EXCEPT ![q] = hi + 1]
          /\ HandleDelta(q, f)
    BY <2>1, DeltaFrameActs
  <2>3. WasSent(f)
    BY <2>2 DEF WithU, WithoutU
  <2>4. book' = book \/ book' = [book EXCEPT ![q] = Delta(@, f)]
    BY <2>2 DEF HandleDelta, Desynced
  <2>5. next'[s] \in Nat /\ next[s] <= next'[s] /\ (q = s => next'[s] = f.hi + 1)
    BY <1>1, <2>2
  <2>6. CASE book'[s] = book[s]
    BY <1>3, <2>5, <2>6
  <2>7. CASE q = s /\ book'[s] = Delta(book[s], f)
    <3> DEFINE r == Delta(book[s], f)
    <3>1. Ends(book[s], f.from)
      BY <1>2, <2>2, <2>7
    <3>2. Ends(r, f.hi + 1) /\ (~r.moved => ~book[s].moved /\ (book[s].ok => Extends(r, book[s])))
      BY <1>2, <2>3, <3>1, DeltaEnds
    <3> HIDE DEF r
    <3>3. book'[s] = r
      BY <2>7 DEF r
    <3> QED BY <2>5, <2>7, <3>2, <3>3
  <2> QED BY <1>1, <2>4, <2>6, <2>7
<1> QED BY <1>5, <1>6, <1>7 DEF Frames

(* A book that goes on has still what it had then.                         *)
LEMMA ThenIsKept ==
  ASSUME NEW b \in Books, NEW r \in Books, Extends(r, b), NEW u \in Nat, u <= b.u
  PROVE  u <= r.u /\ Then(r, u) = Then(b, u)
<1>1. b.u \in Nat /\ r.u \in Nat /\ b.holds \subseteq Nat /\ r.holds \subseteq Nat
  BY BookFields
<1>2. \A m \in 0 .. u : m \in 0 .. b.u
  BY <1>1
<1>3. r.holds \cap 0 .. u = b.holds \cap 0 .. u
  BY <1>2 DEF Extends
<1>4. u <= r.u
  BY <1>1 DEF Extends
<1> QED BY <1>3, <1>4 DEF Then

(* Both through every step of the program.                                 *)
LEMMA HeldNext ==
  ASSUME Types, BooksEnd, HeldIsKept, [ShotNext]_allVars
  PROVE  BooksEnd' /\ HeldIsKept'
<1>1. book \in [Symbols -> Books] /\ next \in [Symbols -> Nat \ {0}] /\ book' \in [Symbols -> Books]
  BY TypesNext DEF Types, TypeOK
<1>2. ASSUME book' = book, \A s \in Symbols : next'[s] \in Nat /\ next[s] <= next'[s]
      PROVE  BooksEnd'
  <2> SUFFICES ASSUME NEW s \in Symbols PROVE Ends(book'[s], next'[s])
    BY DEF BooksEnd, Ends, Whole
  <2>1. Ends(book[s], next[s]) /\ book[s].u \in Nat /\ next[s] \in Nat
    BY <1>1, BookFields DEF BooksEnd
  <2> QED BY <1>2, <2>1 DEF Ends
<1>3. ASSUME shot' = shot, NEW q \in Symbols, Frames(q) \/ Complete
      PROVE  BooksEnd' /\ HeldIsKept'
  <2>1. BooksEnd'
    BY <1>3, BookMovesOrGoesOn DEF BooksEnd, Ends, Whole
  <2>2. ASSUME shot.phase = "held", NEW s \in Symbols, ~book'[s].moved
        PROVE  /\ book'[s].ok /\ shot.u[s] <= book'[s].u
               /\ shot.msq[s] = Then(book'[s], shot.u[s])
    <3>1. ~book[s].moved /\ (book[s].ok => Extends(book'[s], book[s]))
      BY <1>3, <2>2, BookMovesOrGoesOn
    <3>2. book[s].ok /\ shot.u[s] <= book[s].u /\ shot.msq[s] = Then(book[s], shot.u[s])
      BY <2>2, <3>1 DEF HeldIsKept
    <3>3. book[s] \in Books /\ book'[s] \in Books /\ shot.u[s] \in Nat
      BY <1>1, <2>2 DEF Types, ShotType
    <3> QED BY <3>1, <3>2, <3>3, ThenIsKept DEF Extends
  <2>3. HeldIsKept'
    BY <1>3, <2>2 DEF HeldIsKept, Then
  <2> QED BY <2>1, <2>3
<1>4. ASSUME shot' = shot, Complete PROVE BooksEnd' /\ HeldIsKept'
  <2>1. pump.sym \in Symbols
    BY <1>4 DEF Complete, Types, PumpType
  <2> QED BY <1>3, <1>4, <2>1
<1>5. CASE TakeShot
  <2>1. /\ shot' = [phase |-> "held", msq |-> [s \in Symbols |-> Msq(book[s])],
                    u |-> [s \in Symbols |-> book[s].u]]
        /\ AllReady /\ next' = next
    BY <1>5 DEF TakeShot, socket
  <2>2. \A s \in Symbols : /\ book[s].ok /\ book'[s].ok = book[s].ok /\ book'[s].u = book[s].u
                           /\ book'[s].holds = book[s].holds
    BY <1>5, <2>1, TakeShotBooks DEF AllReady, Usable
  <2>3. BooksEnd'
    BY <2>1, <2>2 DEF BooksEnd, Ends, Whole
  <2>4. ASSUME NEW s \in Symbols
        PROVE  /\ book'[s].ok /\ shot'.u[s] <= book'[s].u
               /\ shot'.msq[s] = Then(book'[s], shot'.u[s])
    <3>1. shot'.u[s] = book[s].u /\ shot'.msq[s] = Standing(book[s].holds)
      BY <2>1, <2>2 DEF Msq
    <3>2. book[s].u \in Nat /\ book[s].holds \subseteq Nat /\ \A m \in book[s].holds : m <= book[s].u
      BY <1>1, <2>2, BookFields DEF BooksEnd, Ends
    <3>3. \A m \in book[s].holds : m \in 0 .. book[s].u
      BY <3>2
    <3>4. book[s].holds \cap 0 .. book[s].u = book[s].holds
      BY <3>3, Zenon
    <3>5. book[s].u <= book[s].u
      BY <3>2
    <3> QED BY <2>2, <3>1, <3>4, <3>5 DEF Then
  <2> QED BY <2>3, <2>4 DEF HeldIsKept, Then
<1>6. CASE Retry
  <2>1. shot \in [phase : {"trying", "failed"}, tries : Nat]
    BY <1>6 DEF Retry, Types, ShotType
  <2>2. PICK n \in Nat : n = shot.tries + 1
    BY <2>1
  <2>3. PICK p \in {"trying", "failed"} : shot' = [shot EXCEPT !.tries = n, !.phase = p]
    BY <1>6, <2>2 DEF Retry
  <2>4. shot'.phase # "held" /\ UNCHANGED <<book, next>>
    BY <1>6, <2>1, <2>3 DEF Retry, vars, socket
  <2> QED BY <1>1, <1>2, <2>4 DEF HeldIsKept
<1>7. CASE TimeUp
  <2>1. shot \in [phase : {"trying", "failed"}, tries : Nat]
    BY <1>7 DEF TimeUp, Types, ShotType
  <2>2. shot' = [shot EXCEPT !.phase = "failed", !.tries = MaxRetries] /\ UNCHANGED <<book, next>>
    BY <1>7 DEF TimeUp, vars, socket
  <2>3. shot'.phase # "held"
    BY <2>1, <2>2
  <2> QED BY <1>1, <1>2, <2>2, <2>3 DEF HeldIsKept
<1>8. ASSUME \/ \E s \in Symbols : Update(s)
             \/ \E c \in Shards : Shard(c)
             \/ Take \/ Proceed \/ Serve \/ RateLimited \/ Requeue \/ FetchErrs \/ AskAgain
      PROVE  book' = book /\ \A s \in Symbols : next'[s] \in Nat /\ next[s] <= next'[s]
  <2>1. book' = book
    BY <1>8 DEF Update, Shard, Connect, Drop, Take, Proceed, Serve, RateLimited, Requeue, FetchErrs,
       AskAgain, Failing
  <2>2. CASE \E c \in Shards : Connect(c)
    <3>1. next' \in [Symbols -> Nat] /\ \A s \in Symbols : next'[s] \in {next[s], made[s] + 1}
      BY <1>1, <2>2 DEF Connect, Types, TypeOK
    <3> QED BY <1>1, <2>1, <3>1 DEF Types, FeedFollows
  <2>3. CASE ~ \E c \in Shards : Connect(c)
    <3>1. next' = next
      BY <1>8, <2>3 DEF Update, Shard, Drop, Take, Proceed, Serve, RateLimited, Requeue, FetchErrs,
         AskAgain, Failing, socket
    <3> QED BY <1>1, <2>1, <3>1
  <2> QED BY <2>2, <2>3
<1>9. ASSUME shot' = shot, book' = book PROVE HeldIsKept'
  BY <1>9 DEF HeldIsKept, Then
<1>10. CASE UNCHANGED allVars
  BY <1>1, <1>2, <1>9, <1>10 DEF allVars, vars, socket
<1> QED BY <1>2, <1>3, <1>4, <1>5, <1>6, <1>7, <1>8, <1>9, <1>10 DEF ShotNext, Next, Pump

(* A snapshot that passes for consistent costs what the book says now, or  *)
(* what the same book said at the snapshot, with nothing but deltas since  *)
(* (is_consistent_msq; read_epoch grows whenever a book is reset or        *)
(* anchored, and no delta closes a hole behind the book's end).            *)
THEOREM PassedWasSo == ShotSpec => []PassesOnlyWhatWas
<1> DEFINE I == Types /\ BooksEnd /\ HeldIsKept
<1>1. ShotInit => I
  <2> SUFFICES ASSUME ShotInit PROVE I
    OBVIOUS
  <2>1. \A s \in Symbols : ~book[s].ok
    BY DEF ShotInit, Init, Blank
  <2> QED BY <2>1, TypesInit DEF ShotInit, HeldIsKept, BooksEnd, Ends
<1>2. I /\ [ShotNext]_allVars => I'
  BY TypesNext, HeldNext
<1>3. I => PassesOnlyWhatWas
  <2> SUFFICES ASSUME I, Passes, NEW s \in Symbols
               PROVE  /\ \/ shot.msq[s] = Msq(book[s])
                         \/ /\ book[s].ok /\ shot.u[s] <= book[s].u
                            /\ shot.msq[s] = Then(book[s], shot.u[s])
                      /\ Usable(s) \/ state[s] # "SYNCED"
    BY DEF PassesOnlyWhatWas
  <2>1. SoundBook(book[s])
    BY DEF Types, BooksAreSound
  <2>2. CASE book[s].moved
    BY <2>2 DEF Passes
  <2>3. CASE ~book[s].moved
    BY <2>1, <2>3 DEF Passes, HeldIsKept, Usable, SoundBook
  <2> QED BY <2>2, <2>3
<1> QED BY <1>1, <1>2, <1>3, PTL DEF ShotSpec
=============================================================================
