--------------------------- MODULE TrainingSetProofs ---------------------------
(***************************************************************************)
(* Theorems about TrainingSet, for any trades, thresholds, number of slots *)
(* of the ring, of the labeler and of the file, and any number of runs.    *)
(*                                                                         *)
(* The functions that run through the bars of a trade and the labels of a  *)
(* bar are first turned into single steps (BarsRun, LabelsRun), what each  *)
(* operation of the labeler, the store and the engine does is stated as a  *)
(* lemma, and three invariants are built on these: TrainInv for the store, *)
(* BarsInv for the bars against the trades, LabelsInv for the labels.      *)
(***************************************************************************)
EXTENDS TrainingSet, FiniteSums, SequenceTheorems

(* The same for the greatest, of numbers up to n. *)
LEMMA GreatestNumber ==
  ASSUME NEW n \in Nat, NEW G \in SUBSET (0 .. n), G # {}
  PROVE  \E x \in G : \A y \in G : y <= x
<1> DEFINE D == {n - x : x \in G}
<1>1. D \in SUBSET Nat /\ D # {}
  <2>1. \A x \in G : n - x \in Nat
    OBVIOUS
  <2>2. PICK x \in G : TRUE
    OBVIOUS
  <2>3. n - x \in D
    OBVIOUS
  <2> QED
    BY <2>1, <2>3
<1>2. PICK d \in D : \A e \in D : d <= e
  BY <1>1, LeastNumber
<1>3. PICK x \in G : d = n - x
  OBVIOUS
<1>4. \A y \in G : n - y \in D /\ y \in Nat
  OBVIOUS
<1> HIDE DEF D
<1> QED
  BY <1>2, <1>3, <1>4

(* Quotient and rest. *)
LEMMA Division ==
  ASSUME NEW t \in Nat, NEW s \in Nat \ {0}
  PROVE  /\ t \div s \in Nat /\ t % s \in 0 .. s - 1
         /\ t = s * (t \div s) + (t % s)
<1>1. t = s * (t \div s) + (t % s) /\ t % s \in 0 .. s - 1 /\ t \div s \in Int
  OBVIOUS
<1> DEFINE d == t \div s
           r == t % s
<1> HIDE DEF d, r
<1>2. t = s * d + r /\ r \in 0 .. s - 1 /\ d \in Int
  BY <1>1 DEF d, r
<1>3. d \in Nat
  <2> SUFFICES ASSUME d < 0 PROVE FALSE
    BY <1>2
  <2>1. 0 - d - 1 \in Nat
    BY <1>2
  <2>2. s * (0 - d - 1) \in Nat
    BY <2>1
  <2>3. s * (0 - d - 1) = 0 - s * d - s /\ s * d \in Int
    BY <1>2
  <2> QED
    BY <1>2, <2>2, <2>3
<1> QED
  BY <1>2, <1>3 DEF d, r

(* Numbers with the same rest are apart. *)
LEMMA SameRest ==
  ASSUME NEW s \in Nat \ {0}, NEW a \in Nat, NEW b \in Nat, a % s = b % s, a < b
  PROVE  a + s <= b
<1> DEFINE c == a \div s
           d == b \div s
           r == a % s
<1>1. c \in Nat /\ d \in Nat /\ a = s * c + r /\ b = s * d + r /\ r \in Nat
  <2>1. c \in Nat /\ a % s \in 0 .. s - 1 /\ a = s * c + (a % s)
    BY Division
  <2>2. d \in Nat /\ b = s * d + (b % s)
    BY Division
  <2> HIDE DEF c, d
  <2> QED
    BY <2>1, <2>2
<1> HIDE DEF c, d, r
<1>2. s * c \in Nat /\ s * d \in Nat /\ s * c < s * d
  BY <1>1
<1>3. c < d
  <2> SUFFICES ASSUME d <= c PROVE FALSE
    BY <1>1
  <2>1. s * d <= s * c
    BY <1>1, ProductGrows
  <2> QED
    BY <1>2, <2>1
<1>4. s * (c + 1) <= s * d /\ s * (c + 1) = s * c + s
  <2>1. c + 1 \in Nat /\ c + 1 <= d
    BY <1>1, <1>3
  <2>2. s * (c + 1) <= s * d
    BY <1>1, <2>1, ProductGrows
  <2>3. s * (c + 1) = s * c + s
    BY <1>1
  <2> QED
    BY <2>2, <2>3
<1> QED
  BY <1>1, <1>2, <1>4

-----------------------------------------------------------------------------
(* The k-th of a set.                                                      *)

Nth(S, k) == CHOOSE i \in S : Cardinality({j \in S : j < i}) = k - 1

LEMMA NthIs ==
  ASSUME NEW S \in SUBSET Nat, IsFiniteSet(S)
  PROVE  /\ Cardinality(S) \in Nat
         /\ \A k \in 1 .. Cardinality(S) : Nth(S, k) \in S
         /\ \A k, l \in 1 .. Cardinality(S) : Nth(S, k) = Nth(S, l) => k = l
         /\ \A x \in S : \E k \in 1 .. Cardinality(S) : Nth(S, k) = x
<1> DEFINE n == Cardinality(S)
           Below(x) == {j \in S : j < x}
           f == [x \in S |-> Cardinality(Below(x))]
<1>1. n \in Nat
  BY FS_CardinalityType
<1>2. ASSUME NEW x \in S
      PROVE  IsFiniteSet(Below(x)) /\ Cardinality(Below(x)) \in 0 .. n - 1
  <2>1. IsFiniteSet(Below(x))
    BY FS_Subset
  <2>2. IsFiniteSet(S \ {x}) /\ Cardinality(S \ {x}) = n - 1
    BY FS_RemoveElement
  <2>3. Below(x) \in SUBSET (S \ {x})
    OBVIOUS
  <2>4. Cardinality(Below(x)) <= Cardinality(S \ {x})
    BY <2>2, <2>3, FS_Subset
  <2>5. Cardinality(Below(x)) \in Nat
    BY <2>1, FS_CardinalityType
  <2> HIDE DEF Below
  <2> QED
    BY <1>1, <2>1, <2>2, <2>4, <2>5
<1>3. ASSUME NEW x \in S, NEW y \in S, x < y
      PROVE  Cardinality(Below(x)) < Cardinality(Below(y))
  <2>1. Below(x) \cup {x} \in SUBSET Below(y) /\ x \notin Below(x)
    <3>1. \A j \in S : j \in Nat
      OBVIOUS
    <3>2. \A j \in S : j < x => j < y
      BY <1>3, <3>1
    <3>3. ~(x < x)
      BY <3>1
    <3> QED
      BY <1>3, <3>2, <3>3
  <2>2. IsFiniteSet(Below(x)) /\ IsFiniteSet(Below(y))
    BY <1>2
  <2>3. Cardinality(Below(x) \cup {x}) = Cardinality(Below(x)) + 1
    BY <2>1, <2>2, FS_AddElement
  <2>4. Cardinality(Below(x) \cup {x}) <= Cardinality(Below(y))
    BY <2>1, <2>2, FS_Subset
  <2>5. Cardinality(Below(x)) \in Nat /\ Cardinality(Below(y)) \in Nat
    BY <2>2, FS_CardinalityType
  <2> HIDE DEF Below
  <2> QED
    BY <2>3, <2>4, <2>5
<1> HIDE DEF Below
<1>4. \A x, y \in S : Cardinality(Below(x)) = Cardinality(Below(y)) => x = y
  <2> SUFFICES ASSUME NEW x \in S, NEW y \in S, Cardinality(Below(x)) = Cardinality(Below(y)), x # y
               PROVE  FALSE
    OBVIOUS
  <2>1. x < y \/ y < x
    OBVIOUS
  <2>2. Cardinality(Below(x)) \in Nat /\ Cardinality(Below(y)) \in Nat
    BY <1>2
  <2> QED
    BY <1>3, <2>1, <2>2
<1>5. f \in Injection(S, 0 .. n - 1)
  <2>1. f \in [S -> 0 .. n - 1]
    BY <1>2
  <2>2. \A x, y \in S : f[x] = f[y] => x = y
    BY <1>4
  <2> HIDE DEF f
  <2> QED
    BY <2>1, <2>2, Zenon DEF Injection, IsInjective
<1>6. IsFiniteSet(0 .. n - 1) /\ Cardinality(0 .. n - 1) = n
  <2>1. 0 \in Int /\ n - 1 \in Int /\ (IF 0 > n - 1 THEN 0 ELSE (n - 1) - 0 + 1) = n
    BY <1>1
  <2>2. IsFiniteSet(0 .. n - 1) /\ Cardinality(0 .. n - 1) = IF 0 > n - 1 THEN 0 ELSE (n - 1) - 0 + 1
    BY <2>1, FS_Interval, Zenon
  <2> QED
    BY <2>1, <2>2
<1>7. f \in Surjection(S, 0 .. n - 1)
  <2> HIDE DEF f
  <2> QED
    BY <1>5, <1>6, FS_Injection
<1>8. \A c \in 0 .. n - 1 : \E x \in S : f[x] = c
  BY <1>7 DEF Surjection
<1>9. ASSUME NEW k \in 1 .. n
      PROVE  Nth(S, k) \in S /\ Cardinality(Below(Nth(S, k))) = k - 1
  <2>1. k - 1 \in 0 .. n - 1
    BY <1>1
  <2>2. \E x \in S : Cardinality(Below(x)) = k - 1
    BY <1>8, <2>1
  <2> QED
    BY <2>2, Zenon DEF Nth, Below
<1>10. \A k, l \in 1 .. n : Nth(S, k) = Nth(S, l) => k = l
  <2> SUFFICES ASSUME NEW k \in 1 .. n, NEW l \in 1 .. n, Nth(S, k) = Nth(S, l) PROVE k = l
    OBVIOUS
  <2>1. k - 1 = l - 1
    BY <1>9
  <2> QED
    BY <1>1, <2>1
<1>11. ASSUME NEW x \in S
       PROVE  \E k \in 1 .. n : Nth(S, k) = x
  <2> DEFINE k == Cardinality(Below(x)) + 1
  <2>1. k \in 1 .. n /\ k - 1 = Cardinality(Below(x))
    BY <1>1, <1>2
  <2> HIDE DEF k
  <2>2. Nth(S, k) = x
    BY <1>4, <1>9, <2>1
  <2> QED
    BY <2>1, <2>2
<1> QED
  BY <1>1, <1>9, <1>10, <1>11

-----------------------------------------------------------------------------
(* The bars of a trade, and the labels of a bar, one by one.               *)

(* The states of the labeler from bar to bar. *)
BarsRun(g, l, e, first, n) ==
  g = [k \in 0 .. n |-> IF k = 0 THEN [l |-> l, labels |-> <<>>]
                       ELSE AfterBar(g[k - 1], e, first + k - 1)]

LEMMA BarsRunExists ==
  ASSUME NEW l, NEW e, NEW first, NEW n \in Nat
  PROVE  \E g : BarsRun(g, l, e, first, n)
<1> DEFINE Bad == {m \in Nat : ~ \E g : BarsRun(g, l, e, first, m)}
<1> SUFFICES ASSUME Bad # {} PROVE FALSE
  OBVIOUS
<1>1. PICK m \in Bad : \A k \in Bad : m <= k
  <2>1. Bad \in SUBSET Nat
    OBVIOUS
  <2> QED
    BY <2>1, LeastNumber
<1>2. m \in Nat /\ ~ \E g : BarsRun(g, l, e, first, m)
  OBVIOUS
<1>3. CASE m = 0
  <2> DEFINE g == [k \in 0 .. 0 |-> [l |-> l, labels |-> <<>>]]
  <2>1. \A k \in 0 .. 0 : k = 0
    OBVIOUS
  <2>2. g = [k \in 0 .. 0 |-> IF k = 0 THEN [l |-> l, labels |-> <<>>]
                       ELSE AfterBar(g[k - 1], e, first + k - 1)]
    BY <2>1
  <2> HIDE DEF g
  <2>3. BarsRun(g, l, e, first, 0)
    BY <2>2 DEF BarsRun
  <2> QED
    BY <1>2, <1>3, <2>3
<1>4. CASE m # 0
  <2>1. m - 1 \in Nat /\ m - 1 \notin Bad
    BY <1>1, <1>2, <1>4
  <2>2. PICK g : BarsRun(g, l, e, first, m - 1)
    BY <2>1
  <2> DEFINE h == [k \in 0 .. m |-> IF k = m THEN AfterBar(g[m - 1], e, first + m - 1) ELSE g[k]]
  <2>3. ASSUME NEW k \in 0 .. m
        PROVE  h[k] = IF k = 0 THEN [l |-> l, labels |-> <<>>]
                      ELSE AfterBar(h[k - 1], e, first + k - 1)
    <3>1. CASE k = m
      <4>1. m - 1 \in 0 .. m /\ m - 1 # m
        BY <1>2, <2>1
      <4>2. h[m - 1] = g[m - 1]
        BY <4>1
      <4> QED
        BY <1>4, <3>1, <4>2
    <3>2. CASE k # m
      <4>1. k \in 0 .. m - 1 /\ h[k] = g[k]
        BY <1>2, <3>2
      <4>2. k # 0 => k - 1 \in 0 .. m /\ k - 1 # m
        BY <1>2, <3>2
      <4>3. k # 0 => h[k - 1] = g[k - 1]
        BY <4>2
      <4> HIDE DEF h
      <4>4. g[k] = IF k = 0 THEN [l |-> l, labels |-> <<>>]
                   ELSE AfterBar(g[k - 1], e, first + k - 1)
        BY <2>2, <4>1 DEF BarsRun
      <4> QED
        BY <4>1, <4>3, <4>4
    <3> QED
      BY <3>1, <3>2
  <2>4. h = [k \in 0 .. m |-> h[k]]
    OBVIOUS
  <2> HIDE DEF h
  <2>5. BarsRun(h, l, e, first, m)
    BY <2>3, <2>4 DEF BarsRun
  <2> QED
    BY <1>2, <2>5
<1> QED
  BY <1>3, <1>4

LEMMA BarsRunAgree ==
  ASSUME NEW l, NEW e, NEW first, NEW n \in Nat, NEW m \in 0 .. n,
         NEW g, BarsRun(g, l, e, first, n), NEW h, BarsRun(h, l, e, first, m)
  PROVE  \A k \in 0 .. m : g[k] = h[k]
<1> DEFINE Bad == {k \in 0 .. m : g[k] # h[k]}
<1> SUFFICES ASSUME Bad # {} PROVE FALSE
  OBVIOUS
<1>1. PICK k \in Bad : \A j \in Bad : k <= j
  <2>1. Bad \in SUBSET Nat
    OBVIOUS
  <2> QED
    BY <2>1, LeastNumber
<1>2. k \in 0 .. m /\ k \in 0 .. n /\ g[k] # h[k]
  OBVIOUS
<1>3. g[k] = (IF k = 0 THEN [l |-> l, labels |-> <<>>]
              ELSE AfterBar(g[k - 1], e, first + k - 1))
  BY <1>2 DEF BarsRun
<1>4. h[k] = (IF k = 0 THEN [l |-> l, labels |-> <<>>]
              ELSE AfterBar(h[k - 1], e, first + k - 1))
  BY <1>2 DEF BarsRun
<1>5. k # 0
  BY <1>2, <1>3, <1>4
<1>6. k - 1 \in 0 .. m /\ k - 1 \notin Bad
  BY <1>1, <1>2, <1>5
<1>7. g[k - 1] = h[k - 1]
  BY <1>6
<1> QED
  BY <1>2, <1>3, <1>4, <1>7

LEMMA AfterBarsSteps ==
  ASSUME NEW l, NEW e, NEW first
  PROVE  /\ AfterBars(l, e, first, 0) = [l |-> l, labels |-> <<>>]
         /\ \A n \in Nat : AfterBars(l, e, first, n + 1) = AfterBar(AfterBars(l, e, first, n), e, first + (n + 1) - 1)
<1> DEFINE R(n) == CHOOSE g : BarsRun(g, l, e, first, n)
<1>1. ASSUME NEW n \in Nat
      PROVE  BarsRun(R(n), l, e, first, n) /\ AfterBars(l, e, first, n) = R(n)[n]
  <2>1. BarsRun(R(n), l, e, first, n)
    BY BarsRunExists, Zenon
  <2>2. AfterBars(l, e, first, n) = R(n)[n]
    BY DEF AfterBars, BarsRun
  <2> QED
    BY <2>1, <2>2
<1>2. AfterBars(l, e, first, 0) = [l |-> l, labels |-> <<>>]
  <2>1. 0 \in Nat /\ 0 \in 0 .. 0
    OBVIOUS
  <2>2. BarsRun(R(0), l, e, first, 0) /\ AfterBars(l, e, first, 0) = R(0)[0]
    BY <1>1, <2>1
  <2> HIDE DEF R
  <2> QED
    BY <2>1, <2>2 DEF BarsRun
<1>3. ASSUME NEW n \in Nat
      PROVE  AfterBars(l, e, first, n + 1) = AfterBar(AfterBars(l, e, first, n), e, first + (n + 1) - 1)
  <2>1. n + 1 \in Nat /\ n \in 0 .. n + 1 /\ n \in 0 .. n /\ n + 1 \in 0 .. n + 1
        /\ n + 1 # 0 /\ (n + 1) - 1 = n
    OBVIOUS
  <2>2. BarsRun(R(n + 1), l, e, first, n + 1) /\ AfterBars(l, e, first, n + 1) = R(n + 1)[n + 1]
    BY <1>1, <2>1
  <2>3. BarsRun(R(n), l, e, first, n) /\ AfterBars(l, e, first, n) = R(n)[n]
    BY <1>1
  <2> HIDE DEF R
  <2>4. R(n + 1)[n] = R(n)[n]
    BY <2>1, <2>2, <2>3, BarsRunAgree
  <2>5. R(n + 1)[n + 1] = AfterBar(R(n + 1)[(n + 1) - 1], e, first + (n + 1) - 1)
    BY <2>1, <2>2 DEF BarsRun
  <2> QED
    BY <2>1, <2>2, <2>3, <2>4, <2>5
<1> QED
  BY <1>2, <1>3

LabelledTo(st, labels, n) ==
  LET after[k \in 0..n] ==
        IF k = 0 THEN st
        ELSE Labelled(after[k - 1], Intent(labels[k].intent.id), labels[k].label)
  IN after[n]

LEMMA AllLabelledIs ==
  ASSUME NEW st, NEW labels
  PROVE  AllLabelled(st, labels) = LabelledTo(st, labels, Len(labels))
BY DEF AllLabelled, LabelledTo

(* The states of the store from label to label. *)
LabelsRun(g, st, labels, n) ==
  g = [k \in 0 .. n |-> IF k = 0 THEN st
                       ELSE Labelled(g[k - 1], Intent(labels[k].intent.id), labels[k].label)]

LEMMA LabelsRunExists ==
  ASSUME NEW st, NEW labels, NEW n \in Nat
  PROVE  \E g : LabelsRun(g, st, labels, n)
<1> DEFINE Bad == {m \in Nat : ~ \E g : LabelsRun(g, st, labels, m)}
<1> SUFFICES ASSUME Bad # {} PROVE FALSE
  OBVIOUS
<1>1. PICK m \in Bad : \A k \in Bad : m <= k
  <2>1. Bad \in SUBSET Nat
    OBVIOUS
  <2> QED
    BY <2>1, LeastNumber
<1>2. m \in Nat /\ ~ \E g : LabelsRun(g, st, labels, m)
  OBVIOUS
<1>3. CASE m = 0
  <2> DEFINE g == [k \in 0 .. 0 |-> st]
  <2>1. \A k \in 0 .. 0 : k = 0
    OBVIOUS
  <2>2. g = [k \in 0 .. 0 |-> IF k = 0 THEN st
                       ELSE Labelled(g[k - 1], Intent(labels[k].intent.id), labels[k].label)]
    BY <2>1
  <2> HIDE DEF g
  <2>3. LabelsRun(g, st, labels, 0)
    BY <2>2 DEF LabelsRun
  <2> QED
    BY <1>2, <1>3, <2>3
<1>4. CASE m # 0
  <2>1. m - 1 \in Nat /\ m - 1 \notin Bad
    BY <1>1, <1>2, <1>4
  <2>2. PICK g : LabelsRun(g, st, labels, m - 1)
    BY <2>1
  <2> DEFINE h == [k \in 0 .. m |-> IF k = m THEN Labelled(g[m - 1], Intent(labels[m].intent.id), labels[m].label) ELSE g[k]]
  <2>3. ASSUME NEW k \in 0 .. m
        PROVE  h[k] = IF k = 0 THEN st
                      ELSE Labelled(h[k - 1], Intent(labels[k].intent.id), labels[k].label)
    <3>1. CASE k = m
      <4>1. m - 1 \in 0 .. m /\ m - 1 # m
        BY <1>2, <2>1
      <4>2. h[m - 1] = g[m - 1]
        BY <4>1
      <4> QED
        BY <1>4, <3>1, <4>2
    <3>2. CASE k # m
      <4>1. k \in 0 .. m - 1 /\ h[k] = g[k]
        BY <1>2, <3>2
      <4>2. k # 0 => k - 1 \in 0 .. m /\ k - 1 # m
        BY <1>2, <3>2
      <4>3. k # 0 => h[k - 1] = g[k - 1]
        BY <4>2
      <4> HIDE DEF h
      <4>4. g[k] = IF k = 0 THEN st
                   ELSE Labelled(g[k - 1], Intent(labels[k].intent.id), labels[k].label)
        BY <2>2, <4>1 DEF LabelsRun
      <4> QED
        BY <4>1, <4>3, <4>4
    <3> QED
      BY <3>1, <3>2
  <2>4. h = [k \in 0 .. m |-> h[k]]
    OBVIOUS
  <2> HIDE DEF h
  <2>5. LabelsRun(h, st, labels, m)
    BY <2>3, <2>4 DEF LabelsRun
  <2> QED
    BY <1>2, <2>5
<1> QED
  BY <1>3, <1>4

LEMMA LabelsRunAgree ==
  ASSUME NEW st, NEW labels, NEW n \in Nat, NEW m \in 0 .. n,
         NEW g, LabelsRun(g, st, labels, n), NEW h, LabelsRun(h, st, labels, m)
  PROVE  \A k \in 0 .. m : g[k] = h[k]
<1> DEFINE Bad == {k \in 0 .. m : g[k] # h[k]}
<1> SUFFICES ASSUME Bad # {} PROVE FALSE
  OBVIOUS
<1>1. PICK k \in Bad : \A j \in Bad : k <= j
  <2>1. Bad \in SUBSET Nat
    OBVIOUS
  <2> QED
    BY <2>1, LeastNumber
<1>2. k \in 0 .. m /\ k \in 0 .. n /\ g[k] # h[k]
  OBVIOUS
<1>3. g[k] = (IF k = 0 THEN st
              ELSE Labelled(g[k - 1], Intent(labels[k].intent.id), labels[k].label))
  BY <1>2 DEF LabelsRun
<1>4. h[k] = (IF k = 0 THEN st
              ELSE Labelled(h[k - 1], Intent(labels[k].intent.id), labels[k].label))
  BY <1>2 DEF LabelsRun
<1>5. k # 0
  BY <1>2, <1>3, <1>4
<1>6. k - 1 \in 0 .. m /\ k - 1 \notin Bad
  BY <1>1, <1>2, <1>5
<1>7. g[k - 1] = h[k - 1]
  BY <1>6
<1> QED
  BY <1>2, <1>3, <1>4, <1>7

LEMMA LabelledToSteps ==
  ASSUME NEW st, NEW labels
  PROVE  /\ LabelledTo(st, labels, 0) = st
         /\ \A n \in Nat : LabelledTo(st, labels, n + 1) = Labelled(LabelledTo(st, labels, n), Intent(labels[(n + 1)].intent.id), labels[(n + 1)].label)
<1> DEFINE R(n) == CHOOSE g : LabelsRun(g, st, labels, n)
<1>1. ASSUME NEW n \in Nat
      PROVE  LabelsRun(R(n), st, labels, n) /\ LabelledTo(st, labels, n) = R(n)[n]
  <2>1. LabelsRun(R(n), st, labels, n)
    BY LabelsRunExists, Zenon
  <2>2. LabelledTo(st, labels, n) = R(n)[n]
    BY DEF LabelledTo, LabelsRun
  <2> QED
    BY <2>1, <2>2
<1>2. LabelledTo(st, labels, 0) = st
  <2>1. 0 \in Nat /\ 0 \in 0 .. 0
    OBVIOUS
  <2>2. LabelsRun(R(0), st, labels, 0) /\ LabelledTo(st, labels, 0) = R(0)[0]
    BY <1>1, <2>1
  <2> HIDE DEF R
  <2> QED
    BY <2>1, <2>2 DEF LabelsRun
<1>3. ASSUME NEW n \in Nat
      PROVE  LabelledTo(st, labels, n + 1) = Labelled(LabelledTo(st, labels, n), Intent(labels[(n + 1)].intent.id), labels[(n + 1)].label)
  <2>1. n + 1 \in Nat /\ n \in 0 .. n + 1 /\ n \in 0 .. n /\ n + 1 \in 0 .. n + 1
        /\ n + 1 # 0 /\ (n + 1) - 1 = n
    OBVIOUS
  <2>2. LabelsRun(R(n + 1), st, labels, n + 1) /\ LabelledTo(st, labels, n + 1) = R(n + 1)[n + 1]
    BY <1>1, <2>1
  <2>3. LabelsRun(R(n), st, labels, n) /\ LabelledTo(st, labels, n) = R(n)[n]
    BY <1>1
  <2> HIDE DEF R
  <2>4. R(n + 1)[n] = R(n)[n]
    BY <2>1, <2>2, <2>3, LabelsRunAgree
  <2>5. R(n + 1)[n + 1] = Labelled(R(n + 1)[(n + 1) - 1], Intent(labels[(n + 1)].intent.id), labels[(n + 1)].label)
    BY <2>1, <2>2 DEF LabelsRun
  <2> QED
    BY <2>1, <2>2, <2>3, <2>4, <2>5
<1> QED
  BY <1>2, <1>3

-----------------------------------------------------------------------------
(* The labeler over the bars of a trade.                                   *)

OpenIntents == [id : Nat, side : {-1, 1}, entry : {Entry}, entryBar : Nat]
SlotStates == [1 .. MaxOpen -> OpenIntents \cup {Free}]
Labelers == [slots : SlotStates, next : Nat]
Labels == [intent : OpenIntents, bar : Int, label : {-1, 0, 1}]

LEMMA FreeIsNoIntent == Free \notin OpenIntents
<1> SUFFICES ASSUME Free \in OpenIntents PROVE FALSE
  OBVIOUS
<1>1. Free.id \in Nat /\ Free.id = -1
  BY DEF OpenIntents, Free
<1> QED
  BY <1>1

LEMMA OpenSlotsAre ==
  ASSUME NEW l \in Labelers
  PROVE  /\ OpenSlots(l) \in SUBSET (1 .. MaxOpen) /\ OpenSlots(l) \in SUBSET Nat
         /\ IsFiniteSet(OpenSlots(l))
         /\ \A i \in 1 .. MaxOpen : /\ i \in OpenSlots(l) <=> l.slots[i] \in OpenIntents
                                    /\ i \notin OpenSlots(l) <=> l.slots[i] = Free
<1>1. l.slots \in SlotStates
  BY DEF Labelers
<1>2. \A i \in 1 .. MaxOpen : l.slots[i] \in OpenIntents \cup {Free}
  BY <1>1 DEF SlotStates
<1>3. MaxOpen \in Nat /\ 1 \in Int /\ MaxOpen \in Int
  BY LabelerAssumption
<1>4. IsFiniteSet(1 .. MaxOpen)
  BY <1>3, FS_Interval
<1>5. OpenSlots(l) \in SUBSET (1 .. MaxOpen)
  BY DEF OpenSlots
<1>6. IsFiniteSet(OpenSlots(l))
  BY <1>4, <1>5, FS_Subset
<1>7. OpenSlots(l) \in SUBSET Nat
  BY <1>3, <1>5
<1> QED
  BY <1>2, <1>5, <1>6, <1>7, FreeIsNoIntent DEF OpenSlots

LEMMA NthSlotIs == \A S, k : NthSlot(S, k) = Nth(S, k)
BY DEF NthSlot, Nth

(* What a scan does to each slot, and where each label comes from. *)
(* What a scan does: it leaves a slot alone, or frees it and labels its    *)
(* intent, and labels nothing else.                                        *)
ScanRight(l, row, bar, sc) ==
  /\ sc.slots \in SlotStates /\ sc.labels \in Seq(Labels)
  /\ \A i \in 1 .. MaxOpen :
       \/ /\ sc.slots[i] = l.slots[i]
          /\ i \in OpenSlots(l) => ~Resolves(l.slots[i], row, bar)
       \/ /\ sc.slots[i] = Free
          /\ \E k \in 1 .. Len(sc.labels) : sc.labels[k].intent = l.slots[i]
  /\ \A k \in 1 .. Len(sc.labels) : \E i \in OpenSlots(l) :
       /\ sc.labels[k].intent = l.slots[i] /\ Resolves(l.slots[i], row, bar)
       /\ sc.labels[k].bar = bar /\ sc.labels[k].label = Label(l.slots[i], row)

LEMMA ScannedIs ==
  ASSUME NEW l \in Labelers, NEW row, NEW bar \in Int
  PROVE  ScanRight(l, row, bar, Scanned(l, row, bar))
<1> DEFINE sc == Scanned(l, row, bar)
           hit == {i \in OpenSlots(l) : Resolves(l.slots[i], row, bar)}
           n == Cardinality(hit)
           R(k) == LET s == l.slots[NthSlot(hit, k)] IN [intent |-> s, bar |-> bar, label |-> Label(s, row)]
<1>1. /\ OpenSlots(l) \in SUBSET (1 .. MaxOpen) /\ OpenSlots(l) \in SUBSET Nat
      /\ IsFiniteSet(OpenSlots(l))
      /\ \A i \in 1 .. MaxOpen : /\ i \in OpenSlots(l) <=> l.slots[i] \in OpenIntents
                                 /\ i \notin OpenSlots(l) <=> l.slots[i] = Free
  BY OpenSlotsAre
<1>2. hit \in SUBSET Nat /\ IsFiniteSet(hit) /\ \A i \in hit : i \in OpenSlots(l) /\ Resolves(l.slots[i], row, bar)
  BY <1>1, FS_Subset
<1>3. /\ sc.slots = [i \in 1 .. MaxOpen |-> IF i \in hit THEN Free ELSE l.slots[i]]
      /\ sc.labels = [k \in 1 .. n |-> R(k)]
  BY DEF Scanned
<1>4. l.slots \in SlotStates
  BY DEF Labelers
<1>5. \A i \in OpenSlots(l) : i \in hit <=> Resolves(l.slots[i], row, bar)
  OBVIOUS
<1> HIDE DEF hit, sc
<1>6. /\ n \in Nat /\ \A k \in 1 .. n : Nth(hit, k) \in hit
      /\ \A x \in hit : \E k \in 1 .. n : Nth(hit, k) = x
  BY <1>2, NthIs
<1>7. sc.slots \in SlotStates
  BY <1>3, <1>4 DEF SlotStates
<1>8. ASSUME NEW k \in 1 .. n
      PROVE  \E i \in hit : /\ R(k).intent = l.slots[i] /\ R(k).bar = bar
                            /\ R(k).label = Label(l.slots[i], row) /\ R(k) \in Labels
                            /\ i = Nth(hit, k)
  <2>1. Nth(hit, k) \in hit /\ NthSlot(hit, k) = Nth(hit, k)
    BY <1>6, NthSlotIs
  <2>2. l.slots[Nth(hit, k)] \in OpenIntents
    BY <1>1, <1>2, <2>1
  <2>3. Label(l.slots[Nth(hit, k)], row) \in {-1, 0, 1}
    BY DEF Label
  <2> QED
    BY <2>1, <2>2, <2>3 DEF Labels
<1> HIDE DEF R
<1>9. /\ sc.labels \in Seq(Labels) /\ Len(sc.labels) = n
      /\ \A k \in 1 .. n : sc.labels[k] = R(k)
  <2>1. \A k \in 1 .. n : R(k) \in Labels
    BY <1>8
  <2> HIDE DEF n
  <2> QED
    BY <1>3, <1>6, <2>1
<1>10. ASSUME NEW i \in 1 .. MaxOpen
       PROVE  \/ /\ sc.slots[i] = l.slots[i]
                 /\ i \in OpenSlots(l) => ~Resolves(l.slots[i], row, bar)
              \/ /\ sc.slots[i] = Free
                 /\ \E k \in 1 .. Len(sc.labels) : sc.labels[k].intent = l.slots[i]
  <2>1. CASE i \in hit
    <3>1. PICK k \in 1 .. n : Nth(hit, k) = i
      BY <1>6, <2>1
    <3>2. sc.labels[k].intent = l.slots[i]
      BY <1>8, <1>9, <3>1
    <3> QED
      BY <1>3, <1>9, <2>1, <3>2
  <2>2. CASE i \notin hit
    BY <1>3, <1>5, <2>2
  <2> QED
    BY <2>1, <2>2
<1>11. ASSUME NEW k \in 1 .. Len(sc.labels)
       PROVE  \E i \in OpenSlots(l) :
                 /\ sc.labels[k].intent = l.slots[i] /\ Resolves(l.slots[i], row, bar)
                 /\ sc.labels[k].bar = bar /\ sc.labels[k].label = Label(l.slots[i], row)
  BY <1>2, <1>8, <1>9
<1> QED
  BY <1>7, <1>9, <1>10, <1>11, Zenon DEF ScanRight, sc

(* The intent in slot i when none of the bars from first on, of those the  *)
(* ring still has, resolves it.                                            *)
Survives(s, e, first, bar) ==
  \A b \in first .. bar - 1 : b \in Available(e) => ~Resolves(s, BarRow(e, b), b)

(* A label is that of an open intent, by the first bar that resolves it.   *)
Earned(l, e, first, n, x) ==
  \E i \in OpenSlots(l) :
    /\ x.intent = l.slots[i]
    /\ x.bar \in first .. first + n - 1 /\ x.bar \in Available(e)
    /\ Resolves(l.slots[i], BarRow(e, x.bar), x.bar)
    /\ x.label = Label(l.slots[i], BarRow(e, x.bar))
    /\ Survives(l.slots[i], e, first, x.bar)

(* What the bars of a trade do: a slot is left alone, or freed, and then   *)
(* its intent has a label; a label is earned.                              *)
Handled(l, e, first, n, acc) ==
  /\ acc.l = [slots |-> acc.l.slots, next |-> l.next]
  /\ acc.l.slots \in SlotStates /\ acc.labels \in Seq(Labels)
  /\ \A i \in 1 .. MaxOpen :
       \/ /\ acc.l.slots[i] = l.slots[i]
          /\ i \in OpenSlots(l) => Survives(l.slots[i], e, first, first + n)
       \/ /\ acc.l.slots[i] = Free
          /\ \E k \in 1 .. Len(acc.labels) : acc.labels[k].intent = l.slots[i]
  /\ \A k \in 1 .. Len(acc.labels) : Earned(l, e, first, n, acc.labels[k])

LEMMA HandledNone ==
  ASSUME NEW l \in Labelers, NEW e, NEW first \in Int
  PROVE  Handled(l, e, first, 0, [l |-> l, labels |-> <<>>])
<1> DEFINE acc == [l |-> l, labels |-> <<>>]
<1>1. acc.l = l /\ acc.labels = <<>> /\ Len(acc.labels) = 0
  OBVIOUS
<1>2. l = [slots |-> l.slots, next |-> l.next] /\ l.slots \in SlotStates
  BY DEF Labelers
<1>3. \A s : Survives(s, e, first, first + 0)
  <2>1. first .. first + 0 - 1 = {}
    OBVIOUS
  <2> QED
    BY <2>1 DEF Survives
<1>4. <<>> \in Seq(Labels)
  OBVIOUS
<1> HIDE DEF acc
<1>5. \A k \in 1 .. Len(acc.labels) : FALSE
  BY <1>1
<1> QED
  BY <1>1, <1>2, <1>3, <1>4, <1>5 DEF Handled

LEMMA HandledOneMore ==
  ASSUME NEW l \in Labelers, NEW e, NEW first \in Int, NEW n \in Nat, NEW acc,
         Handled(l, e, first, n, acc), e.count \in Nat
  PROVE  Handled(l, e, first, n + 1, AfterBar(acc, e, first + (n + 1) - 1))
<1> DEFINE bar == first + (n + 1) - 1
           row == BarRow(e, bar)
           sc == Scanned(acc.l, row, bar)
           new == AfterBar(acc, e, bar)
<1>1. bar \in Int /\ bar = first + n /\ first + (n + 1) = bar + 1
      /\ bar \in first .. first + (n + 1) - 1 /\ first + n - 1 = bar - 1
      /\ first .. first + n - 1 = first .. bar - 1
  OBVIOUS
<1>2. acc.l \in Labelers /\ acc.l.next = l.next
  BY DEF Handled, Labelers
<1>3. \A s : Survives(s, e, first, first + n) <=> Survives(s, e, first, bar)
  BY <1>1, Zenon
<1>4. ASSUME NEW s, Survives(s, e, first, bar), bar \in Available(e) => ~Resolves(s, row, bar)
      PROVE  Survives(s, e, first, first + (n + 1))
  <2>1. \A b \in first .. first + (n + 1) - 1 : b = bar \/ b \in first .. bar - 1
    OBVIOUS
  <2> HIDE DEF bar
  <2>2. ASSUME NEW b \in first .. first + (n + 1) - 1, b \in Available(e)
        PROVE  ~Resolves(s, BarRow(e, b), b)
    <3>1. CASE b = bar
      BY <1>4, <2>2, <3>1
    <3>2. CASE b \in first .. bar - 1
      BY <1>4, <2>2, <3>2 DEF Survives
    <3> QED
      BY <2>1, <3>1, <3>2
  <2> QED
    BY <2>2 DEF Survives
<1>5. ASSUME NEW x, Earned(l, e, first, n, x)
      PROVE  Earned(l, e, first, n + 1, x)
  <2>1. \A b \in first .. first + n - 1 : b \in first .. first + (n + 1) - 1
    OBVIOUS
  <2> QED
    BY <1>5, <2>1, Zenon DEF Earned
<1> HIDE DEF bar
<1>6. CASE bar \notin Available(e)
  <2>1. new = acc
    BY <1>6, Zenon DEF AfterBar
  <2> HIDE DEF new
  <2>2. \A s : Survives(s, e, first, bar) => Survives(s, e, first, first + (n + 1))
    BY <1>4, <1>6
  <2>3. Handled(l, e, first, n + 1, acc)
    BY <1>3, <1>5, <2>2, Zenon DEF Handled
  <2> QED
    BY <2>1, <2>3 DEF new, bar
<1>7. CASE bar \in Available(e)
  <2>1. /\ sc.slots \in SlotStates /\ sc.labels \in Seq(Labels)
        /\ \A i \in 1 .. MaxOpen :
             \/ /\ sc.slots[i] = acc.l.slots[i]
                /\ i \in OpenSlots(acc.l) => ~Resolves(acc.l.slots[i], row, bar)
             \/ /\ sc.slots[i] = Free
                /\ \E k \in 1 .. Len(sc.labels) : sc.labels[k].intent = acc.l.slots[i]
        /\ \A k \in 1 .. Len(sc.labels) : \E i \in OpenSlots(acc.l) :
             /\ sc.labels[k].intent = acc.l.slots[i] /\ Resolves(acc.l.slots[i], row, bar)
             /\ sc.labels[k].bar = bar /\ sc.labels[k].label = Label(acc.l.slots[i], row)
    <3>1. ScanRight(acc.l, row, bar, sc)
      BY <1>1, <1>2, ScannedIs, Zenon
    <3> QED
      BY <3>1, Zenon DEF ScanRight
  <2> HIDE DEF sc, row
  <2>2. new = [l |-> [acc.l EXCEPT !.slots = sc.slots], labels |-> acc.labels \o sc.labels]
    BY <1>7, Zenon DEF AfterBar, sc, row
  <2>3. [acc.l EXCEPT !.slots = sc.slots] = [slots |-> sc.slots, next |-> l.next]
    BY <1>2 DEF Labelers
  <2>4. /\ new.l = [slots |-> sc.slots, next |-> l.next] /\ new.l.slots = sc.slots
        /\ new.labels = acc.labels \o sc.labels
    <3>1. new.l = [acc.l EXCEPT !.slots = sc.slots] /\ new.labels = acc.labels \o sc.labels
      <4>1. \A a, b : [l |-> a, labels |-> b].l = a /\ [l |-> a, labels |-> b].labels = b
        OBVIOUS
      <4> QED
        BY <2>2, <4>1, Zenon
    <3>2. new.l = [slots |-> sc.slots, next |-> l.next]
      BY <2>3, <3>1, Zenon
    <3> QED
      BY <3>1, <3>2
  <2> HIDE DEF new
  <2>5. acc.labels \in Seq(Labels) /\ sc.labels \in Seq(Labels)
    BY <2>1 DEF Handled
  <2>6. /\ new.labels \in Seq(Labels) /\ Len(new.labels) = Len(acc.labels) + Len(sc.labels)
        /\ Len(acc.labels) \in Nat /\ Len(sc.labels) \in Nat
        /\ \A k \in 1 .. Len(acc.labels) : k \in 1 .. Len(new.labels) /\ new.labels[k] = acc.labels[k]
        /\ \A k \in 1 .. Len(sc.labels) : /\ Len(acc.labels) + k \in 1 .. Len(new.labels)
                                          /\ new.labels[Len(acc.labels) + k] = sc.labels[k]
        /\ \A k \in 1 .. Len(new.labels) :
             k \in 1 .. Len(acc.labels) \/ (k - Len(acc.labels) \in 1 .. Len(sc.labels)
                                            /\ new.labels[k] = sc.labels[k - Len(acc.labels)])
    <3> DEFINE a == acc.labels
               b == sc.labels
    <3>1. a \in Seq(Labels) /\ b \in Seq(Labels) /\ new.labels = a \o b
      BY <2>4, <2>5
    <3> HIDE DEF a, b
    <3>2. /\ a \o b \in Seq(Labels) /\ Len(a \o b) = Len(a) + Len(b)
          /\ Len(a) \in Nat /\ Len(b) \in Nat
      BY <3>1
    <3>3. \A k \in 1 .. Len(a) + Len(b) : (a \o b)[k] = IF k <= Len(a) THEN a[k] ELSE b[k - Len(a)]
      BY <3>1
    <3> DEFINE c == a \o b
    <3>4. /\ c \in Seq(Labels) /\ Len(c) = Len(a) + Len(b)
          /\ \A k \in 1 .. Len(a) + Len(b) : c[k] = IF k <= Len(a) THEN a[k] ELSE b[k - Len(a)]
          /\ new.labels = c
      BY <3>1, <3>2, <3>3
    <3> HIDE DEF c
    <3>5. /\ \A k \in 1 .. Len(a) : k \in 1 .. Len(c) /\ c[k] = a[k]
          /\ \A k \in 1 .. Len(b) : Len(a) + k \in 1 .. Len(c) /\ c[Len(a) + k] = b[k]
          /\ \A k \in 1 .. Len(c) :
               k \in 1 .. Len(a) \/ (k - Len(a) \in 1 .. Len(b) /\ c[k] = b[k - Len(a)])
      <4>1. ASSUME NEW k \in 1 .. Len(a) PROVE k \in 1 .. Len(c) /\ c[k] = a[k]
        BY <3>2, <3>4
      <4>2. ASSUME NEW k \in 1 .. Len(b) PROVE Len(a) + k \in 1 .. Len(c) /\ c[Len(a) + k] = b[k]
        <5>1. Len(a) + k \in 1 .. Len(a) + Len(b) /\ ~(Len(a) + k <= Len(a)) /\ Len(a) + k - Len(a) = k
          BY <3>2
        <5> QED
          BY <3>4, <5>1
      <4>3. ASSUME NEW k \in 1 .. Len(c), k \notin 1 .. Len(a)
            PROVE  k - Len(a) \in 1 .. Len(b) /\ c[k] = b[k - Len(a)]
        <5>1. k \in 1 .. Len(a) + Len(b) /\ ~(k <= Len(a)) /\ k - Len(a) \in 1 .. Len(b)
          BY <3>2, <3>4, <4>3
        <5> QED
          BY <3>4, <5>1
      <4> QED
        BY <4>1, <4>2, <4>3
    <3> QED
      BY <3>2, <3>4, <3>5, Zenon DEF a, b
  <2>7. ASSUME NEW i \in OpenSlots(acc.l)
        PROVE  acc.l.slots[i] = l.slots[i] /\ i \in OpenSlots(l) /\ Survives(l.slots[i], e, first, bar)
    <3>1. i \in 1 .. MaxOpen /\ acc.l.slots[i] # Free
      BY DEF OpenSlots
    <3>2. acc.l.slots[i] = l.slots[i] /\ (i \in OpenSlots(l) => Survives(l.slots[i], e, first, first + n))
      BY <3>1, Zenon DEF Handled
    <3>3. i \in OpenSlots(l)
      BY <3>1, <3>2 DEF OpenSlots
    <3> QED
      BY <1>3, <3>2, <3>3
  <2>8. ASSUME NEW i \in 1 .. MaxOpen
        PROVE  \/ /\ sc.slots[i] = l.slots[i]
                  /\ i \in OpenSlots(l) => Survives(l.slots[i], e, first, first + (n + 1))
               \/ /\ sc.slots[i] = Free
                  /\ \E k \in 1 .. Len(new.labels) : new.labels[k].intent = l.slots[i]
    <3>1. CASE i \in OpenSlots(acc.l)
      <4>1. acc.l.slots[i] = l.slots[i] /\ i \in OpenSlots(l) /\ Survives(l.slots[i], e, first, bar)
        BY <2>7, <3>1
      <4>2. CASE sc.slots[i] = acc.l.slots[i] /\ ~Resolves(acc.l.slots[i], row, bar)
        <5>1. ~Resolves(l.slots[i], BarRow(e, bar), bar)
          BY <4>1, <4>2, Zenon DEF row
        <5> QED
          BY <1>4, <4>1, <4>2, <5>1 DEF row
      <4>3. CASE sc.slots[i] = Free /\ \E k \in 1 .. Len(sc.labels) : sc.labels[k].intent = acc.l.slots[i]
        <5>1. PICK k \in 1 .. Len(sc.labels) : sc.labels[k].intent = acc.l.slots[i]
          BY <4>3
        <5>2. new.labels[Len(acc.labels) + k].intent = l.slots[i]
          BY <2>6, <4>1, <5>1
        <5> QED
          BY <2>6, <4>3, <5>2
      <4> QED
        BY <2>1, <3>1, <4>2, <4>3
    <3>2. CASE i \notin OpenSlots(acc.l)
      <4>1. acc.l.slots[i] = Free
        BY <3>2 DEF OpenSlots
      <4>2. sc.slots[i] = Free
        BY <2>1, <4>1
      <4>3. CASE acc.l.slots[i] = l.slots[i]
        <5>1. i \notin OpenSlots(l)
          BY <4>1, <4>3 DEF OpenSlots
        <5> QED
          BY <4>1, <4>2, <4>3, <5>1
      <4>4. CASE \E k \in 1 .. Len(acc.labels) : acc.labels[k].intent = l.slots[i]
        <5>1. \E k \in 1 .. Len(new.labels) : new.labels[k].intent = l.slots[i]
          BY <2>6, <4>4
        <5> QED
          BY <4>2, <5>1
      <4> QED
        BY <4>3, <4>4 DEF Handled
    <3> QED
      BY <3>1, <3>2
  <2>9. ASSUME NEW k \in 1 .. Len(new.labels)
        PROVE  Earned(l, e, first, n + 1, new.labels[k])
    <3>1. CASE k \in 1 .. Len(acc.labels)
      BY <1>5, <2>6, <3>1 DEF Handled
    <3>2. CASE k - Len(acc.labels) \in 1 .. Len(sc.labels) /\ new.labels[k] = sc.labels[k - Len(acc.labels)]
      <4> DEFINE x == new.labels[k]
      <4>1. PICK i \in OpenSlots(acc.l) :
              /\ x.intent = acc.l.slots[i] /\ Resolves(acc.l.slots[i], row, bar)
              /\ x.bar = bar /\ x.label = Label(acc.l.slots[i], row)
        BY <2>1, <3>2, Zenon
      <4> HIDE DEF x
      <4>2. acc.l.slots[i] = l.slots[i] /\ i \in OpenSlots(l) /\ Survives(l.slots[i], e, first, bar)
        BY <2>7
      <4>3. /\ x.intent = l.slots[i] /\ x.bar = bar
            /\ Resolves(l.slots[i], BarRow(e, x.bar), x.bar)
            /\ x.label = Label(l.slots[i], BarRow(e, x.bar))
            /\ Survives(l.slots[i], e, first, x.bar)
        BY <4>1, <4>2, Zenon DEF row
      <4>4. x.bar \in first .. first + (n + 1) - 1 /\ x.bar \in Available(e)
        BY <1>1, <1>7, <4>3
      <4>5. Earned(l, e, first, n + 1, x)
        BY <4>2, <4>3, <4>4, Zenon DEF Earned
      <4> QED
        BY <4>5 DEF x
    <3> QED
      BY <2>6, <3>1, <3>2
  <2>10. Handled(l, e, first, n + 1, new)
    BY <2>1, <2>4, <2>6, <2>8, <2>9, Zenon DEF Handled
  <2> QED
    BY <2>10 DEF new, bar
<1> QED
  BY <1>6, <1>7

LEMMA BarsHandled ==
  ASSUME NEW l \in Labelers, NEW e, NEW first \in Int, e.count \in Nat
  PROVE  \A n \in Nat : Handled(l, e, first, n, AfterBars(l, e, first, n))
<1> DEFINE Bad == {m \in Nat : ~Handled(l, e, first, m, AfterBars(l, e, first, m))}
<1> SUFFICES ASSUME Bad # {} PROVE FALSE
  OBVIOUS
<1>1. PICK m \in Bad : \A k \in Bad : m <= k
  <2>1. Bad \in SUBSET Nat
    OBVIOUS
  <2> QED
    BY <2>1, LeastNumber
<1>2. m \in Nat /\ ~Handled(l, e, first, m, AfterBars(l, e, first, m))
  OBVIOUS
<1>3. CASE m = 0
  <2>1. AfterBars(l, e, first, 0) = [l |-> l, labels |-> <<>>]
    BY AfterBarsSteps, Zenon
  <2> QED
    BY <1>2, <1>3, <2>1, HandledNone
<1>4. CASE m # 0
  <2> DEFINE k == m - 1
  <2>1. k \in Nat /\ k \notin Bad /\ m = k + 1
    BY <1>1, <1>2, <1>4
  <2>2. Handled(l, e, first, k, AfterBars(l, e, first, k))
    BY <2>1
  <2> HIDE DEF k, Bad
  <2>3. AfterBars(l, e, first, k + 1) = AfterBar(AfterBars(l, e, first, k), e, first + (k + 1) - 1)
    <3>1. \A j \in Nat : AfterBars(l, e, first, j + 1) = AfterBar(AfterBars(l, e, first, j), e, first + (j + 1) - 1)
      BY AfterBarsSteps
    <3> QED
      BY <2>1, <3>1, Zenon
  <2>4. Handled(l, e, first, k + 1, AfterBar(AfterBars(l, e, first, k), e, first + (k + 1) - 1))
    BY <2>1, <2>2, HandledOneMore, Zenon
  <2> QED
    BY <1>2, <2>1, <2>3, <2>4
<1> QED
  BY <1>3, <1>4

-----------------------------------------------------------------------------
(* The store.                                                              *)

Intents == Nat \X Nat
Ys == [of : Intents \cup {<<>>}, label : {-1, 0, 1}]
Records == [intent : Intents, whole : BOOLEAN, y : Ys]

IsStore(st) ==
  /\ st = [wal |-> st.wal, index |-> st.index, entries |-> st.entries, pending |-> st.pending]
  /\ st.wal \in Seq(Records)
  /\ st.entries = Len(st.wal)

IdsOf(w) == {IdOf(w[p].intent) : p \in DOMAIN w}

(* The index leads from every id of the file to its last record.           *)
Leads(st) ==
  /\ st.index = [i \in IdsOf(st.wal) |-> st.index[i]]
  /\ \A i \in DOMAIN st.index : st.index[i] \in DOMAIN st.wal /\ IdOf(st.wal[st.index[i]].intent) = i
  /\ \A p \in DOMAIN st.wal : p <= st.index[IdOf(st.wal[p].intent)]

(* Labels wait only for intents of this run.                               *)
Waiting(st, now) ==
  /\ st.pending = [i \in DOMAIN st.pending |-> st.pending[i]]
  /\ \A i \in DOMAIN st.pending : i \in Nat /\ st.pending[i] \in Ys /\ st.pending[i].of = <<now, i>>

LEMMA IntentIsNotEmpty == \A a, b : <<a, b>> # <<>>
<1> SUFFICES ASSUME NEW a, NEW b, <<a, b>> = <<>> PROVE FALSE
  OBVIOUS
<1>1. Len(<<a, b>>) = 2 /\ Len(<<>>) = 0
  OBVIOUS
<1> QED
  BY <1>1

LEMMA WalPlaces ==
  ASSUME NEW w \in Seq(Records)
  PROVE  /\ Len(w) \in Nat /\ DOMAIN w = 1 .. Len(w)
         /\ \A p \in DOMAIN w : w[p] \in Records /\ IdOf(w[p].intent) \in Nat /\ p \in Nat
<1>1. Len(w) \in Nat /\ DOMAIN w = 1 .. Len(w) /\ \A p \in 1 .. Len(w) : w[p] \in Records /\ p \in Nat
  OBVIOUS
<1>2. \A r \in Records : r.intent[2] \in Nat
  BY DEF Records, Intents
<1> QED
  BY <1>1, <1>2 DEF IdOf

LEMMA StitchedIs ==
  ASSUME NEW st, IsStore(st), NEW pos \in DOMAIN st.wal, NEW y \in Ys
  PROVE  LET s2 == Stitched(st, pos, y)
         IN /\ s2 = [wal |-> s2.wal, index |-> st.index, entries |-> st.entries, pending |-> st.pending]
            /\ s2.wal \in Seq(Records) /\ Len(s2.wal) = Len(st.wal)
            /\ \A p \in DOMAIN st.wal :
                 s2.wal[p] = IF p = pos THEN [intent |-> st.wal[p].intent, whole |-> st.wal[p].whole, y |-> y]
                                        ELSE st.wal[p]
<1> DEFINE s2 == Stitched(st, pos, y)
           w == st.wal
           w2 == [w EXCEPT ![pos] = [w[pos] EXCEPT !.y = y]]
           r == [intent |-> w[pos].intent, whole |-> w[pos].whole, y |-> y]
<1>1. /\ st = [wal |-> w, index |-> st.index, entries |-> st.entries, pending |-> st.pending]
      /\ w \in Seq(Records)
  BY DEF IsStore
<1>2. s2 = [st EXCEPT !.wal = w2]
  BY DEF Stitched
<1>3. pos \in 1 .. Len(w) /\ Len(w) \in Nat /\ w[pos] \in Records
  BY <1>1
<1>4. [w[pos] EXCEPT !.y = y] = r /\ r \in Records
  BY <1>3 DEF Records
<1> HIDE DEF s2, r
<1>5. w2 \in Seq(Records) /\ Len(w2) = Len(w) /\ \A p \in 1 .. Len(w) : w2[p] = IF p = pos THEN r ELSE w[p]
  <2> HIDE DEF w
  <2>1. w2 = [w EXCEPT ![pos] = r]
    BY <1>4
  <2>2. [w EXCEPT ![pos] = r] \in Seq(Records) /\ Len([w EXCEPT ![pos] = r]) = Len(w)
        /\ \A p \in 1 .. Len(w) : [w EXCEPT ![pos] = r][p] = IF p = pos THEN r ELSE w[p]
    BY <1>1, <1>3, <1>4
  <2> HIDE DEF w2
  <2> QED
    BY <2>1, <2>2
<1> HIDE DEF w2
<1>6. s2 = [wal |-> w2, index |-> st.index, entries |-> st.entries, pending |-> st.pending]
  <2> DEFINE ix == st.index
             en == st.entries
             pe == st.pending
  <2>1. st = [wal |-> w, index |-> ix, entries |-> en, pending |-> pe]
    BY <1>1
  <2> HIDE DEF w, ix, en, pe
  <2>2. [st EXCEPT !.wal = w2] = [wal |-> w2, index |-> ix, entries |-> en, pending |-> pe]
    BY <2>1
  <2> QED
    BY <1>2, <2>2, Zenon DEF ix, en, pe
<1>7. s2.wal = w2
  BY <1>6
<1>8. DOMAIN w = 1 .. Len(w)
  BY <1>1
<1> HIDE DEF w
<1>9. \A p \in 1 .. Len(w) : s2.wal[p] = IF p = pos THEN r ELSE w[p]
  BY <1>5, <1>7
<1>10. \A p \in DOMAIN w : s2.wal[p] = IF p = pos THEN [intent |-> w[p].intent, whole |-> w[p].whole, y |-> y] ELSE w[p]
  <2>1. \A p \in DOMAIN w : p # pos => s2.wal[p] = w[p]
    BY <1>8, <1>9
  <2>2. s2.wal[pos] = r
    BY <1>3, <1>9
  <2> QED
    BY <2>1, <2>2, Zenon DEF r
<1>11. s2 = [wal |-> s2.wal, index |-> st.index, entries |-> st.entries, pending |-> st.pending]
  BY <1>6, <1>7, Zenon
<1>12. s2.wal \in Seq(Records) /\ Len(s2.wal) = Len(w)
  BY <1>5, <1>7, Zenon
<1> QED
  BY <1>10, <1>11, <1>12, Zenon DEF w, s2

IdOfLabel(x) == x.intent.id

(* What labels do to a store: they change the y of records the index leads *)
(* to, and wait where there is none.                                       *)
Put(st, labels, n, s2) ==
  /\ IsStore(s2) /\ Waiting(s2, life)
  /\ s2.index = st.index /\ Len(s2.wal) = Len(st.wal)
  /\ \A p \in DOMAIN st.wal :
       /\ s2.wal[p].intent = st.wal[p].intent /\ s2.wal[p].whole = st.wal[p].whole
       /\ IsLabelled(st.wal[p]) => IsLabelled(s2.wal[p])
       /\ \/ s2.wal[p].y = st.wal[p].y
          \/ \E k \in 1 .. n : /\ s2.wal[p].y.of = Intent(IdOfLabel(labels[k]))
                               /\ IdOfLabel(labels[k]) \in DOMAIN st.index
                               /\ st.index[IdOfLabel(labels[k])] = p
  /\ DOMAIN st.pending \subseteq DOMAIN s2.pending
  /\ \A k \in 1 .. n :
       /\ IdOfLabel(labels[k]) \in DOMAIN st.index => IsLabelled(s2.wal[st.index[IdOfLabel(labels[k])]])
       /\ IdOfLabel(labels[k]) \notin DOMAIN st.index => IdOfLabel(labels[k]) \in DOMAIN s2.pending

LEMMA PutOneMore ==
  ASSUME NEW st, IsStore(st), Leads(st), life \in Nat,
         NEW labels \in Seq(Labels), NEW n \in Nat, n + 1 \in 1 .. Len(labels),
         NEW s, Put(st, labels, n, s)
  PROVE  Put(st, labels, n + 1, Labelled(s, Intent(labels[n + 1].intent.id), labels[n + 1].label))
<1> DEFINE x == labels[n + 1]
           i == x.intent.id
           y == [of |-> Intent(i), label |-> x.label]
           s2 == Labelled(s, Intent(i), x.label)
<1>1. x \in Labels
  OBVIOUS
<1>2. i \in Nat /\ x.label \in {-1, 0, 1} /\ x.intent.id = i
  BY <1>1 DEF Labels, OpenIntents
<1>3. /\ Intent(i) = <<life, i>> /\ Intent(i) \in Intents /\ IdOf(Intent(i)) = i
      /\ Intent(i) # <<>>
  BY <1>2, IntentIsNotEmpty DEF Intent, Intents, IdOf
<1>4. y \in Ys /\ y.of = Intent(i)
  BY <1>2, <1>3 DEF Ys
<1>5. IdOfLabel(labels[n + 1]) = i
  BY <1>2 DEF IdOfLabel
<1>6. /\ IsStore(s) /\ Waiting(s, life) /\ s.index = st.index /\ Len(s.wal) = Len(st.wal)
      /\ DOMAIN st.pending \subseteq DOMAIN s.pending
  BY DEF Put
<1>7. DOMAIN s.wal = DOMAIN st.wal
  BY <1>6 DEF IsStore
<1>8. \A k \in 1 .. n + 1 : k = n + 1 \/ k \in 1 .. n
  OBVIOUS
<1>9. \A k \in 1 .. n : k \in 1 .. n + 1
  OBVIOUS
<1>10. n + 1 \in 1 .. n + 1
  OBVIOUS
<1> HIDE DEF x
<1>11. CASE i \in DOMAIN st.index
  <2> DEFINE pos == st.index[i]
  <2>1. pos \in DOMAIN s.wal
    BY <1>7, <1>11 DEF Leads
  <2>2. s2 = Stitched(s, pos, y)
    BY <1>3, <1>6, <1>11, Zenon DEF Labelled
  <2> HIDE DEF s2, pos, y
  <2>3. /\ s2 = [wal |-> s2.wal, index |-> s.index, entries |-> s.entries, pending |-> s.pending]
        /\ s2.wal \in Seq(Records) /\ Len(s2.wal) = Len(s.wal)
        /\ \A p \in DOMAIN s.wal :
             s2.wal[p] = IF p = pos THEN [intent |-> s.wal[p].intent, whole |-> s.wal[p].whole, y |-> y]
                                    ELSE s.wal[p]
    <3>1. y \in Ys /\ IsStore(s)
      BY <1>4, <1>6 DEF y
    <3> DEFINE t == Stitched(s, pos, y)
    <3>2. /\ t = [wal |-> t.wal, index |-> s.index, entries |-> s.entries, pending |-> s.pending]
          /\ t.wal \in Seq(Records) /\ Len(t.wal) = Len(s.wal)
          /\ \A p \in DOMAIN s.wal :
               t.wal[p] = IF p = pos THEN [intent |-> s.wal[p].intent, whole |-> s.wal[p].whole, y |-> y]
                                     ELSE s.wal[p]
      BY <2>1, <3>1, StitchedIs
    <3> QED
      BY <2>2, <3>2, Zenon
  <2>4. s2.index = st.index /\ s2.pending = s.pending /\ s2.entries = s.entries
    BY <1>6, <2>3
  <2>5. IsStore(s2)
    BY <1>6, <2>3, <2>4 DEF IsStore
  <2>6. Waiting(s2, life)
    BY <1>6, <2>4 DEF Waiting
  <2>7. \A p \in DOMAIN st.wal :
          /\ s2.wal[p].intent = s.wal[p].intent /\ s2.wal[p].whole = s.wal[p].whole
          /\ s2.wal[p].y = IF p = pos THEN y ELSE s.wal[p].y
    <3> SUFFICES ASSUME NEW p \in DOMAIN st.wal
                 PROVE  /\ s2.wal[p].intent = s.wal[p].intent /\ s2.wal[p].whole = s.wal[p].whole
                        /\ s2.wal[p].y = IF p = pos THEN y ELSE s.wal[p].y
      OBVIOUS
    <3>1. CASE p = pos
      <4>1. s2.wal[p] = [intent |-> s.wal[p].intent, whole |-> s.wal[p].whole, y |-> y]
        BY <1>7, <2>3, <3>1, Zenon
      <4> QED
        BY <3>1, <4>1
    <3>2. CASE p # pos
      <4>1. s2.wal[p] = s.wal[p]
        BY <1>7, <2>3, <3>2, Zenon
      <4> QED
        BY <3>2, <4>1
    <3> QED
      BY <3>1, <3>2
  <2>8. \A p \in DOMAIN st.wal : IsLabelled(s.wal[p]) => IsLabelled(s2.wal[p])
    BY <1>3, <1>4, <2>7, Zenon DEF IsLabelled
  <2>9. IsLabelled(s2.wal[pos])
    BY <1>3, <1>4, <1>7, <2>1, <2>7, Zenon DEF IsLabelled
  <2>10. ASSUME NEW p \in DOMAIN st.wal
         PROVE  /\ s2.wal[p].intent = st.wal[p].intent /\ s2.wal[p].whole = st.wal[p].whole
                /\ IsLabelled(st.wal[p]) => IsLabelled(s2.wal[p])
                /\ \/ s2.wal[p].y = st.wal[p].y
                   \/ \E k \in 1 .. n + 1 : /\ s2.wal[p].y.of = Intent(IdOfLabel(labels[k]))
                                            /\ IdOfLabel(labels[k]) \in DOMAIN st.index
                                            /\ st.index[IdOfLabel(labels[k])] = p
    <3>1. /\ s.wal[p].intent = st.wal[p].intent /\ s.wal[p].whole = st.wal[p].whole
          /\ IsLabelled(st.wal[p]) => IsLabelled(s.wal[p])
          /\ \/ s.wal[p].y = st.wal[p].y
             \/ \E k \in 1 .. n : /\ s.wal[p].y.of = Intent(IdOfLabel(labels[k]))
                                  /\ IdOfLabel(labels[k]) \in DOMAIN st.index
                                  /\ st.index[IdOfLabel(labels[k])] = p
      BY Zenon DEF Put
    <3>2. CASE p = pos
      <4>1. s2.wal[p].y = y
        BY <2>7, <3>2
      <4>2. /\ s2.wal[p].y.of = Intent(IdOfLabel(labels[n + 1]))
            /\ IdOfLabel(labels[n + 1]) \in DOMAIN st.index
            /\ st.index[IdOfLabel(labels[n + 1])] = p
        BY <1>4, <1>5, <1>11, <3>2, <4>1, Zenon DEF pos
      <4> QED
        BY <1>10, <2>7, <2>8, <3>1, <4>2, Zenon
    <3>3. CASE p # pos
      <4>1. s2.wal[p].y = s.wal[p].y
        BY <2>7, <3>3
      <4> QED
        BY <1>9, <2>7, <2>8, <3>1, <4>1, Zenon
    <3> QED
      BY <3>2, <3>3
  <2>11. ASSUME NEW k \in 1 .. n + 1
         PROVE  /\ IdOfLabel(labels[k]) \in DOMAIN st.index => IsLabelled(s2.wal[st.index[IdOfLabel(labels[k])]])
                /\ IdOfLabel(labels[k]) \notin DOMAIN st.index => IdOfLabel(labels[k]) \in DOMAIN s2.pending
    <3>1. CASE k = n + 1
      BY <1>5, <1>11, <2>9, <3>1, Zenon DEF pos
    <3>2. CASE k \in 1 .. n
      <4>1. /\ IdOfLabel(labels[k]) \in DOMAIN st.index => IsLabelled(s.wal[st.index[IdOfLabel(labels[k])]])
            /\ IdOfLabel(labels[k]) \notin DOMAIN st.index => IdOfLabel(labels[k]) \in DOMAIN s.pending
        BY <3>2, Zenon DEF Put
      <4>2. IdOfLabel(labels[k]) \in DOMAIN st.index => st.index[IdOfLabel(labels[k])] \in DOMAIN st.wal
        BY Zenon DEF Leads
      <4> QED
        BY <2>4, <2>8, <4>1, <4>2, Zenon
    <3> QED
      BY <1>8, <3>1, <3>2
  <2>12. Len(s2.wal) = Len(st.wal) /\ DOMAIN st.pending \subseteq DOMAIN s2.pending
    BY <1>6, <2>3, <2>4
  <2>13. Put(st, labels, n + 1, s2)
    BY <2>4, <2>5, <2>6, <2>10, <2>11, <2>12, Zenon DEF Put
  <2> QED
    BY <1>2, <2>13 DEF s2, x
<1>12. CASE i \notin DOMAIN st.index
  <2> DEFINE pe == [j \in DOMAIN s.pending \cup {i} |-> IF j = i THEN y ELSE s.pending[j]]
  <2>1. s2 = [s EXCEPT !.pending = pe]
    BY <1>3, <1>6, <1>12 DEF Labelled
  <2> HIDE DEF s2, y
  <2>2. s2 = [wal |-> s.wal, index |-> s.index, entries |-> s.entries, pending |-> pe]
    <3> DEFINE w == s.wal
               ix == s.index
               en == s.entries
               pp == s.pending
    <3>1. s = [wal |-> w, index |-> ix, entries |-> en, pending |-> pp]
      BY <1>6, Zenon DEF IsStore
    <3> HIDE DEF w, ix, en, pp, pe
    <3>2. [s EXCEPT !.pending = pe] = [wal |-> w, index |-> ix, entries |-> en, pending |-> pe]
      BY <3>1
    <3> QED
      BY <2>1, <3>2, Zenon DEF w, ix, en
  <2>3. s2.wal = s.wal /\ s2.index = st.index /\ s2.entries = s.entries /\ s2.pending = pe
    <3> HIDE DEF pe
    <3> QED
      BY <1>6, <2>2
  <2>4. IsStore(s2)
    <3>1. s2 = [wal |-> s2.wal, index |-> s2.index, entries |-> s2.entries, pending |-> s2.pending]
      BY <1>6, <2>2, <2>3, Zenon
    <3> QED
      BY <1>6, <2>3, <3>1 DEF IsStore
  <2>5. DOMAIN pe = DOMAIN s.pending \cup {i} /\ pe = [j \in DOMAIN pe |-> pe[j]]
        /\ \A j \in DOMAIN pe : pe[j] = IF j = i THEN y ELSE s.pending[j]
    OBVIOUS
  <2> HIDE DEF pe
  <2>6. Waiting(s2, life)
    <3>1. ASSUME NEW j \in DOMAIN pe
          PROVE  j \in Nat /\ pe[j] \in Ys /\ pe[j].of = <<life, j>>
      <4>1. CASE j = i
        BY <1>2, <1>3, <1>4, <2>5, <4>1
      <4>2. CASE j # i
        <5>1. j \in DOMAIN s.pending /\ pe[j] = s.pending[j]
          BY <2>5, <4>2
        <5> QED
          BY <1>6, <5>1 DEF Waiting
      <4> QED
        BY <4>1, <4>2
    <3> QED
      BY <2>3, <2>5, <3>1 DEF Waiting
  <2>7. ASSUME NEW p \in DOMAIN st.wal
        PROVE  /\ s2.wal[p].intent = st.wal[p].intent /\ s2.wal[p].whole = st.wal[p].whole
               /\ IsLabelled(st.wal[p]) => IsLabelled(s2.wal[p])
               /\ \/ s2.wal[p].y = st.wal[p].y
                  \/ \E k \in 1 .. n + 1 : /\ s2.wal[p].y.of = Intent(IdOfLabel(labels[k]))
                                           /\ IdOfLabel(labels[k]) \in DOMAIN st.index
                                           /\ st.index[IdOfLabel(labels[k])] = p
    <3>1. s2.wal[p] = s.wal[p]
      BY <2>3
    <3> DEFINE w == s.wal[p]
    <3>2. /\ w.intent = st.wal[p].intent /\ w.whole = st.wal[p].whole
          /\ IsLabelled(st.wal[p]) => IsLabelled(w)
          /\ \/ w.y = st.wal[p].y
             \/ \E k \in 1 .. n : /\ w.y.of = Intent(IdOfLabel(labels[k]))
                                  /\ IdOfLabel(labels[k]) \in DOMAIN st.index
                                  /\ st.index[IdOfLabel(labels[k])] = p
      BY Zenon DEF Put
    <3>3. s2.wal[p] = w
      BY <3>1
    <3> HIDE DEF w
    <3>4. \A k \in 1 .. n : k \in 1 .. n + 1
      BY <1>9
    <3> QED
      BY <3>2, <3>3, <3>4, Zenon
  <2>8. ASSUME NEW k \in 1 .. n + 1
         PROVE  /\ IdOfLabel(labels[k]) \in DOMAIN st.index => IsLabelled(s2.wal[st.index[IdOfLabel(labels[k])]])
                /\ IdOfLabel(labels[k]) \notin DOMAIN st.index => IdOfLabel(labels[k]) \in DOMAIN s2.pending
    <3>1. CASE k = n + 1
      <4>1. i \in DOMAIN s2.pending
        BY <2>3, <2>5
      <4> QED
        BY <1>5, <1>12, <3>1, <4>1
    <3>2. CASE k \in 1 .. n
      <4>1. /\ IdOfLabel(labels[k]) \in DOMAIN st.index => IsLabelled(s.wal[st.index[IdOfLabel(labels[k])]])
            /\ IdOfLabel(labels[k]) \notin DOMAIN st.index => IdOfLabel(labels[k]) \in DOMAIN s.pending
        BY <3>2, Zenon DEF Put
      <4>2. DOMAIN s.pending \subseteq DOMAIN s2.pending
        BY <2>3, <2>5
      <4> QED
        BY <2>3, <4>1, <4>2
    <3> QED
      BY <1>8, <3>1, <3>2
  <2>9. Len(s2.wal) = Len(st.wal) /\ DOMAIN st.pending \subseteq DOMAIN s2.pending
    BY <1>6, <2>3, <2>5
  <2>10. Put(st, labels, n + 1, s2)
    BY <2>3, <2>4, <2>6, <2>7, <2>8, <2>9, Zenon DEF Put
  <2> QED
    BY <1>2, <2>10 DEF s2, x
<1> QED
  BY <1>11, <1>12

LEMMA LabelsPut ==
  ASSUME NEW st, IsStore(st), Leads(st), Waiting(st, life), life \in Nat,
         NEW labels \in Seq(Labels)
  PROVE  Put(st, labels, Len(labels), AllLabelled(st, labels))
<1> DEFINE Bad == {m \in 0 .. Len(labels) : ~Put(st, labels, m, LabelledTo(st, labels, m))}
<1>1. Len(labels) \in Nat
  OBVIOUS
<1>2. Bad = {}
  <2> SUFFICES ASSUME Bad # {} PROVE FALSE
    OBVIOUS
  <2>1. PICK m \in Bad : \A k \in Bad : m <= k
    <3>1. Bad \in SUBSET Nat
      OBVIOUS
    <3> QED
      BY <3>1, LeastNumber
  <2>2. m \in 0 .. Len(labels) /\ ~Put(st, labels, m, LabelledTo(st, labels, m))
    OBVIOUS
  <2>3. CASE m = 0
    <3>1. LabelledTo(st, labels, 0) = st
      BY LabelledToSteps, Zenon
    <3>2. \A k \in 1 .. 0 : FALSE
      OBVIOUS
    <3>3. Put(st, labels, 0, st)
      BY <3>2, Zenon DEF Put
    <3> QED
      BY <2>2, <2>3, <3>1, <3>3
  <2>4. CASE m # 0
    <3> DEFINE k == m - 1
    <3>1. k \in Nat /\ k \notin Bad /\ k \in 0 .. Len(labels) /\ m = k + 1 /\ k + 1 \in 1 .. Len(labels)
      BY <1>1, <2>1, <2>2, <2>4
    <3>2. Put(st, labels, k, LabelledTo(st, labels, k))
      BY <3>1
    <3> HIDE DEF k, Bad
    <3>3. LabelledTo(st, labels, k + 1)
          = Labelled(LabelledTo(st, labels, k), Intent(labels[k + 1].intent.id), labels[k + 1].label)
      <4>1. \A j \in Nat : LabelledTo(st, labels, j + 1)
              = Labelled(LabelledTo(st, labels, j), Intent(labels[j + 1].intent.id), labels[j + 1].label)
        BY LabelledToSteps
      <4> QED
        BY <3>1, <4>1, Zenon
    <3>4. Put(st, labels, k + 1,
              Labelled(LabelledTo(st, labels, k), Intent(labels[k + 1].intent.id), labels[k + 1].label))
      BY <3>1, <3>2, PutOneMore, Zenon
    <3> QED
      BY <2>2, <3>1, <3>3, <3>4
  <2> QED
    BY <2>3, <2>4
<1>3. Len(labels) \in 0 .. Len(labels)
  BY <1>1
<1>4. Put(st, labels, Len(labels), LabelledTo(st, labels, Len(labels)))
  BY <1>2, <1>3
<1> QED
  BY <1>4, AllLabelledIs, Zenon

(* The index after a restart.                                              *)
LEMMA RebuiltIs ==
  ASSUME NEW w \in Seq(Records), NEW now
  PROVE  LET s2 == Rebuilt(w)
         IN /\ IsStore(s2) /\ Leads(s2) /\ Waiting(s2, now)
            /\ s2.wal = w /\ s2.pending = NoEntries /\ DOMAIN s2.pending = {}
<1> DEFINE s2 == Rebuilt(w)
           ids == IdsOf(w)
           LastAt(i) == CHOOSE p \in DOMAIN w :
             IdOf(w[p].intent) = i /\ \A q \in DOMAIN w : IdOf(w[q].intent) = i => q <= p
           ix == [i \in ids |-> LastAt(i)]
<1>1. s2 = [wal |-> w, index |-> ix, entries |-> Len(w), pending |-> NoEntries]
  BY DEF Rebuilt, IdsOf
<1>2. /\ Len(w) \in Nat /\ DOMAIN w = 1 .. Len(w)
      /\ \A p \in DOMAIN w : w[p] \in Records /\ IdOf(w[p].intent) \in Nat /\ p \in Nat
  BY WalPlaces
<1>3. ASSUME NEW i \in ids
      PROVE  /\ LastAt(i) \in DOMAIN w /\ IdOf(w[LastAt(i)].intent) = i
             /\ \A q \in DOMAIN w : IdOf(w[q].intent) = i => q <= LastAt(i)
  <2> DEFINE G == {p \in DOMAIN w : IdOf(w[p].intent) = i}
  <2>1. G # {}
    BY DEF IdsOf
  <2>2. G \in SUBSET (0 .. Len(w))
    BY <1>2
  <2>3. \E p \in G : \A q \in G : q <= p
    BY <1>2, <2>1, <2>2, GreatestNumber
  <2>4. \E p \in DOMAIN w : IdOf(w[p].intent) = i /\ \A q \in DOMAIN w : IdOf(w[q].intent) = i => q <= p
    BY <2>3, Zenon
  <2> QED
    BY <2>4, Zenon
<1> HIDE DEF s2, LastAt
<1>4. DOMAIN ix = ids /\ \A i \in ids : ix[i] = LastAt(i)
  OBVIOUS
<1> HIDE DEF ix
<1>5. /\ s2.wal = w /\ s2.index = ix /\ s2.entries = Len(w) /\ s2.pending = NoEntries
  BY <1>1
<1>6. IsStore(s2)
  <2>1. s2 = [wal |-> s2.wal, index |-> s2.index, entries |-> s2.entries, pending |-> s2.pending]
    BY <1>1, <1>5, Zenon
  <2> QED
    BY <1>5, <2>1 DEF IsStore
<1>7. Leads(s2)
  <2>1. ix = [i \in ids |-> ix[i]]
    BY <1>4 DEF ix
  <2>2. s2.index = [i \in IdsOf(s2.wal) |-> s2.index[i]]
    BY <1>5, <2>1, Zenon DEF ids
  <2>3. \A i \in DOMAIN s2.index : s2.index[i] \in DOMAIN s2.wal /\ IdOf(s2.wal[s2.index[i]].intent) = i
    BY <1>3, <1>4, <1>5
  <2>4. \A p \in DOMAIN s2.wal : p <= s2.index[IdOf(s2.wal[p].intent)]
    <3> SUFFICES ASSUME NEW p \in DOMAIN w PROVE p <= ix[IdOf(w[p].intent)]
      BY <1>5
    <3>1. IdOf(w[p].intent) \in ids
      BY DEF IdsOf
    <3> HIDE DEF ids
    <3>2. p <= LastAt(IdOf(w[p].intent))
      BY <1>3, <3>1
    <3> QED
      BY <1>4, <3>1, <3>2
  <2> QED
    BY <2>2, <2>3, <2>4 DEF Leads
<1>8. DOMAIN NoEntries = {} /\ NoEntries = [i \in DOMAIN NoEntries |-> NoEntries[i]]
  BY DEF NoEntries
<1>9. Waiting(s2, now)
  BY <1>5, <1>8 DEF Waiting
<1> QED
  BY <1>5, <1>6, <1>7, <1>8, <1>9, Zenon DEF s2

LEMMA WithLabel ==
  ASSUME NEW in, NEW t, NEW u, NEW z, NEW q, q = [intent |-> in, whole |-> t, y |-> u]
  PROVE  [q EXCEPT !.y = z] = [intent |-> in, whole |-> t, y |-> z]
OBVIOUS

(* What append_features does: a record more, with the label that waited.   *)
OneMore(st, now, i, s2) ==
  LET pos == Len(st.wal) + 1
  IN /\ IsStore(s2) /\ Leads(s2) /\ Waiting(s2, now)
     /\ Len(s2.wal) = pos /\ \A p \in DOMAIN st.wal : s2.wal[p] = st.wal[p] /\ p # pos
     /\ DOMAIN s2.wal = DOMAIN st.wal \cup {pos}
     /\ s2.wal[pos].intent = <<now, i>> /\ s2.wal[pos].whole = TRUE
     /\ i \in DOMAIN st.pending => s2.wal[pos].y.of = <<now, i>>
     /\ i \notin DOMAIN st.pending => s2.wal[pos].y.of = <<>>
     /\ s2.index[i] = pos
     /\ \A j \in DOMAIN st.index : j # i => s2.index[j] = st.index[j]
     /\ DOMAIN s2.pending = DOMAIN st.pending \ {i}

LEMMA AppendedIs ==
  ASSUME NEW st, IsStore(st), Leads(st), NEW now \in Nat, Waiting(st, now), NEW i \in Nat, HasRoom(st)
  PROVE  OneMore(st, now, i, Appended(st, <<now, i>>))
<1> DEFINE s2 == Appended(st, <<now, i>>)
           pos == Len(st.wal) + 1
           w == st.wal
           y == IF i \in DOMAIN st.pending THEN st.pending[i] ELSE Unlabelled
           r == [intent |-> <<now, i>>, whole |-> TRUE, y |-> y]
           w2 == Append(w, r)
           ix == [j \in DOMAIN st.index \cup {i} |-> IF j = i THEN pos ELSE st.index[j]]
           pe == Restrict(st.pending, DOMAIN st.pending \ {i})
<1>1. st.entries = Len(w) /\ w \in Seq(Records)
  BY DEF IsStore
<1>2. IdOf(<<now, i>>) = i
  BY DEF IdOf
<1>3. [Record(<<now, i>>, TRUE) EXCEPT !.y = st.pending[i]] = [intent |-> <<now, i>>, whole |-> TRUE, y |-> st.pending[i]]
  <2>1. Record(<<now, i>>, TRUE) = [intent |-> <<now, i>>, whole |-> TRUE, y |-> Unlabelled]
    BY Zenon DEF Record
  <2> DEFINE q == Record(<<now, i>>, TRUE)
             in == <<now, i>>
             t == TRUE
             u == Unlabelled
             z == st.pending[i]
  <2>2. q = [intent |-> in, whole |-> t, y |-> u]
    BY <2>1
  <2> HIDE DEF q, in, t, u, z
  <2>3. [q EXCEPT !.y = z] = [intent |-> in, whole |-> t, y |-> z]
    BY <2>2, WithLabel
  <2> QED
    BY <2>3 DEF q, in, t, z
<1>4. Record(<<now, i>>, TRUE) = [intent |-> <<now, i>>, whole |-> TRUE, y |-> Unlabelled]
  BY DEF Record
<1>5. s2 = [wal |-> w2, index |-> ix, entries |-> pos, pending |-> pe]
  <2>1. (IF i \in DOMAIN st.pending THEN [Record(<<now, i>>, TRUE) EXCEPT !.y = st.pending[i]]
                                    ELSE Record(<<now, i>>, TRUE)) = r
    BY <1>3, <1>4, Zenon
  <2> HIDE DEF r
  <2> QED
    BY <1>1, <1>2, <2>1, Zenon DEF Appended
<1>6. y \in Ys /\ (i \in DOMAIN st.pending => y.of = <<now, i>>) /\ (i \notin DOMAIN st.pending => y.of = <<>>)
  <2>1. Unlabelled \in Ys /\ Unlabelled.of = <<>>
    BY DEF Unlabelled, Ys
  <2> QED
    BY <2>1 DEF Waiting
<1>7. r \in Records /\ r.intent = <<now, i>> /\ r.whole = TRUE /\ r.y = y
  <2> HIDE DEF y
  <2>1. <<now, i>> \in Intents
    BY DEF Intents
  <2> QED
    BY <1>6, <2>1 DEF Records
<1> HIDE DEF s2, y, r
<1>8. /\ w2 \in Seq(Records) /\ Len(w2) = pos /\ pos \in Nat
      /\ w2[pos] = r /\ \A p \in DOMAIN w : w2[p] = w[p] /\ p # pos /\ p <= pos
      /\ DOMAIN w = 1 .. Len(w) /\ DOMAIN w2 = DOMAIN w \cup {pos}
  <2> HIDE DEF w
  <2>1. Append(w, r) \in Seq(Records) /\ Len(Append(w, r)) = Len(w) + 1 /\ Len(w) \in Nat
        /\ DOMAIN w = 1 .. Len(w)
    BY <1>1, <1>7
  <2>2. Append(w, r)[Len(w) + 1] = r /\ \A p \in 1 .. Len(w) : Append(w, r)[p] = w[p]
    BY <1>1, <1>7
  <2> HIDE DEF w2
  <2>3. w2 \in Seq(Records) /\ Len(w2) = Len(w) + 1 /\ w2[Len(w) + 1] = r
        /\ \A p \in 1 .. Len(w) : w2[p] = w[p]
    BY <2>1, <2>2, Zenon DEF w2
  <2>4. DOMAIN w2 = 1 .. Len(w) + 1
    BY <2>3
  <2> QED
    BY <2>1, <2>3, <2>4 DEF w
<1> HIDE DEF w2
<1>9. /\ DOMAIN ix = DOMAIN st.index \cup {i} /\ ix[i] = pos /\ ix = [j \in DOMAIN ix |-> ix[j]]
      /\ \A j \in DOMAIN st.index : j # i => ix[j] = st.index[j]
  OBVIOUS
<1>10. /\ DOMAIN pe = DOMAIN st.pending \ {i} /\ pe = [j \in DOMAIN pe |-> pe[j]]
       /\ \A j \in DOMAIN pe : pe[j] = st.pending[j]
  BY DEF Restrict
<1> HIDE DEF ix, pe, pos
<1>11. s2.wal = w2 /\ s2.index = ix /\ s2.entries = pos /\ s2.pending = pe
  BY <1>5
<1>12. IsStore(s2)
  <2>1. s2 = [wal |-> s2.wal, index |-> s2.index, entries |-> s2.entries, pending |-> s2.pending]
    BY <1>5, <1>11, Zenon
  <2> QED
    BY <1>8, <1>11, <2>1 DEF IsStore
<1>13. DOMAIN st.index = IdsOf(w)
  BY Zenon DEF Leads
<1>14. /\ IdOf(w2[pos].intent) = i
       /\ \A p \in DOMAIN w : IdOf(w2[p].intent) = IdOf(w[p].intent)
  BY <1>2, <1>7, <1>8
<1>15. IdsOf(w2) = DOMAIN ix
  BY <1>8, <1>9, <1>13, <1>14 DEF IdsOf
<1>16. Leads(s2)
  <2>1. s2.index = [j \in IdsOf(s2.wal) |-> s2.index[j]]
    BY <1>9, <1>11, <1>15, Zenon
  <2>2. ASSUME NEW j \in DOMAIN ix
        PROVE  ix[j] \in DOMAIN w2 /\ IdOf(w2[ix[j]].intent) = j
    <3>1. CASE j = i
      BY <1>8, <1>9, <1>14, <3>1
    <3>2. CASE j # i
      <4>1. j \in DOMAIN st.index /\ ix[j] = st.index[j]
        BY <1>9, <3>2
      <4>2. st.index[j] \in DOMAIN w /\ IdOf(w[st.index[j]].intent) = j
        BY <4>1, Zenon DEF Leads
      <4> QED
        BY <1>8, <1>14, <4>1, <4>2
    <3> QED
      BY <3>1, <3>2
  <2>3. ASSUME NEW p \in DOMAIN w2
        PROVE  p <= ix[IdOf(w2[p].intent)]
    <3>1. CASE p = pos
      BY <1>8, <1>9, <1>14, <3>1
    <3>2. CASE p \in DOMAIN w
      <4> DEFINE j == IdOf(w[p].intent)
      <4>1. IdOf(w2[p].intent) = j /\ j \in DOMAIN st.index
        BY <1>13, <1>14, <3>2 DEF IdsOf
      <4>2. p <= st.index[j]
        BY <3>2, Zenon DEF Leads
      <4>3. p <= pos
        BY <1>8, <3>2
      <4> HIDE DEF j
      <4> QED
        BY <1>9, <4>1, <4>2, <4>3
    <3> QED
      BY <1>8, <3>1, <3>2
  <2> QED
    BY <1>11, <2>1, <2>2, <2>3, Zenon DEF Leads
<1>17. Waiting(s2, now)
  <2>1. ASSUME NEW j \in DOMAIN pe
        PROVE  j \in Nat /\ pe[j] \in Ys /\ pe[j].of = <<now, j>>
    BY <1>10 DEF Waiting
  <2> QED
    BY <1>10, <1>11, <2>1 DEF Waiting
<1>18. /\ s2.wal[pos].intent = <<now, i>> /\ s2.wal[pos].whole = TRUE
       /\ i \in DOMAIN st.pending => s2.wal[pos].y.of = <<now, i>>
       /\ i \notin DOMAIN st.pending => s2.wal[pos].y.of = <<>>
  BY <1>6, <1>7, <1>8, <1>11
<1>19. /\ Len(s2.wal) = pos /\ \A p \in DOMAIN w : s2.wal[p] = w[p] /\ p # pos
       /\ DOMAIN s2.wal = DOMAIN w \cup {pos}
       /\ s2.index[i] = pos
       /\ \A j \in DOMAIN st.index : j # i => s2.index[j] = st.index[j]
       /\ DOMAIN s2.pending = DOMAIN st.pending \ {i}
  BY <1>8, <1>9, <1>10, <1>11
<1> QED
  BY <1>12, <1>16, <1>17, <1>18, <1>19, Zenon DEF s2, pos, w, OneMore

(* The records compaction keeps: no two have the same id.                  *)
LEMMA KeptIs ==
  ASSUME NEW st, IsStore(st), Leads(st)
  PROVE  /\ Kept(st) \in Seq(Records) /\ Len(Kept(st)) <= Len(st.wal)
         /\ \A k \in DOMAIN Kept(st) : \E p \in DOMAIN st.wal : Kept(st)[k] = st.wal[p]
         /\ \A k, m \in DOMAIN Kept(st) : IdOf(Kept(st)[k].intent) = IdOf(Kept(st)[m].intent) => k = m
<1> DEFINE w == st.wal
           positions == {st.index[i] : i \in DOMAIN st.index}
           keep == {p \in positions : ~IsLabelled(w[p])}
           n == Cardinality(keep)
           K == [k \in 1 .. n |-> w[NthPlace(keep, k)]]
<1>1. Kept(st) = K
  BY DEF Kept
<1>2. /\ Len(w) \in Nat /\ DOMAIN w = 1 .. Len(w) /\ w \in Seq(Records)
      /\ \A p \in DOMAIN w : w[p] \in Records /\ IdOf(w[p].intent) \in Nat /\ p \in Nat
  BY WalPlaces DEF IsStore
<1>3. \A p \in keep : p \in DOMAIN w /\ st.index[IdOf(w[p].intent)] = p
  BY DEF Leads
<1> HIDE DEF keep, w
<1>4. keep \in SUBSET (1 .. Len(w)) /\ keep \in SUBSET Nat
  BY <1>2, <1>3
<1>5. IsFiniteSet(1 .. Len(w)) /\ Cardinality(1 .. Len(w)) = Len(w)
  BY <1>2, PlacesFinite
<1>6. IsFiniteSet(keep) /\ n <= Len(w)
  BY <1>4, <1>5, FS_Subset
<1>7. /\ n \in Nat /\ \A k \in 1 .. n : Nth(keep, k) \in keep
      /\ \A k, m \in 1 .. n : Nth(keep, k) = Nth(keep, m) => k = m
  BY <1>4, <1>6, NthIs
<1>8. \A k : NthPlace(keep, k) = Nth(keep, k)
  BY DEF NthPlace, Nth
<1> HIDE DEF n
<1>9. \A k \in 1 .. n : K[k] = w[Nth(keep, k)] /\ K[k] \in Records
  BY <1>2, <1>3, <1>7, <1>8
<1>10. DOMAIN K = 1 .. n
  OBVIOUS
<1>11. K \in Seq(Records) /\ Len(K) = n
  <2>1. K = [k \in 1 .. n |-> K[k]]
    OBVIOUS
  <2> HIDE DEF K
  <2> QED
    BY <1>7, <1>9, <2>1
<1> HIDE DEF K
<1>12. \A k \in 1 .. n : Nth(keep, k) \in DOMAIN w /\ st.index[IdOf(K[k].intent)] = Nth(keep, k)
  BY <1>3, <1>7, <1>9
<1>13. \A k, m \in 1 .. n : IdOf(K[k].intent) = IdOf(K[m].intent) => k = m
  <2> SUFFICES ASSUME NEW k \in 1 .. n, NEW m \in 1 .. n, IdOf(K[k].intent) = IdOf(K[m].intent) PROVE k = m
    OBVIOUS
  <2>1. Nth(keep, k) = Nth(keep, m)
    BY <1>12
  <2> QED
    BY <1>7, <2>1
<1>14. \A k \in DOMAIN K : \E p \in DOMAIN w : K[k] = w[p]
  BY <1>9, <1>10, <1>12
<1> QED
  BY <1>1, <1>6, <1>10, <1>11, <1>13, <1>14, Zenon DEF w

(* compaction leaves a store that leads to each of its records.            *)
LEMMA CompactedIs ==
  ASSUME NEW st, IsStore(st), Leads(st), NEW now, Waiting(st, now)
  PROVE  LET s2 == Compacted(st)
         IN \/ s2 = st
            \/ /\ IsStore(s2) /\ Leads(s2) /\ Waiting(s2, now) /\ s2.pending = st.pending
               /\ Len(s2.wal) <= Len(st.wal)
               /\ \A q \in DOMAIN s2.wal : /\ \E p \in DOMAIN st.wal : s2.wal[q] = st.wal[p]
                                           /\ s2.index[IdOf(s2.wal[q].intent)] = q
<1> DEFINE s2 == Compacted(st)
           w == Kept(st)
           b == Rebuilt(w)
<1> SUFFICES ASSUME Len(w) # st.entries
             PROVE  /\ IsStore(s2) /\ Leads(s2) /\ Waiting(s2, now) /\ s2.pending = st.pending
                    /\ Len(s2.wal) <= Len(st.wal)
                    /\ \A q \in DOMAIN s2.wal : /\ \E p \in DOMAIN st.wal : s2.wal[q] = st.wal[p]
                                                /\ s2.index[IdOf(s2.wal[q].intent)] = q
  BY DEF Compacted
<1>1. /\ w \in Seq(Records) /\ Len(w) <= Len(st.wal)
      /\ \A k \in DOMAIN w : \E p \in DOMAIN st.wal : w[k] = st.wal[p]
      /\ \A k, m \in DOMAIN w : IdOf(w[k].intent) = IdOf(w[m].intent) => k = m
  BY KeptIs
<1>2. s2 = [b EXCEPT !.pending = st.pending]
  BY Zenon DEF Compacted
<1> HIDE DEF w, s2
<1>3. IsStore(b) /\ Leads(b) /\ b.wal = w
  BY <1>1, RebuiltIs, Zenon
<1> HIDE DEF b
<1>4. s2 = [wal |-> b.wal, index |-> b.index, entries |-> b.entries, pending |-> st.pending]
  <2> DEFINE x == b.wal
             ix == b.index
             en == b.entries
             pp == b.pending
             pe == st.pending
  <2>1. b = [wal |-> x, index |-> ix, entries |-> en, pending |-> pp]
    BY <1>3, Zenon DEF IsStore
  <2> HIDE DEF x, ix, en, pp, pe
  <2>2. [b EXCEPT !.pending = pe] = [wal |-> x, index |-> ix, entries |-> en, pending |-> pe]
    BY <2>1
  <2> QED
    BY <1>2, <2>2, Zenon DEF x, ix, en, pe
<1>5. s2.wal = b.wal /\ s2.index = b.index /\ s2.entries = b.entries /\ s2.pending = st.pending
  BY <1>4
<1>6. IsStore(s2)
  <2>1. s2 = [wal |-> s2.wal, index |-> s2.index, entries |-> s2.entries, pending |-> s2.pending]
    BY <1>4, <1>5, Zenon
  <2> QED
    BY <1>3, <1>5, <2>1 DEF IsStore
<1>7. Leads(s2)
  BY <1>3, <1>5, Zenon DEF Leads
<1>8. Waiting(s2, now)
  BY <1>5, Zenon DEF Waiting
<1>9. ASSUME NEW q \in DOMAIN w
      PROVE  b.index[IdOf(w[q].intent)] = q
  <2> DEFINE j == IdOf(w[q].intent)
  <2>1. j \in IdsOf(w)
    BY DEF IdsOf
  <2>2. DOMAIN b.index = IdsOf(w)
    BY <1>3, Zenon DEF Leads
  <2>3. b.index[j] \in DOMAIN w /\ IdOf(w[b.index[j]].intent) = j
    BY <1>3, <2>1, <2>2, Zenon DEF Leads
  <2> QED
    BY <1>1, <2>3
<1>10. Len(s2.wal) <= Len(st.wal)
  BY <1>1, <1>3, <1>5
<1>11. \A q \in DOMAIN s2.wal : /\ \E p \in DOMAIN st.wal : s2.wal[q] = st.wal[p]
                                /\ s2.index[IdOf(s2.wal[q].intent)] = q
  BY <1>1, <1>3, <1>5, <1>9
<1> QED
  BY <1>5, <1>6, <1>7, <1>8, <1>10, <1>11

(* The files a death of the process leaves.                                *)
LEMMA TornCompactionIs ==
  ASSUME NEW st, IsStore(st), Leads(st), NEW k \in 1 .. Len(Kept(st)), Len(Kept(st)) < st.entries
  PROVE  LET w == TornCompaction(st, k)
         IN /\ w \in Seq(Records) /\ Len(w) = Len(st.wal)
            /\ \A q \in DOMAIN w : \E p \in DOMAIN st.wal : w[q] = st.wal[p]
<1> DEFINE w == TornCompaction(st, k)
           c == Kept(st)
           v == st.wal
<1>1. /\ c \in Seq(Records) /\ Len(c) <= Len(v)
      /\ \A j \in DOMAIN c : \E p \in DOMAIN v : c[j] = v[p]
  BY KeptIs
<1>2. w = [p \in DOMAIN v |-> IF p <= k THEN c[p] ELSE v[p]]
  BY DEF TornCompaction
<1>3. v \in Seq(Records)
  BY DEF IsStore
<1>4. k \in 1 .. Len(c)
  OBVIOUS
<1> HIDE DEF w, c, v
<1>5. DOMAIN v = 1 .. Len(v) /\ Len(v) \in Nat /\ \A p \in 1 .. Len(v) : v[p] \in Records
  BY <1>3
<1>6. DOMAIN c = 1 .. Len(c) /\ Len(c) \in Nat
  BY <1>1
<1>7. ASSUME NEW q \in 1 .. Len(v)
      PROVE  \E p \in DOMAIN v : w[q] = v[p]
  <2>1. CASE q <= k
    <3>1. q \in 1 .. Len(c)
      BY <1>4, <1>5, <1>6, <2>1
    <3>2. w[q] = c[q]
      BY <1>2, <1>5, <2>1
    <3> QED
      BY <1>1, <1>6, <3>1, <3>2
  <2>2. CASE ~(q <= k)
    BY <1>2, <1>5, <2>2
  <2> QED
    BY <2>1, <2>2
<1>8. \A q \in 1 .. Len(v) : w[q] \in Records
  BY <1>5, <1>7
<1>9. w = [q \in 1 .. Len(v) |-> w[q]]
  BY <1>2, <1>5
<1>10. w \in Seq(Records) /\ Len(w) = Len(v) /\ DOMAIN w = 1 .. Len(v)
  BY <1>5, <1>8, <1>9
<1> QED
  BY <1>7, <1>10 DEF w, v

-----------------------------------------------------------------------------
(* The bar engine counts.                                                  *)

EngineOk(e) == e.count \in Nat /\ e.acc \in 0 .. Threshold - 1

(* The bars a trade closes, and the rest.                                  *)
IngestedWell(e, price, qty) ==
  LET d == Filled(e, price, qty) \div Threshold
      r == Filled(e, price, qty) % Threshold
      a == Ingested(e, price, qty)
      closed == Closed(e, price, qty)
  IN /\ DollarValue(price, qty) \in Nat /\ d \in Nat
     /\ Filled(e, price, qty) = Threshold * d + r /\ r \in 0 .. Threshold - 1 /\ r \in Nat
     /\ closed = e.count .. (e.count + d - 1) /\ Cardinality(closed) = d
     /\ DollarValue(price, qty) = 0 => d = 0
     /\ EngineOk(a) /\ a.count = e.count + d /\ a.acc = r

LEMMA IngestedCounts ==
  ASSUME NEW e, EngineOk(e), NEW price \in Nat, NEW qty \in Nat
  PROVE  IngestedWell(e, price, qty)
<1> DEFINE v == DollarValue(price, qty)
           f == Filled(e, price, qty)
           d == f \div Threshold
           a == Ingested(e, price, qty)
           c == e.count
<1>1. Threshold \in Nat \ {0} /\ Scale \in Nat \ {0} /\ c \in Nat /\ e.acc \in 0 .. Threshold - 1
  BY BarAssumption DEF EngineOk
<1>2. v \in Nat
  <2>1. price * qty \in Nat
    OBVIOUS
  <2> QED
    BY <1>1, <2>1, Division DEF DollarValue
<1>3. f \in Nat /\ f = e.acc + v
  BY <1>1, <1>2 DEF Filled
<1> HIDE DEF v
<1>4. d \in Nat /\ f % Threshold \in 0 .. Threshold - 1 /\ f = Threshold * d + (f % Threshold)
      /\ f % Threshold \in Nat
  <2> HIDE DEF f
  <2>1. d \in Nat /\ f % Threshold \in 0 .. Threshold - 1 /\ f = Threshold * d + (f % Threshold)
    BY <1>1, <1>3, Division
  <2> DEFINE r == f % Threshold
  <2> HIDE DEF r
  <2>2. r \in 0 .. Threshold - 1
    BY <2>1 DEF r
  <2>3. r \in Nat
    BY <1>1, <2>2
  <2> QED
    BY <2>1, <2>3 DEF r
<1>5. Closed(e, price, qty) = c .. (c + d - 1)
  BY DEF Closed
<1> HIDE DEF d
<1>6. IsFiniteSet(c .. (c + d - 1)) /\ Cardinality(c .. (c + d - 1)) = d
  <2>1. c \in Int /\ c + d - 1 \in Int /\ (IF c > c + d - 1 THEN 0 ELSE (c + d - 1) - c + 1) = d
    <3> HIDE DEF c
    <3> QED
      BY <1>1, <1>4
  <2>2. /\ IsFiniteSet(c .. (c + d - 1))
        /\ Cardinality(c .. (c + d - 1)) = IF c > c + d - 1 THEN 0 ELSE (c + d - 1) - c + 1
    BY <2>1, FS_Interval, Zenon
  <2> QED
    BY <2>1, <2>2
<1>7. v = 0 => d = 0 /\ f % Threshold = e.acc
  <2> SUFFICES ASSUME v = 0 PROVE d = 0 /\ f % Threshold = e.acc
    OBVIOUS
  <2> DEFINE r == f % Threshold
  <2>1. f = e.acc /\ r \in 0 .. Threshold - 1 /\ f = Threshold * d + r
    BY <1>1, <1>3, <1>4
  <2> HIDE DEF f, r
  <2>2. d = 0
    <3> SUFFICES ASSUME d >= 1 PROVE FALSE
      BY <1>4
    <3>1. Threshold * 1 <= Threshold * d
      BY <1>1, <1>4, ProductGrows
    <3> QED
      BY <1>1, <1>4, <2>1, <3>1
  <2> QED
    BY <1>1, <2>1, <2>2 DEF r
<1>8. CASE v = 0
  <2>2. v <= 0
    BY <1>8
  <2>3. a = e
    BY <2>2, Zenon DEF Ingested, v
  <2> HIDE DEF f, a
  <2>4. /\ EngineOk(a) /\ a.count = c + d /\ a.acc = f % Threshold
    BY <1>1, <1>7, <1>8, <2>3 DEF EngineOk
  <2> QED
    BY <1>2, <1>4, <1>5, <1>6, <1>7, <2>4, Zenon DEF IngestedWell, f, a, d, v
<1>9. CASE v # 0
  <2>1. ~(v <= 0)
    BY <1>2, <1>9
  <2>2. a.count = c + Cardinality(Closed(e, price, qty)) /\ a.acc = f % Threshold
    BY <2>1 DEF Ingested, v
  <2> HIDE DEF f, a
  <2>3. /\ EngineOk(a) /\ a.count = c + d
    <3>1. Cardinality(Closed(e, price, qty)) = d
      BY <1>5, <1>6, Zenon
    <3>2. a.count = c + d
      BY <2>2, <3>1, Zenon
    <3> HIDE DEF c
    <3>3. a.count \in Nat /\ a.acc \in 0 .. Threshold - 1
      BY <1>1, <1>4, <2>2, <3>2
    <3> QED
      BY <3>2, <3>3 DEF EngineOk
  <2> QED
    BY <1>2, <1>4, <1>5, <1>6, <1>7, <2>2, <2>3, Zenon DEF IngestedWell, f, a, d, v
<1> QED
  BY <1>8, <1>9

-----------------------------------------------------------------------------
(* Labels and records.                                                     *)

HasSlot(l, i) == \E k \in OpenSlots(l) : l.slots[k].id = i

Paired(r, stray) == r.y.of = <<>> \/ r.y.of \in stray \/ (r.y.of = r.intent /\ r.whole)

(* A record of this run is whole, the index leads to it, and its features  *)
(* are no longer due.                                                      *)
Fresh(st, p, l, due) ==
  LET intent == st.wal[p].intent
  IN st.wal[p].whole /\ st.index[IdOf(intent)] = p /\ IdOf(intent) < l.next /\ intent \notin due

Accounted(r, l, lost) == IsLabelled(r) \/ HasSlot(l, IdOf(r.intent)) \/ r.intent \in lost

(* An intent whose features are due has a slot, or lost it, or its label   *)
(* waits.                                                                  *)
Owed(st, now, l, t, lost) ==
  /\ t = <<now, t[2]>> /\ t[2] \in 0 .. l.next - 1
  /\ HasSlot(l, t[2]) \/ t \in lost \/ t[2] \in DOMAIN st.pending

StoreInv(st, now, l, due, lost, stray) ==
  /\ IsStore(st) /\ Leads(st) /\ Waiting(st, now) /\ st.entries <= MaxEntries
  /\ \A p \in DOMAIN st.wal :
       /\ st.wal[p].intent[1] <= now /\ Paired(st.wal[p], stray)
       /\ st.wal[p].intent[1] = now => Fresh(st, p, l, due) /\ Accounted(st.wal[p], l, lost)
  /\ \A t \in due : Owed(st, now, l, t, lost)

TrainInv ==
  /\ life \in 1 .. MaxLives /\ tape \in Seq(Trades) /\ EngineOk(eng) /\ lab \in Labelers
  /\ StoreInv(store, life, lab, todo, evicted \cup strays, strays)

LEMMA LabelledStore ==
  ASSUME life \in Nat, lab \in Labelers,
         StoreInv(store, life, lab, todo, evicted \cup strays, strays),
         NEW acc, NEW e, NEW first, NEW n, Handled(lab, e, first, n, acc)
  PROVE  LET new == strays \cup {i \in {Intent(acc.labels[k].intent.id) : k \in DOMAIN acc.labels} :
                                   LeadsAstray(store, i)}
         IN /\ acc.l \in Labelers
            /\ StoreInv(AllLabelled(store, acc.labels), life, acc.l, todo, evicted \cup new, new)
<1> DEFINE labels == acc.labels
           m == Len(labels)
           s2 == AllLabelled(store, labels)
           ids(k) == IdOfLabel(labels[k])
           new == strays \cup {i \in {Intent(acc.labels[k].intent.id) : k \in DOMAIN acc.labels} :
                                   LeadsAstray(store, i)}
<1>1. /\ acc.l = [slots |-> acc.l.slots, next |-> lab.next] /\ acc.l.slots \in SlotStates
      /\ labels \in Seq(Labels)
      /\ \A i \in 1 .. MaxOpen : \/ acc.l.slots[i] = lab.slots[i]
                                 \/ \E k \in 1 .. Len(labels) : labels[k].intent = lab.slots[i]
  BY DEF Handled
<1>2. acc.l \in Labelers /\ acc.l.next = lab.next
  BY <1>1 DEF Labelers
<1>3. m \in Nat /\ DOMAIN labels = 1 .. m
  BY <1>1
<1>4. /\ IsStore(store) /\ Leads(store) /\ Waiting(store, life) /\ store.entries <= MaxEntries
      /\ \A p \in DOMAIN store.wal :
           /\ store.wal[p].intent[1] <= life /\ Paired(store.wal[p], strays)
           /\ store.wal[p].intent[1] = life =>
                Fresh(store, p, lab, todo) /\ Accounted(store.wal[p], lab, evicted \cup strays)
      /\ \A t \in todo : Owed(store, life, lab, t, evicted \cup strays)
  BY Zenon DEF StoreInv
<1>5. Put(store, labels, m, s2)
  BY <1>1, <1>4, LabelsPut, Zenon
<1> HIDE DEF s2
<1>6. \A k : Intent(ids(k)) = <<life, ids(k)>> /\ Intent(ids(k))[1] = life /\ IdOf(Intent(ids(k))) = ids(k)
  BY DEF Intent, IdOf
<1>7. \A k \in 1 .. m : LeadsAstray(store, Intent(ids(k))) => Intent(ids(k)) \in new
  <2>1. \A k \in 1 .. m : Intent(ids(k)) \in {Intent(acc.labels[j].intent.id) : j \in DOMAIN acc.labels}
    BY <1>3 DEF IdOfLabel
  <2> QED
    BY <2>1
<1>8. strays \subseteq new
  OBVIOUS
<1> HIDE DEF new, labels, m
<1>9. ASSUME NEW i, HasSlot(lab, i)
      PROVE  HasSlot(acc.l, i) \/ \E k \in 1 .. m : ids(k) = i
  <2>1. PICK j \in OpenSlots(lab) : lab.slots[j].id = i
    BY <1>9 DEF HasSlot
  <2>2. j \in 1 .. MaxOpen /\ lab.slots[j] # Free
    BY DEF OpenSlots
  <2>3. CASE acc.l.slots[j] = lab.slots[j]
    <3>1. j \in OpenSlots(acc.l) /\ acc.l.slots[j].id = i
      BY <2>1, <2>2, <2>3 DEF OpenSlots
    <3> QED
      BY <3>1 DEF HasSlot
  <2>4. CASE \E k \in 1 .. Len(labels) : labels[k].intent = lab.slots[j]
    <3>1. PICK k \in 1 .. Len(labels) : labels[k].intent = lab.slots[j]
      BY <2>4
    <3>2. ids(k) = i
      BY <2>1, <3>1 DEF IdOfLabel
    <3> QED
      BY <3>2 DEF m
  <2> QED
    BY <1>1, <2>2, <2>3, <2>4
<1>10. \A p \in DOMAIN store.wal : IdOf(store.wal[p].intent) \in DOMAIN store.index
  BY <1>4 DEF Leads, IdsOf
<1>11. ASSUME NEW k \in 1 .. m, ids(k) \in DOMAIN store.index,
              store.wal[store.index[ids(k)]].intent # Intent(ids(k))
       PROVE  Intent(ids(k)) \in new
  <2> DEFINE t == Intent(ids(k))
             p == store.index[ids(k)]
  <2>1. p \in DOMAIN store.wal /\ IdOf(store.wal[p].intent) = ids(k)
    BY <1>4, <1>11, Zenon DEF Leads
  <2>2. ASSUME NEW q \in DOMAIN store.wal, store.wal[q].intent = t
        PROVE  FALSE
    <3>1. store.wal[q].intent[1] = life /\ IdOf(store.wal[q].intent) = ids(k)
      BY <1>6, <2>2
    <3>2. store.index[IdOf(store.wal[q].intent)] = q
      BY <1>4, <3>1, Zenon DEF Fresh
    <3>3. q = p
      BY <3>1, <3>2
    <3> QED
      BY <1>11, <2>2, <3>3
  <2>3. IdOf(store.wal[p].intent) = IdOf(t)
    BY <1>6, <2>1
  <2> HIDE DEF t, p
  <2>4. LeadsAstray(store, t)
    BY <2>1, <2>2, <2>3 DEF LeadsAstray
  <2> QED
    BY <1>7, <2>4 DEF t
<1>12. /\ IsStore(s2) /\ Waiting(s2, life) /\ s2.index = store.index /\ Len(s2.wal) = Len(store.wal)
       /\ DOMAIN store.pending \subseteq DOMAIN s2.pending
       /\ \A p \in DOMAIN store.wal :
            /\ s2.wal[p].intent = store.wal[p].intent /\ s2.wal[p].whole = store.wal[p].whole
            /\ IsLabelled(store.wal[p]) => IsLabelled(s2.wal[p])
            /\ \/ s2.wal[p].y = store.wal[p].y
               \/ \E k \in 1 .. m : /\ s2.wal[p].y.of = Intent(ids(k))
                                    /\ ids(k) \in DOMAIN store.index
                                    /\ store.index[ids(k)] = p
       /\ \A k \in 1 .. m :
            /\ ids(k) \in DOMAIN store.index => IsLabelled(s2.wal[store.index[ids(k)]])
            /\ ids(k) \notin DOMAIN store.index => ids(k) \in DOMAIN s2.pending
  BY <1>5, Zenon DEF Put
<1> HIDE DEF ids
<1>13. DOMAIN s2.wal = DOMAIN store.wal /\ s2.entries = store.entries
  BY <1>4, <1>12 DEF IsStore
<1>14. Leads(s2)
  <2>1. IdsOf(s2.wal) = IdsOf(store.wal)
    BY <1>12, <1>13 DEF IdsOf
  <2>2. \A p \in DOMAIN s2.wal : IdOf(s2.wal[p].intent) = IdOf(store.wal[p].intent)
    BY <1>12, <1>13
  <2>3. s2.index = [i \in IdsOf(s2.wal) |-> s2.index[i]]
    BY <1>4, <1>12, <2>1, Zenon DEF Leads
  <2>4. \A i \in DOMAIN s2.index : s2.index[i] \in DOMAIN s2.wal /\ IdOf(s2.wal[s2.index[i]].intent) = i
    BY <1>4, <1>12, <1>13, <2>2 DEF Leads
  <2>5. \A p \in DOMAIN s2.wal : p <= s2.index[IdOf(s2.wal[p].intent)]
    BY <1>4, <1>12, <1>13, <2>2 DEF Leads
  <2> QED
    BY <2>3, <2>4, <2>5 DEF Leads
<1>15. ASSUME NEW p \in DOMAIN store.wal
       PROVE  /\ s2.wal[p].intent[1] <= life /\ Paired(s2.wal[p], new)
              /\ s2.wal[p].intent[1] = life =>
                   Fresh(s2, p, acc.l, todo) /\ Accounted(s2.wal[p], acc.l, evicted \cup new)
  <2> DEFINE r == store.wal[p]
             r2 == s2.wal[p]
  <2>1. r2.intent = r.intent /\ r2.whole = r.whole /\ r.intent[1] <= life /\ Paired(r, strays)
        /\ (IsLabelled(r) => IsLabelled(r2))
    BY <1>4, <1>12
  <2>2. r.intent[1] = life => Fresh(store, p, lab, todo) /\ Accounted(r, lab, evicted \cup strays)
    BY <1>4
  <2>3. Paired(r2, new)
    <3>1. CASE r2.y = r.y
      BY <1>8, <2>1, <3>1 DEF Paired
    <3>2. CASE \E k \in 1 .. m : /\ r2.y.of = Intent(ids(k)) /\ ids(k) \in DOMAIN store.index
                                 /\ store.index[ids(k)] = p
      <4>1. PICK k \in 1 .. m : /\ r2.y.of = Intent(ids(k)) /\ ids(k) \in DOMAIN store.index
                                /\ store.index[ids(k)] = p
        BY <3>2
      <4>2. CASE r.intent = Intent(ids(k))
        <5>1. r.intent[1] = life
          BY <1>6, <4>2 DEF ids
        <5>2. r.whole
          BY <2>2, <5>1, Zenon DEF Fresh
        <5> QED
          BY <2>1, <4>1, <4>2, <5>2 DEF Paired
      <4>3. CASE r.intent # Intent(ids(k))
        <5>1. Intent(ids(k)) \in new
          BY <1>11, <4>1, <4>3
        <5> QED
          BY <4>1, <5>1 DEF Paired
      <4> QED
        BY <4>2, <4>3
    <3> QED
      BY <1>12, <3>1, <3>2
  <2>4. ASSUME r2.intent[1] = life
        PROVE  Fresh(s2, p, acc.l, todo) /\ Accounted(r2, acc.l, evicted \cup new)
    <3>1. Fresh(store, p, lab, todo) /\ Accounted(r, lab, evicted \cup strays)
      BY <2>1, <2>2, <2>4
    <3>2. Fresh(s2, p, acc.l, todo)
      BY <1>2, <1>12, <2>1, <3>1 DEF Fresh
    <3>3. Accounted(r2, acc.l, evicted \cup new)
      <4>1. CASE IsLabelled(r)
        BY <2>1, <4>1 DEF Accounted
      <4>2. CASE r.intent \in evicted \cup strays
        BY <1>8, <2>1, <4>2 DEF Accounted
      <4>3. CASE HasSlot(lab, IdOf(r.intent))
        <5>1. CASE HasSlot(acc.l, IdOf(r.intent))
          BY <2>1, <5>1 DEF Accounted
        <5>2. CASE \E k \in 1 .. m : ids(k) = IdOf(r.intent)
          <6>1. PICK k \in 1 .. m : ids(k) = IdOf(r.intent)
            BY <5>2
          <6>2. store.index[ids(k)] = p /\ ids(k) \in DOMAIN store.index
            BY <1>10, <3>1, <6>1 DEF Fresh
          <6>3. IsLabelled(r2)
            BY <1>12, <6>2
          <6> QED
            BY <6>3 DEF Accounted
        <5> QED
          BY <1>9, <4>3, <5>1, <5>2
      <4> QED
        BY <3>1, <4>1, <4>2, <4>3 DEF Accounted
    <3> QED
      BY <3>2, <3>3
  <2> QED
    BY <2>1, <2>3, <2>4
<1>16. ASSUME NEW t \in todo
       PROVE  Owed(s2, life, acc.l, t, evicted \cup new)
  <2>1. t = <<life, t[2]>> /\ t[2] \in 0 .. lab.next - 1
        /\ (HasSlot(lab, t[2]) \/ t \in evicted \cup strays \/ t[2] \in DOMAIN store.pending)
    BY <1>4, Zenon DEF Owed
  <2>2. CASE t \in evicted \cup strays
    BY <1>2, <1>8, <2>1, <2>2 DEF Owed
  <2>3. CASE t[2] \in DOMAIN store.pending
    BY <1>2, <1>12, <2>1, <2>3 DEF Owed
  <2>4. CASE HasSlot(lab, t[2])
    <3>1. CASE HasSlot(acc.l, t[2])
      BY <1>2, <2>1, <3>1 DEF Owed
    <3>2. CASE \E k \in 1 .. m : ids(k) = t[2]
      <4>1. PICK k \in 1 .. m : ids(k) = t[2]
        BY <3>2
      <4>2. t = Intent(ids(k))
        BY <1>6, <2>1, <4>1 DEF ids
      <4>3. CASE ids(k) \in DOMAIN store.index
        <5> DEFINE p == store.index[ids(k)]
        <5>1. p \in DOMAIN store.wal
          BY <1>4, <4>3, Zenon DEF Leads
        <5>2. store.wal[p].intent # Intent(ids(k))
          <6> SUFFICES ASSUME store.wal[p].intent = t PROVE FALSE
            BY <4>2
          <6>1. store.wal[p].intent[1] = life
            BY <2>1
          <6>2. Fresh(store, p, lab, todo)
            BY <1>4, <5>1, <6>1
          <6> QED
            BY <6>2 DEF Fresh
        <5>3. t \in new
          BY <1>11, <4>2, <4>3, <5>2
        <5> QED
          BY <1>2, <2>1, <5>3 DEF Owed
      <4>4. CASE ids(k) \notin DOMAIN store.index
        <5>1. t[2] \in DOMAIN s2.pending
          BY <1>12, <4>1, <4>4
        <5> QED
          BY <1>2, <2>1, <5>1 DEF Owed
      <4> QED
        BY <4>3, <4>4
    <3> QED
      BY <1>9, <2>4, <3>1, <3>2
  <2> QED
    BY <2>1, <2>2, <2>3, <2>4
<1>17. StoreInv(s2, life, acc.l, todo, evicted \cup new, new)
  BY <1>4, <1>12, <1>13, <1>14, <1>15, <1>16, Zenon DEF StoreInv
<1> QED
  BY <1>2, <1>17 DEF s2, new, labels

-----------------------------------------------------------------------------
(* The labeler takes an intent.                                            *)

LEMMA LeastIs ==
  ASSUME NEW S \in SUBSET Nat, S # {}
  PROVE  Least(S) \in S
BY LeastNumber, Zenon DEF Least

LEMMA SlotForIs ==
  ASSUME NEW l \in Labelers
  PROVE  /\ SlotFor(l) \in 1 .. MaxOpen
         /\ Full(l) => SlotFor(l) = OldestSlot(l)
         /\ ~Full(l) => SlotFor(l) \notin OpenSlots(l)
<1>1. /\ OpenSlots(l) \in SUBSET (1 .. MaxOpen) /\ OpenSlots(l) \in SUBSET Nat
      /\ \A i \in 1 .. MaxOpen : i \in OpenSlots(l) <=> l.slots[i] \in OpenIntents
  BY OpenSlotsAre
<1>2. MaxOpen \in Nat \ {0} /\ 1 .. MaxOpen \in SUBSET Nat /\ 1 \in 1 .. MaxOpen
  BY LabelerAssumption
<1>3. CASE Full(l)
  <2> DEFINE bars == {l.slots[i].entryBar : i \in OpenSlots(l)}
             S == {i \in OpenSlots(l) : \A j \in OpenSlots(l) : l.slots[i].entryBar <= l.slots[j].entryBar}
  <2>1. bars \in SUBSET Nat
    BY <1>1 DEF OpenIntents
  <2>2. 1 \in OpenSlots(l)
    BY <1>2, <1>3 DEF Full
  <2>3. bars # {}
    BY <2>2
  <2>4. PICK b \in bars : \A c \in bars : b <= c
    BY <2>1, <2>3, LeastNumber
  <2>5. PICK i \in OpenSlots(l) : l.slots[i].entryBar = b
    BY <2>4
  <2>6. i \in S
    BY <2>4, <2>5
  <2>7. S \in SUBSET Nat /\ S \in SUBSET (1 .. MaxOpen)
    BY <1>1
  <2>8. Least(S) \in S
    BY <2>6, <2>7, LeastIs
  <2>9. OldestSlot(l) = Least(S)
    BY DEF OldestSlot
  <2> QED
    BY <1>3, <2>7, <2>8, <2>9 DEF SlotFor
<1>4. CASE ~Full(l)
  <2> DEFINE S == 1 .. MaxOpen \ OpenSlots(l)
  <2>1. S # {} /\ S \in SUBSET Nat
    BY <1>1, <1>2, <1>4 DEF Full
  <2>2. Least(S) \in S
    BY <2>1, LeastIs
  <2> QED
    BY <1>4, <2>2 DEF SlotFor
<1> QED
  BY <1>3, <1>4

(* What register_intent does to the slots.                                 *)
RegisteredWell(l, e, side, l2) ==
  /\ l2 \in Labelers /\ l2.next = l.next + 1
  /\ l2.slots[SlotFor(l)] = [id |-> l.next, side |-> side, entry |-> Entry, entryBar |-> e.count]
  /\ \A i \in 1 .. MaxOpen : i # SlotFor(l) => l2.slots[i] = l.slots[i]
  /\ OpenSlots(l2) = OpenSlots(l) \cup {SlotFor(l)}
  /\ HasSlot(l2, l.next)
  /\ \A i : HasSlot(l, i) => HasSlot(l2, i) \/ (Full(l) /\ l.slots[OldestSlot(l)].id = i)

LEMMA RegisteredIs ==
  ASSUME NEW l \in Labelers, NEW e, e.count \in Nat, NEW side \in {-1, 1}
  PROVE  RegisteredWell(l, e, side, Registered(l, e, Entry, side))
<1> DEFINE l2 == Registered(l, e, Entry, side)
           s == SlotFor(l)
           in == [id |-> l.next, side |-> side, entry |-> Entry, entryBar |-> e.count]
           w == [l.slots EXCEPT ![s] = in]
<1>1. l.slots \in SlotStates /\ l.next \in Nat
  BY DEF Labelers
<1>2. in \in OpenIntents /\ in.id = l.next /\ in # Free
  <2>1. in \in OpenIntents /\ in.id = l.next
    BY <1>1 DEF OpenIntents
  <2> QED
    BY <2>1, FreeIsNoIntent
<1>3. s \in 1 .. MaxOpen /\ (Full(l) => s = OldestSlot(l)) /\ (~Full(l) => s \notin OpenSlots(l))
  BY SlotForIs
<1>4. l2 = [slots |-> w, next |-> l.next + 1]
  BY DEF Registered
<1> HIDE DEF in, s, l2
<1>5. w \in SlotStates /\ w[s] = in /\ \A i \in 1 .. MaxOpen : i # s => w[i] = l.slots[i]
  BY <1>1, <1>2, <1>3 DEF SlotStates
<1> HIDE DEF w
<1>6. l2.slots = w /\ l2.next = l.next + 1 /\ l2 \in Labelers
  BY <1>1, <1>4, <1>5 DEF Labelers
<1>7. OpenSlots(l2) = OpenSlots(l) \cup {s}
  BY <1>2, <1>3, <1>5, <1>6 DEF OpenSlots
<1>8. HasSlot(l2, l.next)
  BY <1>2, <1>5, <1>6, <1>7 DEF HasSlot
<1>9. ASSUME NEW i, HasSlot(l, i)
      PROVE  HasSlot(l2, i) \/ (Full(l) /\ l.slots[OldestSlot(l)].id = i)
  <2>1. PICK k \in OpenSlots(l) : l.slots[k].id = i
    BY <1>9 DEF HasSlot
  <2>2. k \in 1 .. MaxOpen
    BY DEF OpenSlots
  <2>3. CASE k = s
    BY <1>3, <2>1, <2>3
  <2>4. CASE k # s
    BY <1>5, <1>6, <1>7, <2>1, <2>2, <2>4 DEF HasSlot
  <2> QED
    BY <2>3, <2>4
<1> QED
  BY <1>5, <1>6, <1>7, <1>8, <1>9, Zenon DEF RegisteredWell, l2, s, in

-----------------------------------------------------------------------------
(* Each action.                                                            *)

LEMMA StoreParts ==
  ASSUME TrainInv
  PROVE  /\ life \in 1 .. MaxLives /\ life \in Nat /\ tape \in Seq(Trades)
         /\ EngineOk(eng) /\ eng.count \in Nat /\ lab \in Labelers
         /\ IsStore(store) /\ Leads(store) /\ Waiting(store, life) /\ store.entries <= MaxEntries
         /\ \A p \in DOMAIN store.wal :
              /\ store.wal[p].intent[1] <= life /\ Paired(store.wal[p], strays)
              /\ store.wal[p].intent[1] = life =>
                   Fresh(store, p, lab, todo) /\ Accounted(store.wal[p], lab, evicted \cup strays)
         /\ \A t \in todo : Owed(store, life, lab, t, evicted \cup strays)
         /\ \A p \in DOMAIN store.wal : store.wal[p] \in Records /\ p \in Nat
         /\ \A p \in DOMAIN store.wal : IdOf(store.wal[p].intent) \in DOMAIN store.index
         /\ Len(store.wal) \in Nat /\ DOMAIN store.wal = 1 .. Len(store.wal) /\ store.entries = Len(store.wal)
<1>1. /\ life \in 1 .. MaxLives /\ tape \in Seq(Trades)
      /\ EngineOk(eng) /\ lab \in Labelers
      /\ IsStore(store) /\ Leads(store) /\ Waiting(store, life) /\ store.entries <= MaxEntries
      /\ \A p \in DOMAIN store.wal :
           /\ store.wal[p].intent[1] <= life /\ Paired(store.wal[p], strays)
           /\ store.wal[p].intent[1] = life =>
                Fresh(store, p, lab, todo) /\ Accounted(store.wal[p], lab, evicted \cup strays)
      /\ \A t \in todo : Owed(store, life, lab, t, evicted \cup strays)
  BY Zenon DEF TrainInv, StoreInv
<1>2. life \in Nat
  BY <1>1, TrainingAssumption
<1>3. eng.count \in Nat
  BY <1>1 DEF EngineOk
<1>4. store.wal \in Seq(Records) /\ store.entries = Len(store.wal)
  BY <1>1 DEF IsStore
<1>5. /\ Len(store.wal) \in Nat /\ DOMAIN store.wal = 1 .. Len(store.wal)
      /\ \A p \in DOMAIN store.wal : store.wal[p] \in Records /\ p \in Nat
  BY <1>4, WalPlaces
<1>6. \A p \in DOMAIN store.wal : IdOf(store.wal[p].intent) \in DOMAIN store.index
  BY <1>1 DEF Leads, IdsOf
<1> QED
  BY <1>1, <1>2, <1>3, <1>4, <1>5, <1>6, Zenon

LEMMA NewEngineOk == EngineOk(NewEngine) /\ NewEngine.count = 0 /\ NewEngine.acc = 0
BY BarAssumption DEF EngineOk, NewEngine

LEMMA NewLabelerOk == NewLabeler \in Labelers /\ NewLabeler.next = 0 /\ OpenSlots(NewLabeler) = {}
<1>1. NewLabeler.slots = [i \in 1 .. MaxOpen |-> Free] /\ NewLabeler.next = 0
  BY DEF NewLabeler
<1> QED
  BY <1>1 DEF NewLabeler, Labelers, SlotStates, OpenSlots

LEMMA TrainInvInit == Init => TrainInv
<1> SUFFICES ASSUME Init PROVE TrainInv
  OBVIOUS
<1>1. /\ life = 1 /\ eng = NewEngine /\ lab = NewLabeler /\ store = Empty
      /\ todo = {} /\ tape = <<>> /\ evicted = {} /\ strays = {}
  BY DEF Init
<1>2. /\ store = [wal |-> <<>>, index |-> NoEntries, entries |-> 0, pending |-> NoEntries]
  BY <1>1 DEF Empty
<1>3. store.wal = <<>> /\ store.index = NoEntries /\ store.entries = 0 /\ store.pending = NoEntries
  BY <1>2
<1>4. <<>> \in Seq(Records) /\ Len(<<>>) = 0 /\ DOMAIN <<>> = {} /\ <<>> \in Seq(Trades)
  OBVIOUS
<1>5. IsStore(store)
  <2>1. store = [wal |-> store.wal, index |-> store.index, entries |-> store.entries, pending |-> store.pending]
    BY <1>2, <1>3, Zenon
  <2> QED
    BY <1>3, <1>4, <2>1 DEF IsStore
<1>6. DOMAIN NoEntries = {} /\ NoEntries = [i \in {} |-> NoEntries[i]]
  BY DEF NoEntries
<1>7. Leads(store)
  <2>1. IdsOf(store.wal) = {}
    BY <1>3, <1>4 DEF IdsOf
  <2>2. store.index = [i \in IdsOf(store.wal) |-> store.index[i]]
    BY <1>3, <1>6, <2>1, Zenon
  <2> QED
    BY <1>3, <1>4, <1>6, <2>2 DEF Leads
<1>8. Waiting(store, life)
  BY <1>3, <1>6 DEF Waiting
<1>9. 0 <= MaxEntries /\ 1 \in 1 .. MaxLives
  BY StoreAssumption, TrainingAssumption
<1>10. StoreInv(store, life, lab, todo, evicted \cup strays, strays)
  BY <1>1, <1>3, <1>4, <1>5, <1>7, <1>8, <1>9 DEF StoreInv
<1> QED
  BY <1>1, <1>4, <1>9, <1>10, NewEngineOk, NewLabelerOk DEF TrainInv

LEMMA TradeKeeps ==
  ASSUME TrainInv, NEW t \in Trades, Trade(t[1], t[2])
  PROVE  TrainInv'
<1> DEFINE price == t[1]
           qty == t[2]
           closed == Closed(eng, price, qty)
           after == Ingested(eng, price, qty)
           n == Cardinality(closed)
           scan == AfterBars(lab, after, eng.count, n)
           new == strays \cup {i \in {Intent(scan.labels[k].intent.id) : k \in DOMAIN scan.labels} :
                                 LeadsAstray(store, i)}
<1>1. /\ tape' = Append(tape, <<price, qty>>) /\ eng' = after /\ lab' = scan.l
      /\ store' = AllLabelled(store, scan.labels) /\ strays' = new
      /\ life' = life /\ todo' = todo /\ evicted' = evicted
  BY DEF Trade
<1>2. price \in Nat /\ qty \in Nat /\ <<price, qty>> = t
  BY TrainingAssumption
<1>3. /\ life \in 1 .. MaxLives /\ life \in Nat /\ tape \in Seq(Trades) /\ EngineOk(eng)
      /\ eng.count \in Nat /\ lab \in Labelers
  BY StoreParts
<1> HIDE DEF price, qty
<1>4. EngineOk(after) /\ n \in Nat
  <2>1. LET d == Filled(eng, price, qty) \div Threshold
        IN d \in Nat /\ Cardinality(Closed(eng, price, qty)) = d /\ EngineOk(Ingested(eng, price, qty))
    BY <1>2, <1>3, IngestedCounts, Zenon DEF IngestedWell
  <2> QED
    BY <2>1
<1>5. after.count \in Nat
  BY <1>4 DEF EngineOk
<1> HIDE DEF n, after
<1>6. Handled(lab, after, eng.count, n, scan)
  <2>1. eng.count \in Int
    BY <1>3
  <2> QED
    BY <1>3, <1>4, <1>5, <2>1, BarsHandled, Zenon
<1> HIDE DEF scan
<1>7. StoreInv(store, life, lab, todo, evicted \cup strays, strays)
  BY Zenon DEF TrainInv
<1>8. scan.l \in Labelers /\ StoreInv(AllLabelled(store, scan.labels), life, scan.l, todo, evicted \cup new, new)
  BY <1>3, <1>6, <1>7, LabelledStore, Zenon
<1> HIDE DEF new
<1>9. tape' \in Seq(Trades)
  BY <1>1, <1>2, <1>3
<1>10. StoreInv(store', life', lab', todo', evicted' \cup strays', strays')
  BY <1>1, <1>8, Zenon
<1> QED
  BY <1>1, <1>3, <1>4, <1>8, <1>9, <1>10 DEF TrainInv

LEMMA RegisterKeeps ==
  ASSUME TrainInv, NEW side \in {-1, 1}, Register(side)
  PROVE  TrainInv'
<1> DEFINE l2 == Registered(lab, eng, Entry, side)
           gone == IF Full(lab) THEN {Intent(lab.slots[OldestSlot(lab)].id)} ELSE {}
           t0 == Intent(lab.next)
           lost == evicted \cup strays
           lost2 == (evicted \cup gone) \cup strays
<1>1. /\ lab' = l2 /\ evicted' = evicted \cup gone /\ todo' = todo \cup {t0}
      /\ life' = life /\ eng' = eng /\ store' = store /\ tape' = tape /\ strays' = strays
  BY DEF Register
<1>2. /\ life \in 1 .. MaxLives /\ tape \in Seq(Trades) /\ EngineOk(eng) /\ eng.count \in Nat /\ lab \in Labelers
      /\ IsStore(store) /\ Leads(store) /\ Waiting(store, life) /\ store.entries <= MaxEntries
      /\ \A p \in DOMAIN store.wal :
           /\ store.wal[p].intent[1] <= life /\ Paired(store.wal[p], strays)
           /\ store.wal[p].intent[1] = life => Fresh(store, p, lab, todo) /\ Accounted(store.wal[p], lab, lost)
      /\ \A t \in todo : Owed(store, life, lab, t, lost)
      /\ \A p \in DOMAIN store.wal : store.wal[p] \in Records
  BY StoreParts
<1>3. /\ l2 \in Labelers /\ l2.next = lab.next + 1 /\ HasSlot(l2, lab.next)
      /\ \A i : HasSlot(lab, i) => HasSlot(l2, i) \/ (Full(lab) /\ lab.slots[OldestSlot(lab)].id = i)
  <2>1. RegisteredWell(lab, eng, side, l2)
    BY <1>2, RegisteredIs
  <2> QED
    BY <2>1, Zenon DEF RegisteredWell
<1>4. lab.next \in Nat
  BY <1>2 DEF Labelers
<1>5. t0 = <<life, lab.next>> /\ t0[2] = lab.next
  BY DEF Intent
<1>6. \A i : HasSlot(lab, i) => HasSlot(l2, i) \/ <<life, i>> \in lost2
  <2>1. Full(lab) => Intent(lab.slots[OldestSlot(lab)].id) \in lost2
    OBVIOUS
  <2>2. \A i : Intent(i) = <<life, i>>
    BY DEF Intent
  <2> HIDE DEF lost2
  <2> QED
    BY <1>3, <2>1, <2>2
<1>7. lost \subseteq lost2
  OBVIOUS
<1> HIDE DEF l2, lost, lost2, t0, gone
<1>8. ASSUME NEW p \in DOMAIN store.wal, store.wal[p].intent[1] = life
      PROVE  Fresh(store, p, l2, todo \cup {t0}) /\ Accounted(store.wal[p], l2, lost2)
  <2> DEFINE intent == store.wal[p].intent
  <2>1. Fresh(store, p, lab, todo) /\ Accounted(store.wal[p], lab, lost)
    BY <1>2, <1>8
  <2>2. store.wal[p] \in Records
    BY <1>2
  <2>3. intent \in Intents
    BY <2>2 DEF Records
  <2>4. intent = <<life, IdOf(intent)>> /\ IdOf(intent) \in Nat /\ intent[2] = IdOf(intent)
    BY <1>8, <2>3 DEF Intents, IdOf
  <2>5. IdOf(intent) < lab.next
    BY <2>1 DEF Fresh
  <2> HIDE DEF intent
  <2>6. intent # t0
    BY <1>4, <1>5, <2>4, <2>5
  <2>7. Fresh(store, p, l2, todo \cup {t0})
    BY <1>3, <1>4, <2>1, <2>4, <2>5, <2>6 DEF Fresh, intent
  <2>8. Accounted(store.wal[p], l2, lost2)
    BY <1>6, <1>7, <2>1, <2>4 DEF Accounted, intent
  <2> QED
    BY <2>7, <2>8
<1>9. ASSUME NEW t \in todo \cup {t0}
      PROVE  Owed(store, life, l2, t, lost2)
  <2>1. CASE t = t0
    BY <1>3, <1>4, <1>5, <2>1 DEF Owed
  <2>2. CASE t \in todo
    <3>1. Owed(store, life, lab, t, lost)
      BY <1>2, <2>2
    <3> QED
      BY <1>3, <1>4, <1>6, <1>7, <3>1 DEF Owed
  <2> QED
    BY <2>1, <2>2
<1>10. StoreInv(store, life, l2, todo \cup {t0}, lost2, strays)
  BY <1>2, <1>8, <1>9, Zenon DEF StoreInv
<1>11. StoreInv(store', life', lab', todo', evicted' \cup strays', strays')
  BY <1>1, <1>10, Zenon DEF lost2
<1> QED
  BY <1>1, <1>2, <1>3, <1>11 DEF TrainInv

LEMMA AppendKeeps ==
  ASSUME TrainInv, NEW in \in todo, AppendFeatures(in)
  PROVE  TrainInv'
<1> DEFINE s2 == Appended(store, in)
           lost == evicted \cup strays
           due == todo \ {in}
<1>1. /\ store' = s2 /\ todo' = due
      /\ life' = life /\ eng' = eng /\ lab' = lab /\ tape' = tape /\ evicted' = evicted /\ strays' = strays
  BY DEF AppendFeatures
<1>2. /\ life \in 1 .. MaxLives /\ life \in Nat /\ tape \in Seq(Trades) /\ EngineOk(eng) /\ lab \in Labelers
      /\ IsStore(store) /\ Leads(store) /\ Waiting(store, life) /\ store.entries <= MaxEntries
      /\ \A p \in DOMAIN store.wal :
           /\ store.wal[p].intent[1] <= life /\ Paired(store.wal[p], strays)
           /\ store.wal[p].intent[1] = life => Fresh(store, p, lab, todo) /\ Accounted(store.wal[p], lab, lost)
      /\ \A t \in todo : Owed(store, life, lab, t, lost)
      /\ \A p \in DOMAIN store.wal : store.wal[p] \in Records
      /\ \A p \in DOMAIN store.wal : IdOf(store.wal[p].intent) \in DOMAIN store.index
      /\ Len(store.wal) \in Nat /\ store.entries = Len(store.wal)
  BY StoreParts
<1> HIDE DEF lost
<1>3. StoreInv(s2, life, lab, due, lost, strays)
  <2>1. CASE ~HasRoom(store)
    <3>1. s2 = store
      BY <2>1 DEF Appended
    <3>2. \A p \in DOMAIN store.wal : Fresh(store, p, lab, todo) => Fresh(store, p, lab, due)
      BY DEF Fresh
    <3>3. due \subseteq todo
      OBVIOUS
    <3> HIDE DEF due, s2
    <3>4. StoreInv(store, life, lab, due, lost, strays)
      BY <1>2, <3>2, <3>3 DEF StoreInv
    <3> QED
      BY <3>1, <3>4
  <2>2. CASE HasRoom(store)
    <3> DEFINE i == in[2]
               pos == Len(store.wal) + 1
               w == store.wal
    <3>1. in = <<life, i>> /\ i \in Nat /\ i < lab.next /\ Owed(store, life, lab, in, lost)
      <4>1. lab.next \in Nat
        BY <1>2 DEF Labelers
      <4>2. Owed(store, life, lab, in, lost)
        BY <1>2
      <4> QED
        BY <4>1, <4>2 DEF Owed
    <3>2. s2 = Appended(store, <<life, i>>)
      BY <3>1
    <3> HIDE DEF s2, i
    <3>3. /\ IsStore(s2) /\ Leads(s2) /\ Waiting(s2, life)
          /\ Len(s2.wal) = pos /\ \A p \in DOMAIN w : s2.wal[p] = w[p] /\ p # pos
          /\ DOMAIN s2.wal = DOMAIN w \cup {pos}
          /\ s2.wal[pos].intent = <<life, i>> /\ s2.wal[pos].whole = TRUE
          /\ i \in DOMAIN store.pending => s2.wal[pos].y.of = <<life, i>>
          /\ i \notin DOMAIN store.pending => s2.wal[pos].y.of = <<>>
          /\ s2.index[i] = pos
          /\ \A j \in DOMAIN store.index : j # i => s2.index[j] = store.index[j]
          /\ DOMAIN s2.pending = DOMAIN store.pending \ {i}
      <4>1. life \in Nat /\ i \in Nat /\ HasRoom(store)
        BY <1>2, <2>2, <3>1
      <4>2. OneMore(store, life, i, s2)
        BY <1>2, <3>2, <4>1, AppendedIs
      <4> QED
        BY <4>2, Zenon DEF OneMore
    <3>4. IdOf(<<life, i>>) = i /\ <<life, i>>[1] = life /\ <<life, i>> # <<>>
      BY IntentIsNotEmpty DEF IdOf
    <3> HIDE DEF w, pos
    <3>5. s2.entries <= MaxEntries
      <4>1. s2.entries = pos /\ pos = store.entries + 1 /\ store.entries \in Nat
        BY <1>2, <3>3 DEF IsStore, pos
      <4> QED
        BY <2>2, <4>1, StoreAssumption DEF HasRoom
    <3>6. ASSUME NEW p \in DOMAIN w
          PROVE  /\ s2.wal[p].intent[1] <= life /\ Paired(s2.wal[p], strays)
                 /\ s2.wal[p].intent[1] = life => Fresh(s2, p, lab, due) /\ Accounted(s2.wal[p], lab, lost)
      <4>1. s2.wal[p] = w[p] /\ w[p].intent[1] <= life /\ Paired(w[p], strays)
            /\ (w[p].intent[1] = life => Fresh(store, p, lab, todo) /\ Accounted(w[p], lab, lost))
        BY <1>2, <3>3 DEF w
      <4>2. ASSUME w[p].intent[1] = life
            PROVE  Fresh(s2, p, lab, due)
        <5> DEFINE intent == w[p].intent
        <5>1. Fresh(store, p, lab, todo)
          BY <4>1, <4>2
        <5>2. intent \in Intents
          BY <1>2 DEF w, Records
        <5>3. intent = <<life, IdOf(intent)>> /\ IdOf(intent) \in DOMAIN store.index
          BY <1>2, <4>2, <5>2 DEF Intents, IdOf, w
        <5>4. intent # in
          BY <5>1 DEF Fresh, w
        <5> HIDE DEF intent
        <5>5. IdOf(intent) # i
          BY <3>1, <5>3, <5>4
        <5>6. s2.index[IdOf(intent)] = store.index[IdOf(intent)]
          BY <3>3, <5>3, <5>5
        <5> QED
          BY <4>1, <5>1, <5>6 DEF Fresh, intent, w
      <4> QED
        BY <4>1, <4>2
    <3>7. /\ s2.wal[pos].intent[1] <= life /\ Paired(s2.wal[pos], strays)
          /\ s2.wal[pos].intent[1] = life => Fresh(s2, pos, lab, due) /\ Accounted(s2.wal[pos], lab, lost)
      <4>1. s2.wal[pos].intent[1] <= life
        BY <1>2, <3>3, <3>4
      <4>2. Paired(s2.wal[pos], strays)
        BY <3>3 DEF Paired
      <4>3. Fresh(s2, pos, lab, due)
        BY <3>1, <3>3, <3>4 DEF Fresh
      <4>4. Accounted(s2.wal[pos], lab, lost)
        <5>1. CASE i \in DOMAIN store.pending
          BY <3>3, <3>4, <5>1 DEF Accounted, IsLabelled
        <5>2. CASE i \notin DOMAIN store.pending
          <6>1. HasSlot(lab, i) \/ <<life, i>> \in lost
            BY <3>1, <5>2 DEF Owed, i
          <6> QED
            BY <3>3, <3>4, <6>1 DEF Accounted
        <5> QED
          BY <5>1, <5>2
      <4> QED
        BY <4>1, <4>2, <4>3, <4>4
    <3>8. ASSUME NEW t \in due
          PROVE  Owed(s2, life, lab, t, lost)
      <4>1. Owed(store, life, lab, t, lost) /\ t # in
        BY <1>2
      <4>2. t[2] # i
        BY <3>1, <4>1 DEF Owed
      <4> QED
        BY <3>3, <4>1, <4>2 DEF Owed
    <3>9. \A p \in DOMAIN s2.wal :
            /\ s2.wal[p].intent[1] <= life /\ Paired(s2.wal[p], strays)
            /\ s2.wal[p].intent[1] = life => Fresh(s2, p, lab, due) /\ Accounted(s2.wal[p], lab, lost)
      <4>1. \A p \in DOMAIN s2.wal : p = pos \/ p \in DOMAIN w
        BY <3>3
      <4> QED
        BY <3>6, <3>7, <4>1, Zenon
    <3> HIDE DEF due
    <3> QED
      BY <3>3, <3>5, <3>8, <3>9, Zenon DEF StoreInv
  <2> QED
    BY <2>1, <2>2
<1>4. StoreInv(store', life', lab', todo', evicted' \cup strays', strays')
  BY <1>1, <1>3, Zenon DEF lost
<1> QED
  BY <1>1, <1>2, <1>4 DEF TrainInv

LEMMA CompactKeeps ==
  ASSUME TrainInv, Compact
  PROVE  TrainInv'
<1> DEFINE s2 == Compacted(store)
           lost == evicted \cup strays
<1>1. /\ store' = s2 /\ todo' = todo
      /\ life' = life /\ eng' = eng /\ lab' = lab /\ tape' = tape /\ evicted' = evicted /\ strays' = strays
  BY DEF Compact
<1>2. /\ life \in 1 .. MaxLives /\ life \in Nat /\ tape \in Seq(Trades) /\ EngineOk(eng) /\ lab \in Labelers
      /\ IsStore(store) /\ Leads(store) /\ Waiting(store, life) /\ store.entries <= MaxEntries
      /\ \A p \in DOMAIN store.wal :
           /\ store.wal[p].intent[1] <= life /\ Paired(store.wal[p], strays)
           /\ store.wal[p].intent[1] = life => Fresh(store, p, lab, todo) /\ Accounted(store.wal[p], lab, lost)
      /\ \A t \in todo : Owed(store, life, lab, t, lost)
      /\ Len(store.wal) \in Nat /\ store.entries = Len(store.wal)
  BY StoreParts
<1>3. StoreInv(store, life, lab, todo, lost, strays)
  BY Zenon DEF TrainInv
<1>4. \/ s2 = store
      \/ /\ IsStore(s2) /\ Leads(s2) /\ Waiting(s2, life) /\ s2.pending = store.pending
         /\ Len(s2.wal) <= Len(store.wal)
         /\ \A q \in DOMAIN s2.wal : /\ \E p \in DOMAIN store.wal : s2.wal[q] = store.wal[p]
                                     /\ s2.index[IdOf(s2.wal[q].intent)] = q
  BY <1>2, CompactedIs
<1> HIDE DEF s2, lost
<1>5. CASE s2 = store
  BY <1>1, <1>2, <1>3, <1>5 DEF TrainInv, lost
<1>6. CASE /\ IsStore(s2) /\ Leads(s2) /\ Waiting(s2, life) /\ s2.pending = store.pending
           /\ Len(s2.wal) <= Len(store.wal)
           /\ \A q \in DOMAIN s2.wal : /\ \E p \in DOMAIN store.wal : s2.wal[q] = store.wal[p]
                                       /\ s2.index[IdOf(s2.wal[q].intent)] = q
  <2>1. s2.entries <= MaxEntries
    <3>1. s2.entries = Len(s2.wal) /\ s2.wal \in Seq(Records)
      BY <1>6 DEF IsStore
    <3>2. Len(s2.wal) \in Nat
      BY <3>1
    <3> QED
      BY <1>2, <1>6, <3>1, <3>2, StoreAssumption
  <2>2. ASSUME NEW q \in DOMAIN s2.wal
        PROVE  /\ s2.wal[q].intent[1] <= life /\ Paired(s2.wal[q], strays)
               /\ s2.wal[q].intent[1] = life => Fresh(s2, q, lab, todo) /\ Accounted(s2.wal[q], lab, lost)
    <3>1. PICK p \in DOMAIN store.wal : s2.wal[q] = store.wal[p]
      BY <1>6
    <3>2. /\ store.wal[p].intent[1] <= life /\ Paired(store.wal[p], strays)
          /\ store.wal[p].intent[1] = life => Fresh(store, p, lab, todo) /\ Accounted(store.wal[p], lab, lost)
      BY <1>2
    <3>3. s2.index[IdOf(s2.wal[q].intent)] = q
      BY <1>6
    <3>4. Fresh(store, p, lab, todo) => Fresh(s2, q, lab, todo)
      BY <3>1, <3>3 DEF Fresh
    <3> QED
      BY <3>1, <3>2, <3>4
  <2>3. \A t \in todo : Owed(s2, life, lab, t, lost)
    BY <1>2, <1>6 DEF Owed
  <2>4. StoreInv(s2, life, lab, todo, lost, strays)
    BY <1>6, <2>1, <2>2, <2>3, Zenon DEF StoreInv
  <2>5. StoreInv(store', life', lab', todo', evicted' \cup strays', strays')
    BY <1>1, <2>4, Zenon DEF lost
  <2> QED
    BY <1>1, <1>2, <2>5 DEF TrainInv
<1> QED
  BY <1>4, <1>5, <1>6

(* A restart over a file whose records are those of the store, or torn.    *)
LEMMA RestartKeeps ==
  ASSUME TrainInv, NEW w \in Seq(Records), RestartOver(w), Len(w) <= MaxEntries,
         \A q \in DOMAIN w : w[q].intent[1] <= life /\ Paired(w[q], strays)
  PROVE  TrainInv'
<1> DEFINE s2 == Rebuilt(w)
<1>1. /\ life < MaxLives /\ life' = life + 1 /\ store' = s2 /\ eng' = NewEngine /\ lab' = NewLabeler
      /\ todo' = {} /\ tape' = <<>> /\ evicted' = {} /\ strays' = strays
  BY DEF RestartOver
<1>2. life \in 1 .. MaxLives /\ life \in Nat /\ life' \in 1 .. MaxLives
  BY <1>1, StoreParts, TrainingAssumption
<1>3. IsStore(s2) /\ Leads(s2) /\ Waiting(s2, life') /\ s2.wal = w
  BY RebuiltIs, Zenon
<1> HIDE DEF s2
<1>4. s2.entries = Len(w)
  BY <1>3 DEF IsStore
<1>5. \A q \in DOMAIN w : w[q] \in Records
  BY WalPlaces
<1>6. ASSUME NEW q \in DOMAIN s2.wal
      PROVE  /\ s2.wal[q].intent[1] <= life' /\ Paired(s2.wal[q], strays)
             /\ s2.wal[q].intent[1] # life'
  <2>1. s2.wal[q].intent[1] \in Nat
    BY <1>3, <1>5 DEF Records, Intents
  <2>2. s2.wal[q].intent[1] <= life /\ Paired(s2.wal[q], strays)
    BY <1>3
  <2> QED
    BY <1>1, <1>2, <2>1, <2>2
<1>7. StoreInv(s2, life', NewLabeler, {}, {} \cup strays, strays)
  <2>1. \A t \in {} : Owed(s2, life', NewLabeler, t, {} \cup strays)
    OBVIOUS
  <2>2. s2.entries <= MaxEntries
    BY <1>4
  <2> QED
    BY <1>3, <1>6, <2>1, <2>2, Zenon DEF StoreInv
<1>8. StoreInv(store', life', lab', todo', evicted' \cup strays', strays')
  BY <1>1, <1>7, Zenon
<1>9. <<>> \in Seq(Trades)
  OBVIOUS
<1> QED
  BY <1>1, <1>2, <1>8, <1>9, NewEngineOk, NewLabelerOk DEF TrainInv

LEMMA CrashKeeps ==
  ASSUME TrainInv, Crash
  PROVE  TrainInv'
<1>1. store.wal \in Seq(Records) /\ Len(store.wal) <= MaxEntries
  BY StoreParts DEF IsStore
<1>2. \A q \in DOMAIN store.wal : store.wal[q].intent[1] <= life /\ Paired(store.wal[q], strays)
  BY StoreParts
<1> QED
  BY <1>1, <1>2, RestartKeeps DEF Crash

LEMMA CrashInAppendKeeps ==
  ASSUME TrainInv, NEW in \in todo, CrashInAppend(in)
  PROVE  TrainInv'
<1> DEFINE w == store.wal
           r == Record(in, FALSE)
           w2 == TornAppend(store, in)
<1>1. HasRoom(store) /\ RestartOver(w2)
  BY DEF CrashInAppend
<1>2. w \in Seq(Records) /\ Len(w) = store.entries /\ life \in Nat /\ lab \in Labelers
  BY StoreParts DEF IsStore
<1>3. \A q \in DOMAIN w : w[q].intent[1] <= life /\ Paired(w[q], strays)
  BY StoreParts
<1>4. Owed(store, life, lab, in, evicted \cup strays)
  BY StoreParts
<1>5. in = <<life, in[2]>> /\ in[2] \in Nat /\ in \in Intents
  <2>1. lab.next \in Nat
    BY <1>2 DEF Labelers
  <2>2. in = <<life, in[2]>> /\ in[2] \in Nat
    BY <1>4, <2>1 DEF Owed
  <2> QED
    BY <1>2, <2>2 DEF Intents
<1>6. r = [intent |-> in, whole |-> FALSE, y |-> Unlabelled]
  BY DEF Record
<1>7. Unlabelled \in Ys /\ Unlabelled.of = <<>>
  BY DEF Unlabelled, Ys
<1>8. r \in Records /\ r.intent = in /\ r.y = Unlabelled
  <2> DEFINE q == [intent |-> in, whole |-> FALSE, y |-> Unlabelled]
  <2>1. q \in Records /\ q.intent = in /\ q.y = Unlabelled
    BY <1>5, <1>7 DEF Records
  <2> QED
    BY <1>6, <2>1, Zenon
<1>9. r.intent[1] <= life /\ Paired(r, strays)
  <2>1. in[1] = life
    BY <1>5
  <2> HIDE DEF r
  <2> QED
    BY <1>2, <1>7, <1>8, <2>1 DEF Paired
<1> HIDE DEF w, r
<1>10. w2 = Append(w, r)
  BY DEF TornAppend, w, r
<1> HIDE DEF w2
<1>11. w2 \in Seq(Records) /\ Len(w2) = Len(w) + 1 /\ Len(w) \in Nat
  BY <1>2, <1>8, <1>10
<1>12. \A q \in DOMAIN w2 : w2[q] = r \/ (q \in DOMAIN w /\ w2[q] = w[q])
  BY <1>2, <1>8, <1>10
<1>13. Len(w2) <= MaxEntries
  BY <1>1, <1>2, <1>11, StoreAssumption DEF HasRoom, w
<1>14. \A q \in DOMAIN w2 : w2[q].intent[1] <= life /\ Paired(w2[q], strays)
  BY <1>3, <1>9, <1>12
<1> QED
  BY <1>1, <1>11, <1>13, <1>14, RestartKeeps

LEMMA CrashInCompactionKeeps ==
  ASSUME TrainInv, NEW k, CrashInCompaction(k)
  PROVE  TrainInv'
<1> DEFINE w == TornCompaction(store, k)
<1>1. k \in 1 .. Len(Kept(store)) /\ Len(Kept(store)) < store.entries /\ RestartOver(w)
  BY DEF CrashInCompaction
<1>2. /\ IsStore(store) /\ Leads(store) /\ store.entries <= MaxEntries /\ store.entries = Len(store.wal)
      /\ \A q \in DOMAIN store.wal : store.wal[q].intent[1] <= life /\ Paired(store.wal[q], strays)
  BY StoreParts
<1>3. /\ w \in Seq(Records) /\ Len(w) = Len(store.wal)
      /\ \A q \in DOMAIN w : \E p \in DOMAIN store.wal : w[q] = store.wal[p]
  BY <1>1, <1>2, TornCompactionIs
<1> HIDE DEF w
<1>4. \A q \in DOMAIN w : w[q].intent[1] <= life /\ Paired(w[q], strays)
  BY <1>2, <1>3
<1> QED
  BY <1>1, <1>2, <1>3, <1>4, RestartKeeps

-----------------------------------------------------------------------------
(* The theorems.                                                           *)

LEMMA TrainInvNext == TrainInv /\ [Next]_vars => TrainInv'
<1> SUFFICES ASSUME TrainInv, [Next]_vars PROVE TrainInv'
  OBVIOUS
<1>1. CASE \E t \in Trades : Trade(t[1], t[2])
  BY <1>1, TradeKeeps
<1>2. CASE \E side \in {-1, 1} : Register(side)
  BY <1>2, RegisterKeeps
<1>3. CASE \E in \in todo : AppendFeatures(in) \/ CrashInAppend(in)
  BY <1>3, AppendKeeps, CrashInAppendKeeps
<1>4. CASE Compact
  BY <1>4, CompactKeeps
<1>5. CASE Crash
  BY <1>5, CrashKeeps
<1>6. CASE \E k \in 1 .. MaxEntries : CrashInCompaction(k)
  BY <1>6, CrashInCompactionKeeps
<1>7. CASE UNCHANGED vars
  BY <1>7 DEF vars, TrainInv
<1> QED
  BY <1>1, <1>2, <1>3, <1>4, <1>5, <1>6, <1>7 DEF Next

LEMMA TrainInvHolds == Spec => []TrainInv
BY TrainInvInit, TrainInvNext, PTL DEF Spec

LEMMA TrainInvTyped == TrainInv => TypeOK
<1> SUFFICES ASSUME TrainInv PROVE TypeOK
  OBVIOUS
<1>1. /\ life \in 1 .. MaxLives /\ tape \in Seq(Trades) /\ lab \in Labelers
      /\ store.entries = Len(store.wal) /\ store.entries <= MaxEntries
      /\ \A t \in todo : Owed(store, life, lab, t, evicted \cup strays)
  BY StoreParts
<1>2. \A t \in todo : t = <<life, t[2]>> /\ t[2] \in 0 .. (lab.next - 1)
  BY <1>1, Zenon DEF Owed
<1>3. todo \subseteq {<<life, i>> : i \in 0 .. (lab.next - 1)}
  BY <1>2, Zenon
<1> QED
  BY <1>1, <1>3 DEF TypeOK

LEMMA TrainInvPairs == TrainInv => PairsMatch
<1> SUFFICES ASSUME TrainInv, NEW r \in Exported(store) PROVE r.y.of \in strays \/ (r.y.of = r.intent /\ r.whole)
  BY DEF PairsMatch
<1>1. PICK i \in DOMAIN store.index : r = store.wal[store.index[i]] /\ IsLabelled(r)
  BY DEF Exported
<1>2. store.index[i] \in DOMAIN store.wal
  BY <1>1, StoreParts, Zenon DEF Leads
<1>3. Paired(r, strays)
  BY <1>1, <1>2, StoreParts
<1> QED
  BY <1>1, <1>3 DEF Paired, IsLabelled

LEMMA TrainInvAccounts == TrainInv => UnlabelledIsOpenOrEvicted
<1> SUFFICES ASSUME TrainInv, NEW p \in DOMAIN store.wal, store.wal[p].intent[1] = life
             PROVE  \/ IsLabelled(store.wal[p])
                    \/ IsOpen(IdOf(store.wal[p].intent)) \/ store.wal[p].intent \in evicted \cup strays
  BY Zenon DEF UnlabelledIsOpenOrEvicted
<1>1. Accounted(store.wal[p], lab, evicted \cup strays)
  BY StoreParts
<1> QED
  BY <1>1 DEF Accounted, HasSlot, IsOpen

(* The entries the store counts are the records of the file, never more    *)
(* than it has room for, and features are due only of intents this run has *)
(* registered (feature_store.py, append_features).                         *)
THEOREM TypeCorrect == Spec => []TypeOK
BY TrainInvHolds, TrainInvTyped, PTL

(* A row export_training_data hands out has the features and the label of  *)
(* one intent, through compactions, torn writes and restarts, unless its   *)
(* id was used by an earlier run too and it was resolved without features  *)
(* in the index.                                                           *)
THEOREM RowsPairRightly == Spec => []PairsMatch
BY TrainInvHolds, TrainInvPairs, PTL

(* A record of this run without a label is of an intent that is open or    *)
(* was evicted, or its label went astray: a label that came before its     *)
(* features waits for them (stitch_label), through any compaction.         *)
THEOREM LabelsAreNotLost == Spec => []UnlabelledIsOpenOrEvicted
BY TrainInvHolds, TrainInvAccounts, PTL

-----------------------------------------------------------------------------
(* The dollar volume of a tape.                                            *)

ValueAt(t, k) == DollarValue(t[k][1], t[k][2])
Worth(t, n) == SumFunctionOnSet([k \in 1 .. n |-> ValueAt(t, k)], 1 .. n)

(* The trades whose volume falls into a bar, and their prices.             *)
FallsInto(t, n, bar) ==
  /\ Worth(t, n - 1) < Worth(t, n)
  /\ Worth(t, n - 1) < (bar + 1) * Threshold
  /\ Worth(t, n) > bar * Threshold
FallenInto(t, bar) == {n \in DOMAIN t : FallsInto(t, n, bar)}
PricesIn(t, bar) == {t[n][1] : n \in FallenInto(t, bar)}
CloseOf(t, bar) == t[CHOOSE n \in FallenInto(t, bar) : \A m \in FallenInto(t, bar) : m <= n][1]

LEMMA TapeIs ==
  /\ \A n : Volume(n) = Worth(tape, n)
  /\ \A bar : TradesOf(bar) = FallenInto(tape, bar)
  /\ \A bar : PricesOf(bar) = PricesIn(tape, bar)
  /\ \A bar : LastOf(bar) = CloseOf(tape, bar)
<1>1. \A n : Volume(n) = Worth(tape, n)
  BY DEF Volume, Worth, ValueAt
<1>2. \A bar : TradesOf(bar) = FallenInto(tape, bar)
  BY <1>1 DEF TradesOf, FallenInto, FallsInto
<1>3. \A bar : PricesOf(bar) = PricesIn(tape, bar)
  BY <1>2 DEF PricesOf, PricesIn
<1>4. \A bar : LastOf(bar) = CloseOf(tape, bar)
  BY <1>2 DEF LastOf, CloseOf
<1> QED
  BY <1>1, <1>2, <1>3, <1>4

LEMMA ValueIsNatural ==
  ASSUME NEW t \in Seq(Trades), NEW k \in 1 .. Len(t)
  PROVE  ValueAt(t, k) \in Nat
<1>1. t[k] \in Trades
  OBVIOUS
<1>2. t[k][1] \in Nat /\ t[k][2] \in Nat
  BY <1>1, TrainingAssumption
<1>3. t[k][1] * t[k][2] \in Nat
  BY <1>2
<1> QED
  BY <1>3, BarAssumption, Division DEF ValueAt, DollarValue

LEMMA WorthIsSum == \A t, n : Worth(t, n) = SumOf([k \in 1 .. n |-> ValueAt(t, k)], 1 .. n)
BY DEF Worth, SumFunctionOnSet, FoldFunctionOnSet, SumOf, MapThenSumSet

LEMMA WorthSteps ==
  ASSUME NEW t \in Seq(Trades)
  PROVE  /\ Worth(t, 0) = 0
         /\ \A n \in 0 .. Len(t) : Worth(t, n) \in Nat
         /\ \A n \in 1 .. Len(t) : Worth(t, n) = Worth(t, n - 1) + ValueAt(t, n)
<1> DEFINE f(n) == [k \in 1 .. n |-> ValueAt(t, k)]
<1>1. Len(t) \in Nat
  OBVIOUS
<1>2. \A n \in Nat : IsFiniteSet(1 .. n)
  <2> SUFFICES ASSUME NEW n \in Nat PROVE IsFiniteSet(1 .. n)
    OBVIOUS
  <2>1. 1 \in Int /\ n \in Int
    OBVIOUS
  <2> QED
    BY <2>1, FS_Interval
<1>3. \A n \in 0 .. Len(t) : \A k \in 1 .. n : f(n)[k] = ValueAt(t, k) /\ f(n)[k] \in Nat
  BY <1>1, ValueIsNatural
<1>4. \A n : Worth(t, n) = SumOf(f(n), 1 .. n)
  BY WorthIsSum, Zenon
<1>5. Worth(t, 0) = 0
  <2>1. 1 .. 0 = {} /\ 0 \in Nat
    OBVIOUS
  <2>2. IsFiniteSet(1 .. 0)
    BY <1>2, <2>1
  <2>3. \A x \in 1 .. 0 : f(0)[x] = 0
    OBVIOUS
  <2> HIDE DEF f
  <2>4. SumOf(f(0), 1 .. 0) = 0
    BY <2>2, <2>3, SumOfZeros
  <2> QED
    BY <1>4, <2>4
<1> HIDE DEF f
<1>6. \A n \in 0 .. Len(t) : Worth(t, n) \in Nat
  <2> SUFFICES ASSUME NEW n \in 0 .. Len(t) PROVE Worth(t, n) \in Nat
    OBVIOUS
  <2>1. n \in Nat /\ IsFiniteSet(1 .. n)
    BY <1>1, <1>2
  <2>2. \A x \in 1 .. n : f(n)[x] \in Nat
    BY <1>3
  <2>3. SumOf(f(n), 1 .. n) \in Nat
    BY <2>1, <2>2, SumType
  <2> QED
    BY <1>4, <2>3
<1>7. ASSUME NEW n \in 1 .. Len(t)
      PROVE  Worth(t, n) = Worth(t, n - 1) + ValueAt(t, n)
  <2>1. n \in Nat /\ n - 1 \in Nat /\ n \in 0 .. Len(t) /\ n - 1 \in 0 .. Len(t)
        /\ n \in 1 .. n /\ (1 .. n) \ {n} = 1 .. n - 1
    BY <1>1
  <2>2. IsFiniteSet(1 .. n) /\ IsFiniteSet(1 .. n - 1)
    BY <1>2, <2>1
  <2>3. \A x \in 1 .. n : f(n)[x] \in Nat
    BY <1>3, <2>1
  <2>4. SumOf(f(n), 1 .. n) = f(n)[n] + SumOf(f(n), (1 .. n) \ {n})
    BY <2>1, <2>2, <2>3, SumTakeOut
  <2>5. \A x \in 1 .. n - 1 : f(n - 1)[x] \in Nat /\ f(n)[x] = f(n - 1)[x]
    <3>1. \A x \in 1 .. n - 1 : x \in 1 .. n
      BY <2>1
    <3> QED
      BY <1>3, <2>1, <3>1
  <2>6. SumOf(f(n - 1), 1 .. n - 1) = SumOf(f(n), 1 .. n - 1)
    BY <2>2, <2>5, SumSame
  <2>7. Worth(t, n) = f(n)[n] + SumOf(f(n), 1 .. n - 1)
    BY <1>4, <2>1, <2>4
  <2>8. Worth(t, n) = f(n)[n] + Worth(t, n - 1)
    BY <1>4, <2>6, <2>7
  <2>9. f(n)[n] = ValueAt(t, n) /\ f(n)[n] \in Nat /\ Worth(t, n - 1) \in Nat
    BY <1>3, <1>6, <2>1
  <2> QED
    BY <2>8, <2>9
<1> QED
  BY <1>5, <1>6, <1>7

(* The volume only grows.                                                  *)
LEMMA WorthGrows ==
  ASSUME NEW t \in Seq(Trades), NEW m \in 0 .. Len(t), NEW n \in 0 .. Len(t), m <= n
  PROVE  Worth(t, m) <= Worth(t, n)
<1> DEFINE Bad == {k \in 0 .. Len(t) : m <= k /\ ~(Worth(t, m) <= Worth(t, k))}
<1>1. Len(t) \in Nat /\ m \in Nat /\ n \in Nat
  OBVIOUS
<1>2. Bad = {}
  <2> SUFFICES ASSUME Bad # {} PROVE FALSE
    OBVIOUS
  <2>1. PICK k \in Bad : \A j \in Bad : k <= j
    <3>1. Bad \in SUBSET Nat
      OBVIOUS
    <3> QED
      BY <3>1, LeastNumber
  <2>2. k \in 0 .. Len(t) /\ m <= k /\ ~(Worth(t, m) <= Worth(t, k))
    OBVIOUS
  <2>3. Worth(t, m) \in Nat /\ Worth(t, k) \in Nat
    BY <2>2, WorthSteps
  <2>4. k # m
    BY <2>2, <2>3
  <2>5. k - 1 \in 0 .. Len(t) /\ m <= k - 1 /\ k \in 1 .. Len(t) /\ ~(k <= k - 1)
    BY <1>1, <2>2, <2>4
  <2>6. Worth(t, m) <= Worth(t, k - 1)
    BY <2>1, <2>5
  <2>7. Worth(t, k) = Worth(t, k - 1) + ValueAt(t, k) /\ ValueAt(t, k) \in Nat /\ Worth(t, k - 1) \in Nat
    BY <2>5, WorthSteps, ValueIsNatural
  <2> QED
    BY <2>2, <2>3, <2>6, <2>7
<1> QED
  BY <1>2

(* A trade more leaves the volume before it as it was.                     *)
LEMMA WorthStays ==
  ASSUME NEW t \in Seq(Trades), NEW x \in Trades
  PROVE  LET t2 == Append(t, x)
         IN /\ t2 \in Seq(Trades) /\ Len(t2) = Len(t) + 1 /\ Len(t) \in Nat
            /\ \A n \in 1 .. Len(t) : t2[n] = t[n]
            /\ t2[Len(t) + 1] = x
            /\ \A n \in 0 .. Len(t) : Worth(t2, n) = Worth(t, n)
            /\ Worth(t2, Len(t) + 1) = Worth(t, Len(t)) + DollarValue(x[1], x[2])
<1> DEFINE t2 == Append(t, x)
           Bad == {k \in 0 .. Len(t) : Worth(t2, k) # Worth(t, k)}
<1>1. /\ t2 \in Seq(Trades) /\ Len(t2) = Len(t) + 1 /\ Len(t) \in Nat
      /\ \A n \in 1 .. Len(t) : t2[n] = t[n]
      /\ t2[Len(t) + 1] = x
  OBVIOUS
<1> HIDE DEF t2
<1>2. Bad = {}
  <2> SUFFICES ASSUME Bad # {} PROVE FALSE
    OBVIOUS
  <2>1. PICK k \in Bad : \A j \in Bad : k <= j
    <3>1. Bad \in SUBSET Nat
      OBVIOUS
    <3> QED
      BY <3>1, LeastNumber
  <2>2. k \in 0 .. Len(t) /\ Worth(t2, k) # Worth(t, k)
    OBVIOUS
  <2>3. k # 0
    <3>1. Worth(t2, 0) = 0 /\ Worth(t, 0) = 0
      BY <1>1, WorthSteps
    <3> QED
      BY <2>2, <3>1
  <2>4. k - 1 \in 0 .. Len(t) /\ k \in 1 .. Len(t) /\ k \in 1 .. Len(t2) /\ ~(k <= k - 1)
    BY <1>1, <2>2, <2>3
  <2>5. Worth(t2, k - 1) = Worth(t, k - 1)
    BY <2>1, <2>4
  <2>6. Worth(t2, k) = Worth(t2, k - 1) + ValueAt(t2, k)
    BY <1>1, <2>4, WorthSteps
  <2>7. Worth(t, k) = Worth(t, k - 1) + ValueAt(t, k)
    BY <1>1, <2>4, WorthSteps
  <2>8. ValueAt(t2, k) = ValueAt(t, k)
    BY <1>1, <2>4 DEF ValueAt
  <2> QED
    BY <2>2, <2>5, <2>6, <2>7, <2>8
<1>3. Worth(t2, Len(t) + 1) = Worth(t, Len(t)) + DollarValue(x[1], x[2])
  <2>1. Len(t) + 1 \in 1 .. Len(t2) /\ (Len(t) + 1) - 1 = Len(t) /\ Len(t) \in 0 .. Len(t)
    BY <1>1
  <2>2. Worth(t2, Len(t) + 1) = Worth(t2, (Len(t) + 1) - 1) + ValueAt(t2, Len(t) + 1)
    BY <1>1, <2>1, WorthSteps
  <2>3. ValueAt(t2, Len(t) + 1) = DollarValue(x[1], x[2])
    BY <1>1 DEF ValueAt
  <2>4. Worth(t2, Len(t)) = Worth(t, Len(t))
    BY <1>2, <2>1
  <2> QED
    BY <2>1, <2>2, <2>3, <2>4
<1> QED
  BY <1>1, <1>2, <1>3 DEF t2

(* Where a volume lies among the bars.                                     *)
LEMMA VolumeAmongBars ==
  ASSUME NEW s \in Nat \ {0}, NEW c \in Nat, NEW a \in 0 .. s - 1, NEW b \in Nat
  PROVE  /\ s * c + a < (b + 1) * s <=> c <= b
         /\ s * c + a > b * s <=> b < c \/ (b = c /\ a > 0)
<1>1. (b + 1) * s = s * b + s /\ b * s = s * b /\ s * b \in Nat /\ s * c \in Nat /\ s * (b + 1) = s * b + s
      /\ s * (c + 1) = s * c + s
  OBVIOUS
<1> DEFINE sb == s * b
           sc == s * c
<1>2. c <= b => sc <= sb
  BY ProductGrows
<1>3. b <= c => sb <= sc
  BY ProductGrows
<1>4. c + 1 <= b => sc + s <= sb
  <2> SUFFICES ASSUME c + 1 <= b PROVE sc + s <= sb
    OBVIOUS
  <2>1. c + 1 \in Nat
    OBVIOUS
  <2>2. s * (c + 1) <= s * b
    BY <2>1, ProductGrows
  <2> QED
    BY <1>1, <2>2
<1>5. b + 1 <= c => sb + s <= sc
  <2> SUFFICES ASSUME b + 1 <= c PROVE sb + s <= sc
    OBVIOUS
  <2>1. b + 1 \in Nat
    OBVIOUS
  <2>2. s * (b + 1) <= s * c
    BY <2>1, ProductGrows
  <2> QED
    BY <1>1, <2>2
<1>6. (b + 1) * s = sb + s /\ b * s = sb /\ s * c + a = sc + a /\ sb \in Nat /\ sc \in Nat
  BY <1>1
<1>7. (b = c) => sb = sc
  OBVIOUS
<1> HIDE DEF sb, sc
<1>8. sc + a < sb + s <=> c <= b
  BY <1>2, <1>5, <1>6
<1>9. sc + a > sb <=> b < c \/ (b = c /\ a > 0)
  BY <1>4, <1>5, <1>6, <1>7
<1> QED
  BY <1>6, <1>8, <1>9

(* The tape and what the engine has counted of it.                         *)
Counted(t, e) == t \in Seq(Trades) /\ EngineOk(e) /\ Threshold * e.count + e.acc = Worth(t, Len(t))

(* Whether a trade reaches bar b: it lies from the bar in work to the last *)
(* one the trade puts volume into.                                         *)
Reaches(e, d, r, b) == e.count <= b /\ (b < e.count + d \/ (b = e.count + d /\ r > 0))

LEMMA TradeFalls ==
  ASSUME NEW t, NEW e, Counted(t, e), NEW x \in Trades
  PROVE  LET t2 == Append(t, x)
             m == Len(t) + 1
             f == Filled(e, x[1], x[2])
             a == Ingested(e, x[1], x[2])
         IN /\ Counted(t2, a)
            /\ \A b \in Nat :
                 FallenInto(t2, b) = FallenInto(t, b)
                   \cup {n \in {m} : DollarValue(x[1], x[2]) > 0 /\ Reaches(e, f \div Threshold, f % Threshold, b)}
            /\ \A b \in Nat : b > e.count \/ (b = e.count /\ e.acc = 0) => FallenInto(t, b) = {}
            /\ \A b : FallenInto(t, b) \in SUBSET (1 .. Len(t))
            /\ \A n \in 1 .. Len(t) : t2[n] = t[n]
            /\ t2[m] = x
<1> DEFINE t2 == Append(t, x)
           m == Len(t) + 1
           f == Filled(e, x[1], x[2])
           a == Ingested(e, x[1], x[2])
           v == DollarValue(x[1], x[2])
           d == f \div Threshold
           r == f % Threshold
           c == e.count
           V(n) == Worth(t, n)
           W(n) == Worth(t2, n)
<1>1. /\ t \in Seq(Trades) /\ EngineOk(e) /\ Threshold * c + e.acc = V(Len(t))
      /\ c \in Nat /\ e.acc \in 0 .. Threshold - 1
  BY DEF Counted, EngineOk
<1>2. x[1] \in Nat /\ x[2] \in Nat
  BY TrainingAssumption
<1>3. /\ v \in Nat /\ d \in Nat /\ f = Threshold * d + r /\ r \in 0 .. Threshold - 1
      /\ EngineOk(a) /\ a.count = c + d /\ a.acc = r
  <2>1. IngestedWell(e, x[1], x[2])
    BY <1>1, <1>2, IngestedCounts
  <2> QED
    BY <2>1, Zenon DEF IngestedWell
<1>4. /\ t2 \in Seq(Trades) /\ Len(t2) = m /\ Len(t) \in Nat
      /\ \A n \in 1 .. Len(t) : t2[n] = t[n]
      /\ t2[m] = x
      /\ \A n \in 0 .. Len(t) : W(n) = V(n)
      /\ W(m) = V(Len(t)) + v
  BY <1>1, WorthStays
<1>5. \A n \in 0 .. Len(t) : V(n) \in Nat
  BY <1>1, WorthSteps
<1>6. Threshold \in Nat \ {0}
  BY BarAssumption
<1>7. f = e.acc + v
  BY DEF Filled
<1> HIDE DEF t2, f, a, v, d, r, V, W
<1>8. W(m) = Threshold * (c + d) + r
  <2>1. Threshold * (c + d) = Threshold * c + Threshold * d /\ Threshold * c \in Nat /\ Threshold * d \in Nat
    BY <1>1, <1>3, <1>6
  <2> DEFINE sc == Threshold * c
             sd == Threshold * d
  <2>2. /\ Threshold * (c + d) = sc + sd /\ sc \in Nat /\ sd \in Nat
        /\ V(Len(t)) = sc + e.acc /\ f = sd + r
    BY <1>1, <1>3, <2>1
  <2> DEFINE scd == Threshold * (c + d)
  <2>3. scd = sc + sd
    BY <2>2
  <2> HIDE DEF sc, sd, scd
  <2>4. W(m) = V(Len(t)) + v /\ e.acc \in Nat /\ v \in Nat /\ r \in Nat /\ f = e.acc + v /\ sc \in Nat /\ sd \in Nat
        /\ V(Len(t)) = sc + e.acc /\ f = sd + r
    <3>1. W(m) = V(Len(t)) + v /\ v \in Nat /\ f = e.acc + v /\ sc \in Nat /\ sd \in Nat
          /\ V(Len(t)) = sc + e.acc /\ f = sd + r
      BY <1>3, <1>4, <1>7, <2>2
    <3>2. e.acc \in Nat /\ r \in Nat
      BY <1>1, <1>3, <1>6
    <3> QED
      BY <3>1, <3>2
  <2>5. W(m) = scd + r
    BY <2>3, <2>4
  <2> QED
    BY <2>5 DEF scd
<1>9. Counted(t2, a)
  BY <1>3, <1>4, <1>8 DEF Counted, W
<1>10. \A b : FallenInto(t, b) \in SUBSET (1 .. Len(t))
  BY <1>1 DEF FallenInto
<1>11. ASSUME NEW b \in Nat, NEW n \in 1 .. Len(t)
       PROVE  FallsInto(t2, n, b) <=> FallsInto(t, n, b)
  <2>1. n - 1 \in 0 .. Len(t) /\ n \in 0 .. Len(t)
    BY <1>4
  <2>2. W(n - 1) = V(n - 1) /\ W(n) = V(n)
    BY <1>4, <2>1
  <2> QED
    BY <2>2, Zenon DEF FallsInto, V, W
<1>12. ASSUME NEW b \in Nat
       PROVE  FallsInto(t2, m, b) <=> v > 0 /\ Reaches(e, d, r, b)
  <2>1. m - 1 = Len(t) /\ Len(t) \in 0 .. Len(t)
    BY <1>4
  <2>2. W(m - 1) = Threshold * c + e.acc
    BY <1>1, <1>4, <2>1
  <2>3. Threshold * c + e.acc < (b + 1) * Threshold <=> c <= b
    BY <1>1, <1>6, VolumeAmongBars
  <2>4. c + d \in Nat
    BY <1>1, <1>3
  <2> DEFINE g == c + d
  <2>11. g \in Nat
    BY <2>4
  <2> HIDE DEF g
  <2>5. Threshold * g + r > b * Threshold <=> b < g \/ (b = g /\ r > 0)
    BY <1>3, <1>6, <2>11, VolumeAmongBars
  <2>6. W(m) > b * Threshold <=> b < c + d \/ (b = c + d /\ r > 0)
    BY <1>8, <2>5 DEF g
  <2>7. W(m - 1) < (b + 1) * Threshold <=> c <= b
    BY <2>2, <2>3
  <2>8. W(m - 1) < W(m) <=> v > 0
    <3>1. W(m - 1) = V(Len(t)) /\ V(Len(t)) \in Nat
      BY <1>4, <1>5, <2>1
    <3> QED
      BY <1>3, <1>4, <3>1
  <2>9. FallsInto(t2, m, b) <=> W(m - 1) < W(m) /\ W(m - 1) < (b + 1) * Threshold /\ W(m) > b * Threshold
    BY Zenon DEF FallsInto, W
  <2> QED
    BY <2>6, <2>7, <2>8, <2>9, Zenon DEF Reaches
<1>13. ASSUME NEW b \in Nat
       PROVE  FallenInto(t2, b) = FallenInto(t, b) \cup {n \in {m} : v > 0 /\ Reaches(e, d, r, b)}
  <2>1. DOMAIN t2 = 1 .. m /\ DOMAIN t = 1 .. Len(t)
    BY <1>1, <1>4
  <2>2. \A n : n \in 1 .. m <=> n \in 1 .. Len(t) \/ n = m
    BY <1>4
  <2>3. FallenInto(t2, b) = {n \in 1 .. m : FallsInto(t2, n, b)}
        /\ FallenInto(t, b) = {n \in 1 .. Len(t) : FallsInto(t, n, b)}
    BY <2>1, Zenon DEF FallenInto
  <2> HIDE DEF m
  <2>4. \A n : n \in FallenInto(t2, b) <=> n \in FallenInto(t, b) \/ (n = m /\ v > 0 /\ Reaches(e, d, r, b))
    BY <1>11, <1>12, <2>2, <2>3
  <2> QED
    BY <2>4
<1>14. ASSUME NEW b \in Nat, b > c \/ (b = c /\ e.acc = 0)
       PROVE  FallenInto(t, b) = {}
  <2> SUFFICES ASSUME NEW n \in FallenInto(t, b) PROVE FALSE
    OBVIOUS
  <2>1. n \in 1 .. Len(t) /\ V(n) > b * Threshold
    BY <1>1 DEF FallenInto, FallsInto, V
  <2>2. n \in 0 .. Len(t) /\ Len(t) \in 0 .. Len(t) /\ n <= Len(t)
    BY <1>4, <2>1
  <2>3. V(n) <= V(Len(t)) /\ V(n) \in Nat /\ V(Len(t)) \in Nat
    BY <1>1, <1>5, <2>2, WorthGrows DEF V
  <2>4. b * Threshold \in Nat
    BY <1>6
  <2>5. Threshold * c + e.acc > b * Threshold
    BY <1>1, <2>1, <2>3, <2>4
  <2>6. b < c \/ (b = c /\ e.acc > 0)
    BY <1>1, <1>6, <2>5, VolumeAmongBars
  <2> QED
    BY <1>1, <1>14, <2>6
<1> QED
  BY <1>4, <1>9, <1>10, <1>13, <1>14 DEF t2, f, a, v, d, r

-----------------------------------------------------------------------------
(* The rows of the ring.                                                   *)

LEMMA SameRestApart ==
  ASSUME NEW s \in Nat \ {0}, NEW x \in Int, NEW y \in Int, NEW q \in Int, y = x + s * q
  PROVE  x % s = y % s
<1>1. x = s * (x \div s) + (x % s) /\ x % s \in 0 .. s - 1 /\ x \div s \in Int
  OBVIOUS
<1>2. y = s * (y \div s) + (y % s) /\ y % s \in 0 .. s - 1 /\ y \div s \in Int
  OBVIOUS
<1> DEFINE u == x \div s
           v == y \div s
           a == x % s
           b == y % s
           k == u + q - v
<1>3. u \in Int /\ v \in Int /\ a \in 0 .. s - 1 /\ b \in 0 .. s - 1 /\ x = s * u + a /\ y = s * v + b
  BY <1>1, <1>2
<1> HIDE DEF u, v, a, b
<1>4. k \in Int /\ s * k = s * u + s * q - s * v /\ s * u \in Int /\ s * v \in Int /\ s * q \in Int
  BY <1>3
<1>5. s * k = b - a
  <2> DEFINE su == s * u
             sv == s * v
             sq == s * q
             sk == s * k
  <2>1. sk = su + sq - sv /\ su \in Int /\ sv \in Int /\ sq \in Int /\ x = su + a /\ y = sv + b /\ y = x + sq
    BY <1>3, <1>4
  <2> HIDE DEF su, sv, sq, sk
  <2>2. sk = b - a
    BY <1>3, <2>1
  <2> QED
    BY <2>2 DEF sk
<1> HIDE DEF k
<1>6. ~(k >= 1)
  <2> SUFFICES ASSUME k >= 1 PROVE FALSE
    OBVIOUS
  <2>1. k \in Nat
    BY <1>4
  <2>2. s * 1 <= s * k
    BY <2>1, ProductGrows
  <2> QED
    BY <1>3, <1>5, <2>2
<1>7. ~(k <= -1)
  <2> SUFFICES ASSUME k <= -1 PROVE FALSE
    OBVIOUS
  <2>1. -k \in Nat /\ 1 <= -k
    BY <1>4
  <2>2. s * 1 <= s * (-k) /\ s * (-k) = -(s * k)
    BY <1>4, <2>1, ProductGrows
  <2> QED
    BY <1>3, <1>5, <2>2
<1>8. k = 0
  BY <1>4, <1>6, <1>7
<1>9. a = b
  BY <1>3, <1>5, <1>8
<1> QED
  BY <1>9 DEF a, b

LEMMA BarRowIs ==
  ASSUME NEW e, e.count \in Nat, NEW b \in Nat
  PROVE  BarRow(e, b) = e.buf[b % Slots] /\ b % Slots \in 0 .. Slots - 1
<1> DEFINE c == e.count
           h == c % Slots
           x == h - (c - b)
           q == c \div Slots
<1>1. Slots \in Nat \ {0} /\ c \in Nat
  BY BarAssumption
<1>2. c = Slots * q + h /\ h \in 0 .. Slots - 1 /\ q \in Nat
  BY <1>1, Division
<1> HIDE DEF c, h, q
<1>3. x \in Int /\ b = x + Slots * q
  BY <1>1, <1>2
<1> HIDE DEF x
<1>4. x % Slots = b % Slots
  <2>1. b \in Int /\ q \in Int
    BY <1>2
  <2> QED
    BY <1>1, <1>3, <2>1, SameRestApart
<1>5. BarRow(e, b) = e.buf[x % Slots]
  BY DEF BarRow, HeadSlot, x, h, c
<1>6. b % Slots \in 0 .. Slots - 1
  BY <1>1
<1> QED
  BY <1>4, <1>5, <1>6

(* What the slot of a bar holds after a trade, unless it is the one zeroed *)
(* last: its new row, or the one it had.                                   *)
BufferHolds(e, price, closed, b) ==
  /\ b >= e.count => Buffer(e, price, closed)[b % Slots] = RowOf(e, price, b)
  /\ ~(b >= e.count) => Buffer(e, price, closed)[b % Slots] = e.buf[b % Slots]

LEMMA BufferAt ==
  ASSUME NEW e, e.count \in Nat, NEW price, NEW d \in Nat, NEW closed,
         closed = e.count .. (e.count + d - 1), Cardinality(closed) = d
  PROVE  \A b \in Nat : b < e.count + d /\ e.count + d < b + Slots => BufferHolds(e, price, closed, b)
<1> SUFFICES ASSUME NEW b \in Nat, b < e.count + d, e.count + d < b + Slots
             PROVE  BufferHolds(e, price, closed, b)
  OBVIOUS
<1> DEFINE c == e.count
           p == b % Slots
           At == {i \in closed : i % Slots = p}
           n == c + d
           last == CHOOSE i \in At : \A j \in At : j <= i
<1>1. Slots \in Nat \ {0} /\ c \in Nat /\ n \in Nat /\ b < n /\ n < b + Slots
  BY BarAssumption
<1>2. p \in 0 .. Slots - 1
  BY <1>1
<1>3. p # n % Slots
  <2> SUFFICES ASSUME b % Slots = n % Slots PROVE FALSE
    OBVIOUS
  <2>1. b + Slots <= n
    BY <1>1, SameRest
  <2> QED
    BY <1>1, <2>1
<1>4. Buffer(e, price, closed)[p]
        = IF At # {} THEN RowOf(e, price, last) ELSE e.buf[p]
  BY <1>2, <1>3 DEF Buffer
<1>5. ASSUME NEW j \in At
      PROVE  j \in Nat /\ c <= j /\ j <= b
  <2>1. j \in Nat /\ c <= j /\ j < n /\ j % Slots = b % Slots
    BY <1>1
  <2>2. CASE b < j
    <3>1. b + Slots <= j
      BY <1>1, <2>1, <2>2, SameRest
    <3> QED
      BY <1>1, <2>1, <3>1
  <2> QED
    BY <2>1, <2>2
<1>6. CASE b >= c
  <2>1. b \in At
    BY <1>1, <1>6
  <2>2. last \in At /\ \A j \in At : j <= last
    <3>1. \E k \in At : \A j \in At : j <= k
      BY <1>5, <2>1
    <3> HIDE DEF At
    <3> QED
      BY <3>1, Zenon
  <2> HIDE DEF last, At
  <2>3. last = b
    BY <1>5, <2>1, <2>2
  <2>4. Buffer(e, price, closed)[p] = RowOf(e, price, b)
    BY <1>4, <2>1, <2>3, Zenon
  <2> QED
    BY <1>6, <2>4 DEF BufferHolds, p
<1>7. CASE ~(b >= c)
  <2>1. At = {}
    <3> SUFFICES ASSUME NEW j \in At PROVE FALSE
      OBVIOUS
    <3>1. j \in Nat /\ c <= j /\ j <= b
      BY <1>5
    <3> HIDE DEF At
    <3> QED
      BY <1>1, <1>7, <3>1
  <2>2. Buffer(e, price, closed)[p] = e.buf[p]
    BY <1>4, <2>1
  <2> QED
    BY <1>7, <2>2 DEF BufferHolds, p
<1> QED
  BY <1>6, <1>7

-----------------------------------------------------------------------------
(* Exact bars.                                                             *)

Extreme(t, b, hi, lo) ==
  hi \in PricesIn(t, b) /\ lo \in PricesIn(t, b) /\ \A p \in PricesIn(t, b) : lo <= p /\ p <= hi

ExactRow(t, row, b) == row.bar = b /\ row.close = CloseOf(t, b) /\ Extreme(t, b, row.high, row.low)

(* The bar in work, the rows of the ring.                                  *)
InWork(t, e) == (e.trades <=> e.acc > 0) /\ (e.acc > 0 => Extreme(t, e.count, e.high, e.low))
RingExact(t, e) == \A b \in Available(e) : b = e.count - Slots \/ ExactRow(t, e.buf[b % Slots], b)

Exact(t, e) == Counted(t, e) /\ InWork(t, e) /\ RingExact(t, e)

Value(x) == DollarValue(x[1], x[2])
FilledBy(e, x) == Filled(e, x[1], x[2])

(* Whether the trade x is of bar b.                                        *)
Joins(e, x, b) == Value(x) > 0 /\ Reaches(e, FilledBy(e, x) \div Threshold, FilledBy(e, x) % Threshold, b)

LEMMA PricesAfter ==
  ASSUME NEW t, NEW e, Counted(t, e), NEW x \in Trades, NEW b \in Nat
  PROVE  LET t2 == Append(t, x)
         IN /\ x[1] \in Nat /\ \A p \in PricesIn(t, b) : p \in Nat
            /\ Joins(e, x, b) => /\ PricesIn(t2, b) = PricesIn(t, b) \cup {x[1]}
                                 /\ CloseOf(t2, b) = x[1]
            /\ ~Joins(e, x, b) => /\ FallenInto(t2, b) = FallenInto(t, b)
                                  /\ PricesIn(t2, b) = PricesIn(t, b)
                                  /\ PricesIn(t, b) # {} => CloseOf(t2, b) = CloseOf(t, b)
            /\ b > e.count \/ (b = e.count /\ e.acc = 0) => PricesIn(t, b) = {}
<1> DEFINE t2 == Append(t, x)
           m == Len(t) + 1
           F == FallenInto(t, b)
           F2 == FallenInto(t2, b)
<1>1. /\ F2 = F \cup {n \in {m} : Joins(e, x, b)}
      /\ b > e.count \/ (b = e.count /\ e.acc = 0) => F = {}
      /\ F \in SUBSET (1 .. Len(t))
      /\ \A n \in 1 .. Len(t) : t2[n] = t[n]
      /\ t2[m] = x
  BY TradeFalls DEF Joins, Value, FilledBy
<1>2. t \in Seq(Trades) /\ Len(t) \in Nat
  BY DEF Counted
<1>3. x[1] \in Nat
  BY TrainingAssumption
<1> HIDE DEF t2, F, F2, m
<1>4. \A n \in F : n \in Nat /\ n < m /\ t2[n] = t[n] /\ t[n] \in Trades
  BY <1>1, <1>2 DEF m
<1>5. m \in Nat
  BY <1>2 DEF m
<1>6. PricesIn(t, b) = {t[n][1] : n \in F} /\ PricesIn(t2, b) = {t2[n][1] : n \in F2}
  BY DEF PricesIn, F, F2
<1>7. \A p \in PricesIn(t, b) : p \in Nat
  BY <1>4, <1>6, TrainingAssumption
<1>8. CloseOf(t2, b) = t2[CHOOSE n \in F2 : \A k \in F2 : k <= n][1]
      /\ CloseOf(t, b) = t[CHOOSE n \in F : \A k \in F : k <= n][1]
  BY DEF CloseOf, F, F2
<1>9. CASE Joins(e, x, b)
  <2>1. F2 = F \cup {m}
    BY <1>1, <1>9
  <2>2. PricesIn(t2, b) = PricesIn(t, b) \cup {x[1]}
    <3>1. \A q : q \in PricesIn(t2, b) <=> \E n \in F2 : q = t2[n][1]
      BY <1>6
    <3>2. \A q : q \in PricesIn(t, b) <=> \E n \in F : q = t[n][1]
      BY <1>6
    <3>3. \A n \in F : t2[n][1] = t[n][1]
      BY <1>4
    <3>4. t2[m][1] = x[1]
      BY <1>1
    <3>5. \A q : q \in PricesIn(t2, b) <=> q \in PricesIn(t, b) \/ q = x[1]
      <4> SUFFICES ASSUME NEW q PROVE q \in PricesIn(t2, b) <=> q \in PricesIn(t, b) \/ q = x[1]
        OBVIOUS
      <4>1. \A n : n \in F2 <=> n \in F \/ n = m
        BY <2>1
      <4>2. (\E n \in F2 : q = t2[n][1]) <=> (\E n \in F : q = t2[n][1]) \/ q = t2[m][1]
        BY <4>1, Zenon
      <4>3. (\E n \in F : q = t2[n][1]) <=> (\E n \in F : q = t[n][1])
        BY <3>3, Zenon
      <4> QED
        BY <3>1, <3>2, <3>4, <4>2, <4>3
    <3> QED
      BY <3>5
  <2> DEFINE last == CHOOSE n \in F2 : \A k \in F2 : k <= n
  <2>3. m \in F2 /\ \A k \in F2 : k <= m /\ k \in Nat
    BY <1>4, <1>5, <2>1
  <2>4. last \in F2 /\ \A k \in F2 : k <= last
    BY <2>3, Zenon
  <2> HIDE DEF last
  <2>5. last = m
    BY <1>5, <2>3, <2>4
  <2>6. CloseOf(t2, b) = x[1]
    BY <1>1, <1>8, <2>5 DEF last
  <2> QED
    BY <1>1, <1>3, <1>7, <1>9, <2>2, <2>6, <1>6 DEF t2
<1>10. CASE ~Joins(e, x, b)
  <2>1. F2 = F
    BY <1>1, <1>10
  <2>2. PricesIn(t2, b) = PricesIn(t, b)
    BY <1>4, <1>6, <2>1
  <2>3. ASSUME PricesIn(t, b) # {}
        PROVE  CloseOf(t2, b) = CloseOf(t, b)
    <3> DEFINE last == CHOOSE n \in F : \A k \in F : k <= n
    <3>1. F # {} /\ F \in SUBSET (0 .. Len(t))
      BY <1>1, <1>2, <1>6, <2>3
    <3>2. \E n \in F : \A k \in F : k <= n
      BY <1>2, <3>1, GreatestNumber
    <3>3. last \in F
      BY <3>2, Zenon
    <3> HIDE DEF last
    <3>4. CloseOf(t2, b) = t2[last][1] /\ CloseOf(t, b) = t[last][1]
      BY <1>8, <2>1, Zenon DEF last
    <3> QED
      BY <1>4, <3>3, <3>4
  <2> QED
    BY <1>1, <1>3, <1>6, <1>7, <1>10, <2>1, <2>2, <2>3 DEF t2, F, F2
<1> QED
  BY <1>9, <1>10

(* A price more, in a bar that had some or none.                           *)
LEMMA ExtremeWith ==
  ASSUME NEW t, NEW t2, NEW b, NEW p \in Nat, PricesIn(t2, b) = PricesIn(t, b) \cup {p},
         \A q \in PricesIn(t, b) : q \in Nat
  PROVE  /\ PricesIn(t, b) = {} => Extreme(t2, b, p, p)
         /\ \A hi, lo : Extreme(t, b, hi, lo) =>
              Extreme(t2, b, IF hi > p THEN hi ELSE p, IF lo < p THEN lo ELSE p)
<1>1. PricesIn(t, b) = {} => Extreme(t2, b, p, p)
  BY DEF Extreme
<1>2. ASSUME NEW hi, NEW lo, Extreme(t, b, hi, lo)
      PROVE  Extreme(t2, b, IF hi > p THEN hi ELSE p, IF lo < p THEN lo ELSE p)
  <2>1. hi \in Nat /\ lo \in Nat /\ hi \in PricesIn(t, b) /\ lo \in PricesIn(t, b)
        /\ \A q \in PricesIn(t, b) : lo <= q /\ q <= hi
    BY <1>2 DEF Extreme
  <2> DEFINE h == IF hi > p THEN hi ELSE p
             l == IF lo < p THEN lo ELSE p
  <2>2. h \in PricesIn(t2, b) /\ l \in PricesIn(t2, b)
    BY <2>1
  <2>3. h \in Nat /\ l \in Nat /\ hi <= h /\ p <= h /\ l <= lo /\ l <= p
    BY <2>1
  <2> HIDE DEF h, l
  <2>4. \A q \in PricesIn(t2, b) : l <= q /\ q <= h
    BY <2>1, <2>3
  <2>5. Extreme(t2, b, h, l)
    BY <2>2, <2>4 DEF Extreme
  <2> QED
    BY <2>5 DEF h, l
<1> QED
  BY <1>1, <1>2

(* The bar in work with the trade.                                         *)
LEMMA WorkWith ==
  ASSUME NEW t, NEW e, Exact(t, e), NEW x \in Trades, Joins(e, x, e.count)
  PROVE  Extreme(Append(t, x), e.count, High(e, x[1]), Low(e, x[1]))
<1> DEFINE t2 == Append(t, x)
           c == e.count
           p == x[1]
<1>1. Counted(t, e) /\ InWork(t, e) /\ c \in Nat /\ e.acc \in Nat
  BY BarAssumption DEF Exact, Counted, EngineOk
<1>2. /\ p \in Nat /\ \A q \in PricesIn(t, c) : q \in Nat
      /\ PricesIn(t2, c) = PricesIn(t, c) \cup {p}
      /\ e.acc = 0 => PricesIn(t, c) = {}
  BY <1>1, PricesAfter
<1> HIDE DEF t2, c, p
<1>3. CASE e.acc = 0
  <2>1. Extreme(t2, c, p, p)
    BY <1>2, <1>3, ExtremeWith
  <2>2. ~e.trades
    BY <1>1, <1>3 DEF InWork
  <2>3. High(e, p) = p /\ Low(e, p) = p
    BY <2>2, Zenon DEF High, Low
  <2> QED
    BY <2>1, <2>3 DEF t2, c, p
<1>4. CASE e.acc > 0
  <2>1. Extreme(t, c, e.high, e.low)
    BY <1>1, <1>4 DEF InWork, c
  <2>2. Extreme(t2, c, IF e.high > p THEN e.high ELSE p, IF e.low < p THEN e.low ELSE p)
    BY <1>2, <2>1, ExtremeWith
  <2>3. e.trades
    BY <1>1, <1>4 DEF InWork
  <2>4. High(e, p) = (IF e.high > p THEN e.high ELSE p) /\ Low(e, p) = (IF e.low < p THEN e.low ELSE p)
    BY <2>3, Zenon DEF High, Low
  <2> QED
    BY <2>2, <2>4 DEF t2, c, p
<1> QED
  BY <1>1, <1>3, <1>4

(* The engine after a trade that is worth something.                       *)
LEMMA IngestedIs ==
  ASSUME NEW e, EngineOk(e), NEW price \in Nat, NEW qty \in Nat
  PROVE  LET d == Filled(e, price, qty) \div Threshold
             r == Filled(e, price, qty) % Threshold
             a == Ingested(e, price, qty)
             closed == Closed(e, price, qty)
         IN /\ DollarValue(price, qty) = 0 => a = e
            /\ DollarValue(price, qty) > 0 =>
                 /\ a.trades <=> r > 0
                 /\ d = 0 => a.high = High(e, price) /\ a.low = Low(e, price)
                 /\ d > 0 => a.high = price /\ a.low = price
                 /\ a.buf = Buffer(e, price, closed)
<1> DEFINE v == DollarValue(price, qty)
           f == Filled(e, price, qty)
           d == f \div Threshold
           r == f % Threshold
           a == Ingested(e, price, qty)
           closed == Closed(e, price, qty)
<1>1. v \in Nat /\ d \in Nat /\ closed = e.count .. (e.count + d - 1) /\ e.count \in Nat
  <2>1. v \in Nat /\ d \in Nat /\ closed = e.count .. (e.count + d - 1)
    BY IngestedCounts, Zenon DEF IngestedWell
  <2> HIDE DEF v, d, closed
  <2>2. e.count \in Nat
    BY DEF EngineOk
  <2> QED
    BY <2>1, <2>2
<1>2. closed = {} <=> d = 0
  <2> HIDE DEF closed, d
  <2> QED
    BY <1>1
<1>3. CASE v = 0
  <2>1. v <= 0
    BY <1>3
  <2>2. a = e
    BY <2>1, Zenon DEF Ingested
  <2>3. ~(v > 0)
    BY <1>3
  <2> HIDE DEF v, a
  <2> QED
    BY <2>2, <2>3, Zenon DEF v, a
<1>4. CASE v > 0
  <2>1. ~(v <= 0) /\ v # 0
    BY <1>1, <1>4
  <2> DEFINE cnt == e.count + Cardinality(closed)
             ac == f % Threshold
             tr == f % Threshold > 0
             hi == IF closed = {} THEN High(e, price) ELSE price
             lo == IF closed = {} THEN Low(e, price) ELSE price
             bu == Buffer(e, price, closed)
  <2>2. a = [count |-> cnt, acc |-> ac, trades |-> tr, high |-> hi, low |-> lo, buf |-> bu]
    BY <2>1, Zenon DEF Ingested
  <2> HIDE DEF a, cnt, ac, tr, hi, lo, bu
  <2>3. a.trades = tr /\ a.high = hi /\ a.low = lo /\ a.buf = bu
    BY <2>2
  <2>4. d = 0 => hi = High(e, price) /\ lo = Low(e, price)
    BY <1>2, Zenon DEF hi, lo
  <2>5. d > 0 => hi = price /\ lo = price
    <3>1. d > 0 => closed # {}
      BY <1>1, <1>2
    <3> QED
      BY <3>1, Zenon DEF hi, lo
  <2> HIDE DEF d
  <2>6. a.trades <=> r > 0
    BY <2>3, Zenon DEF tr
  <2> QED
    BY <2>1, <2>3, <2>4, <2>5, <2>6, Zenon DEF bu, d, a
<1> QED
  BY <1>1, <1>3, <1>4

LEMMA AvailableIs ==
  ASSUME NEW e, e.count \in Nat
  PROVE  \A b : b \in Available(e) <=> b \in Nat /\ b < e.count /\ e.count - Slots <= b
<1>1. Slots \in Nat
  BY BarAssumption
<1> QED
  BY <1>1 DEF Available, Oldest

LEMMA ExactGrows ==
  ASSUME NEW t, NEW e, Exact(t, e), NEW x \in Trades
  PROVE  Exact(Append(t, x), Ingested(e, x[1], x[2]))
<1> DEFINE t2 == Append(t, x)
           p == x[1]
           a == Ingested(e, x[1], x[2])
           c == e.count
           f == FilledBy(e, x)
           d == f \div Threshold
           r == f % Threshold
           v == Value(x)
           closed == Closed(e, x[1], x[2])
<1>1. /\ Counted(t, e) /\ InWork(t, e) /\ RingExact(t, e) /\ c \in Nat /\ e.acc \in Nat /\ EngineOk(e)
  BY BarAssumption DEF Exact, Counted, EngineOk
<1>2. x[1] \in Nat /\ x[2] \in Nat
  BY TrainingAssumption
<1>3. Counted(t2, a)
  BY <1>1, TradeFalls
<1>4. \A b \in Nat :
        /\ \A q \in PricesIn(t, b) : q \in Nat
        /\ Joins(e, x, b) => /\ PricesIn(t2, b) = PricesIn(t, b) \cup {p}
                             /\ CloseOf(t2, b) = p
        /\ ~Joins(e, x, b) => /\ PricesIn(t2, b) = PricesIn(t, b)
                              /\ PricesIn(t, b) # {} => CloseOf(t2, b) = CloseOf(t, b)
        /\ b > c \/ (b = c /\ e.acc = 0) => PricesIn(t, b) = {}
  BY <1>1, PricesAfter
<1>5. /\ v \in Nat /\ d \in Nat /\ a.count = c + d /\ a.acc = r /\ r \in Nat
      /\ v = 0 => d = 0
      /\ closed = c .. (c + d - 1) /\ Cardinality(closed) = d
  <2>1. IngestedWell(e, x[1], x[2])
    BY <1>1, <1>2, IngestedCounts
  <2>2. d = Filled(e, x[1], x[2]) \div Threshold /\ r = Filled(e, x[1], x[2]) % Threshold
        /\ v = DollarValue(x[1], x[2])
    BY DEF FilledBy, Value
  <2> HIDE DEF c, f, d, r, v
  <2> QED
    BY <2>1, <2>2, Zenon DEF IngestedWell, c
<1>6. /\ v = 0 => a = e
      /\ v > 0 =>
           /\ a.trades <=> r > 0
           /\ d = 0 => a.high = High(e, p) /\ a.low = Low(e, p)
           /\ d > 0 => a.high = p /\ a.low = p
           /\ a.buf = Buffer(e, p, closed)
  BY <1>1, <1>2, IngestedIs DEF FilledBy, Value
<1>7. \A b \in Nat : Joins(e, x, b) <=> v > 0 /\ c <= b /\ (b < c + d \/ (b = c + d /\ r > 0))
  BY DEF Joins, Reaches
<1>8. Joins(e, x, c) => Extreme(t2, c, High(e, p), Low(e, p))
  BY WorkWith
<1> HIDE DEF t2, a, c, f, d, r, v, p, closed
<1>9. \A b \in Nat : \A hi, lo : ~Joins(e, x, b) /\ Extreme(t, b, hi, lo) => Extreme(t2, b, hi, lo)
  BY <1>4 DEF Extreme
<1>10. \A b \in Nat : Joins(e, x, b) /\ b > c => Extreme(t2, b, p, p)
  <2> SUFFICES ASSUME NEW b \in Nat, Joins(e, x, b), b > c PROVE Extreme(t2, b, p, p)
    OBVIOUS
  <2>1. PricesIn(t2, b) = PricesIn(t, b) \cup {p} /\ PricesIn(t, b) = {} /\ p \in Nat
    BY <1>2, <1>4 DEF p
  <2> QED
    BY <1>2, <2>1 DEF Extreme, p
<1>11. CASE v = 0
  <2>1. a = e /\ \A b \in Nat : ~Joins(e, x, b)
    BY <1>5, <1>6, <1>7, <1>11
  <2>2. InWork(t2, e)
    BY <1>1, <1>9, <2>1 DEF InWork, c
  <2>3. RingExact(t2, e)
    <3> SUFFICES ASSUME NEW b \in Available(e), b # e.count - Slots
                 PROVE  ExactRow(t2, e.buf[b % Slots], b)
      BY DEF RingExact
    <3>1. b \in Nat
      BY <1>1, AvailableIs DEF c
    <3>2. ExactRow(t, e.buf[b % Slots], b)
      BY <1>1 DEF RingExact
    <3>3. ~Joins(e, x, b)
      BY <2>1, <3>1
    <3>4. PricesIn(t, b) # {}
      BY <3>2 DEF ExactRow, Extreme
    <3> QED
      BY <1>4, <1>9, <3>1, <3>2, <3>3, <3>4 DEF ExactRow
  <2> QED
    BY <1>3, <2>1, <2>2, <2>3 DEF Exact, t2, a
<1>12. CASE v > 0
  <2>1. InWork(t2, a)
    <3>1. a.trades <=> a.acc > 0
      BY <1>5, <1>6, <1>12
    <3>2. ASSUME r > 0
          PROVE  Extreme(t2, c + d, a.high, a.low)
      <4>1. Joins(e, x, c + d)
        BY <1>1, <1>5, <1>7, <1>12, <3>2
      <4>2. CASE d = 0
        <5>1. c + d = c
          BY <1>1, <4>2
        <5> QED
          BY <1>6, <1>8, <1>12, <4>1, <4>2, <5>1
      <4>3. CASE d > 0
        <5>1. c + d \in Nat /\ c + d > c
          BY <1>1, <1>5, <4>3
        <5> QED
          BY <1>6, <1>10, <1>12, <4>1, <4>3, <5>1
      <4> QED
        BY <1>5, <4>2, <4>3
    <3> QED
      BY <1>5, <3>1, <3>2 DEF InWork
  <2>2. RingExact(t2, a)
    <3> SUFFICES ASSUME NEW b \in Available(a), b # a.count - Slots
                 PROVE  ExactRow(t2, a.buf[b % Slots], b)
      BY DEF RingExact
    <3>1. b \in Nat /\ b < c + d /\ c + d < b + Slots /\ Slots \in Nat
      <4>1. a.count \in Nat
        BY <1>1, <1>5
      <4>2. b \in Nat /\ b < a.count /\ a.count - Slots <= b /\ b # a.count - Slots
        BY <4>1, AvailableIs
      <4> QED
        BY <1>1, <1>5, <4>1, <4>2, BarAssumption
    <3>2. a.buf[b % Slots] = IF b >= c THEN RowOf(e, p, b) ELSE e.buf[b % Slots]
      <4>1. Buffer(e, p, closed)[b % Slots] = IF b >= c THEN RowOf(e, p, b) ELSE e.buf[b % Slots]
        <5>1. closed = e.count .. (e.count + d - 1) /\ e.count \in Nat /\ d \in Nat
              /\ Cardinality(closed) = d /\ b \in Nat /\ b < e.count + d /\ e.count + d < b + Slots
          BY <1>1, <1>5, <3>1 DEF c
        <5>2. BufferHolds(e, p, closed, b)
          BY <5>1, BufferAt, Zenon
        <5> QED
          BY <5>2, Zenon DEF BufferHolds, c
      <4> QED
        BY <1>6, <1>12, <4>1
    <3>3. CASE b = c
      <4>1. Joins(e, x, b)
        BY <1>5, <1>7, <1>12, <3>1, <3>3, <1>1
      <4> DEFINE h == High(e, p)
                 l == Low(e, p)
      <4>2. a.buf[b % Slots] = RowOf(e, p, b)
        BY <1>1, <3>2, <3>3
      <4>3. RowOf(e, p, b) = [bar |-> b, high |-> h, low |-> l, close |-> p]
        BY <3>3 DEF RowOf, c
      <4>4. Extreme(t2, b, h, l)
        BY <1>8, <3>3, <4>1
      <4> HIDE DEF h, l
      <4> DEFINE w == a.buf[b % Slots]
      <4>5. w = [bar |-> b, high |-> h, low |-> l, close |-> p]
        BY <4>2, <4>3, Zenon
      <4> HIDE DEF w
      <4>6. w.bar = b /\ w.high = h /\ w.low = l /\ w.close = p
        BY <4>5
      <4>7. CloseOf(t2, b) = p
        BY <1>4, <3>1, <4>1
      <4>8. ExactRow(t2, w, b)
        BY <4>4, <4>6, <4>7 DEF ExactRow
      <4> QED
        BY <4>8 DEF w
    <3>4. CASE b > c
      <4>1. Joins(e, x, b)
        BY <1>1, <1>5, <1>7, <1>12, <3>1, <3>4
      <4>2. a.buf[b % Slots] = RowOf(e, p, b)
        BY <1>1, <3>1, <3>2, <3>4
      <4>3. RowOf(e, p, b) = [bar |-> b, high |-> p, low |-> p, close |-> p]
        BY <1>1, <3>1, <3>4 DEF RowOf, c
      <4>4. Extreme(t2, b, p, p)
        BY <1>10, <3>1, <3>4, <4>1
      <4> DEFINE w == a.buf[b % Slots]
      <4>5. w = [bar |-> b, high |-> p, low |-> p, close |-> p]
        BY <4>2, <4>3, Zenon
      <4> HIDE DEF w
      <4>6. w.bar = b /\ w.high = p /\ w.low = p /\ w.close = p
        BY <4>5
      <4>7. CloseOf(t2, b) = p
        BY <1>4, <3>1, <4>1
      <4>8. ExactRow(t2, w, b)
        BY <4>4, <4>6, <4>7 DEF ExactRow
      <4> QED
        BY <4>8 DEF w
    <3>5. CASE b < c
      <4>1. ~Joins(e, x, b) /\ ~(b >= c)
        BY <1>1, <1>7, <3>1, <3>5
      <4>2. b \in Available(e) /\ b # e.count - Slots
        <5>1. e.count \in Nat /\ b \in Nat /\ b < e.count /\ e.count - Slots <= b /\ b # e.count - Slots
          BY <1>1, <1>5, <3>1, <3>5 DEF c
        <5> QED
          BY <5>1, AvailableIs
      <4>3. ExactRow(t, e.buf[b % Slots], b)
        BY <1>1, <4>2 DEF RingExact
      <4>4. PricesIn(t, b) # {}
        BY <4>3 DEF ExactRow, Extreme
      <4>5. ExactRow(t2, e.buf[b % Slots], b)
        BY <1>4, <1>9, <3>1, <4>1, <4>3, <4>4 DEF ExactRow
      <4> QED
        BY <3>2, <4>1, <4>5
    <3> QED
      BY <1>1, <3>1, <3>3, <3>4, <3>5
  <2> QED
    BY <1>3, <2>1, <2>2 DEF Exact, t2, a
<1> QED
  BY <1>5, <1>11, <1>12

LEMMA ExactAtFirst == Exact(<<>>, NewEngine)
<1>1. EngineOk(NewEngine) /\ NewEngine.count = 0 /\ NewEngine.acc = 0
  BY NewEngineOk
<1>2. ~NewEngine.trades
  BY DEF NewEngine
<1>3. Worth(<<>>, 0) = 0 /\ <<>> \in Seq(Trades) /\ Len(<<>>) = 0
  <2>1. <<>> \in Seq(Trades) /\ Len(<<>>) = 0
    OBVIOUS
  <2> QED
    BY <2>1, WorthSteps
<1>4. Counted(<<>>, NewEngine)
  <2>1. Threshold * 0 + 0 = 0
    BY BarAssumption
  <2> QED
    BY <1>1, <1>3, <2>1 DEF Counted
<1>5. \A b \in Available(NewEngine) : FALSE
  BY <1>1, AvailableIs
<1> QED
  BY <1>1, <1>2, <1>4, <1>5 DEF Exact, InWork, RingExact

-----------------------------------------------------------------------------
(* Over a run.                                                             *)

BarsInv == tape \in Seq(Trades) /\ Exact(tape, eng)

LEMMA BarsInvInit == Init => BarsInv
<1>1. <<>> \in Seq(Trades)
  OBVIOUS
<1> QED
  BY <1>1, ExactAtFirst DEF Init, BarsInv

LEMMA BarsInvNext == BarsInv /\ [Next]_vars => BarsInv'
<1> SUFFICES ASSUME BarsInv, [Next]_vars PROVE BarsInv'
  OBVIOUS
<1>1. ASSUME NEW t \in Trades, Trade(t[1], t[2])
      PROVE  BarsInv'
  <2>1. <<t[1], t[2]>> = t
    BY TrainingAssumption
  <2>2. tape' = Append(tape, t) /\ eng' = Ingested(eng, t[1], t[2])
    BY <1>1, <2>1 DEF Trade
  <2>3. Exact(Append(tape, t), Ingested(eng, t[1], t[2]))
    BY ExactGrows DEF BarsInv
  <2>4. Append(tape, t) \in Seq(Trades)
    BY DEF BarsInv
  <2> QED
    BY <2>2, <2>3, <2>4 DEF BarsInv
<1>2. ASSUME NEW w, RestartOver(w)
      PROVE  BarsInv'
  <2>1. tape' = <<>> /\ eng' = NewEngine
    BY <1>2 DEF RestartOver
  <2>2. <<>> \in Seq(Trades)
    OBVIOUS
  <2> QED
    BY <2>1, <2>2, ExactAtFirst DEF BarsInv
<1>3. ASSUME UNCHANGED <<eng, tape>>
      PROVE  BarsInv'
  BY <1>3 DEF BarsInv
<1>4. CASE \E t \in Trades : Trade(t[1], t[2])
  BY <1>1, <1>4
<1>5. CASE \E side \in {-1, 1} : Register(side)
  BY <1>3, <1>5 DEF Register
<1>6. CASE \E in \in todo : AppendFeatures(in) \/ CrashInAppend(in)
  BY <1>2, <1>3, <1>6 DEF AppendFeatures, CrashInAppend
<1>7. CASE Compact
  BY <1>3, <1>7 DEF Compact
<1>8. CASE Crash
  BY <1>2, <1>8 DEF Crash
<1>9. CASE \E k \in 1 .. MaxEntries : CrashInCompaction(k)
  BY <1>2, <1>9 DEF CrashInCompaction
<1>10. CASE UNCHANGED vars
  BY <1>3, <1>10 DEF vars
<1> QED
  BY <1>4, <1>5, <1>6, <1>7, <1>8, <1>9, <1>10 DEF Next

LEMMA BarsInvExact == BarsInv => BarsAreExact
<1> SUFFICES ASSUME BarsInv PROVE BarsAreExact
  OBVIOUS
<1>1. Counted(tape, eng) /\ RingExact(tape, eng) /\ eng.count \in Nat
  BY DEF BarsInv, Exact, Counted, EngineOk
<1>2. Threshold * eng.count + eng.acc = Volume(Len(tape))
  BY <1>1, TapeIs DEF Counted
<1>3. ASSUME NEW bar \in Available(eng), bar # eng.count - Slots
      PROVE  LET row == BarRow(eng, bar)
             IN /\ row.bar = bar
                /\ row.close = LastOf(bar)
                /\ row.high \in PricesOf(bar) /\ row.low \in PricesOf(bar)
                /\ \A p \in PricesOf(bar) : row.low <= p /\ p <= row.high
  <2>1. bar \in Nat
    BY <1>1, AvailableIs
  <2>2. ExactRow(tape, BarRow(eng, bar), bar)
    BY <1>1, <1>3, <2>1, BarRowIs DEF RingExact
  <2> QED
    BY <2>2, TapeIs, Zenon DEF ExactRow, Extreme
<1> QED
  BY <1>2, <1>3 DEF BarsAreExact

(* ingest_trade keeps every dollar of volume: the closed bars and the rest *)
(* are the volume traded, and every row of the ring, the zeroed one apart, *)
(* has the extremes and the close of the trades that fell into its bar,    *)
(* however many bars one trade closes and however often the ring wraps.    *)
THEOREM BarsHoldTheirTrades == Spec => []BarsAreExact
BY BarsInvInit, BarsInvNext, BarsInvExact, PTL DEF Spec

-----------------------------------------------------------------------------
(* Which prices of a bar touch the barriers of an intent.                  *)

AtStop(s, p) == IF s.side > 0 THEN p <= Stop(s.entry, 1) ELSE p >= Stop(s.entry, -1)
AtTarget(s, p) == IF s.side > 0 THEN p >= Target(s.entry, 1) ELSE p <= Target(s.entry, -1)
StopIn(t, s, b) == \E p \in PricesIn(t, b) : AtStop(s, p)
TargetIn(t, s, b) == \E p \in PricesIn(t, b) : AtTarget(s, p)

LEMMA TouchesIs ==
  ASSUME NEW s, NEW b
  PROVE  (TouchesStop(s, b) <=> StopIn(tape, s, b)) /\ (TouchesTarget(s, b) <=> TargetIn(tape, s, b))
BY TapeIs DEF TouchesStop, TouchesTarget, StopIn, TargetIn, AtStop, AtTarget

(* No barrier is at a fraction.                                            *)
LEMMA BarriersAreNumbers ==
  \A side \in {-1, 1} : Stop(Entry, side) \in Int /\ Target(Entry, side) \in Int
<1> SUFFICES ASSUME NEW side \in {-1, 1}
             PROVE  Stop(Entry, side) \in Int /\ Target(Entry, side) \in Int
  OBVIOUS
<1> DEFINE m == side * Sl
           n == side * Tp
<1>1. Entry \in Int /\ side * Sl \in Int /\ side * Tp \in Int
  BY TrainingAssumption, LabelerAssumption
<1> HIDE DEF m, n
<1>2. m \in Int /\ n \in Int
  BY <1>1 DEF m, n
<1>3. 10000 - m \in Int /\ 10000 + n \in Int
  BY <1>2
<1>4. Entry * (10000 - m) \in Int /\ Entry * (10000 + n) \in Int
  BY <1>1, <1>3
<1>5. (Entry * (10000 - m)) \div 10000 \in Int /\ (Entry * (10000 + n)) \div 10000 \in Int
  BY <1>4
<1> QED
  BY <1>5 DEF Stop, Target, m, n

(* The extremes of a bar touch a barrier exactly when one of its trades    *)
(* does.                                                                   *)
LEMMA RowTouches ==
  ASSUME NEW t, NEW row, NEW b, ExactRow(t, row, b), \A p \in PricesIn(t, b) : p \in Nat,
         NEW s \in OpenIntents
  PROVE  (HitsStop(s, row) <=> StopIn(t, s, b)) /\ (HitsTarget(s, row) <=> TargetIn(t, s, b))
<1> DEFINE hi == row.high
           lo == row.low
           st == IF s.side > 0 THEN Stop(s.entry, 1) ELSE Stop(s.entry, -1)
           tg == IF s.side > 0 THEN Target(s.entry, 1) ELSE Target(s.entry, -1)
           P == PricesIn(t, b)
<1>1. hi \in P /\ lo \in P /\ (\A p \in P : p \in Nat) /\ \A p \in P : lo <= p /\ p <= hi
  BY DEF ExactRow, Extreme
<1>2. s.entry = Entry /\ s.side \in {-1, 1}
  BY DEF OpenIntents
<1>3. st \in Int /\ tg \in Int
  BY <1>2, BarriersAreNumbers
<1>4. HitsStop(s, row) <=> IF s.side > 0 THEN lo <= st ELSE hi >= st
  BY DEF HitsStop
<1>5. HitsTarget(s, row) <=> IF s.side > 0 THEN hi >= tg ELSE lo <= tg
  BY DEF HitsTarget
<1>6. \A p : AtStop(s, p) <=> IF s.side > 0 THEN p <= st ELSE p >= st
  BY DEF AtStop
<1>7. \A p : AtTarget(s, p) <=> IF s.side > 0 THEN p >= tg ELSE p <= tg
  BY DEF AtTarget
<1> HIDE DEF hi, lo, st, tg, P
<1>8. (\E p \in P : p <= st) <=> lo <= st
  BY <1>1, <1>3
<1>9. (\E p \in P : p >= st) <=> hi >= st
  BY <1>1, <1>3
<1>10. (\E p \in P : p <= tg) <=> lo <= tg
  BY <1>1, <1>3
<1>11. (\E p \in P : p >= tg) <=> hi >= tg
  BY <1>1, <1>3
<1>12. StopIn(t, s, b) <=> IF s.side > 0 THEN lo <= st ELSE hi >= st
  BY <1>6, <1>8, <1>9, Zenon DEF StopIn, P
<1>13. TargetIn(t, s, b) <=> IF s.side > 0 THEN hi >= tg ELSE lo <= tg
  BY <1>7, <1>10, <1>11, Zenon DEF TargetIn, P
<1> QED
  BY <1>4, <1>5, <1>12, <1>13, Zenon

LEMMA LabelIs ==
  ASSUME NEW s, NEW row
  PROVE  /\ Label(s, row) = -1 => HitsStop(s, row)
         /\ Label(s, row) = 1 => HitsTarget(s, row) /\ ~HitsStop(s, row)
         /\ Label(s, row) = 0 => ~HitsTarget(s, row) /\ ~HitsStop(s, row)
BY DEF Label

-----------------------------------------------------------------------------
(* Intents that nothing has touched, and labels that are right.            *)

Quiet(t, s, bar) ==
  \A b \in s.entryBar .. (bar - 1) : ~StopIn(t, s, b) /\ ~TargetIn(t, s, b) /\ b < s.entryBar + MaxBars

Right(t, x) ==
  LET s == x.intent
  IN /\ Quiet(t, s, x.bar)
     /\ x.label = -1 => StopIn(t, s, x.bar)
     /\ x.label = 1 => TargetIn(t, s, x.bar) /\ ~StopIn(t, s, x.bar)
     /\ x.label = 0 => x.bar = s.entryBar + MaxBars /\ ~StopIn(t, s, x.bar) /\ ~TargetIn(t, s, x.bar)

Untouched(t, e, s) == s.entryBar <= e.count /\ Quiet(t, s, e.count)

(* A closed bar stays what it is.                                          *)
LEMMA ClosedBarsStay ==
  ASSUME NEW t, NEW e, Counted(t, e), NEW x \in Trades, NEW b \in Nat, b < e.count
  PROVE  PricesIn(Append(t, x), b) = PricesIn(t, b)
<1>1. e.count \in Nat
  BY DEF Counted, EngineOk
<1>2. ~Joins(e, x, b)
  BY <1>1 DEF Joins, Reaches
<1> QED
  BY <1>2, PricesAfter

LEMMA QuietStays ==
  ASSUME NEW t, NEW e, Counted(t, e), NEW x \in Trades, NEW s \in OpenIntents,
         NEW bar \in Nat, bar <= e.count, Quiet(t, s, bar)
  PROVE  Quiet(Append(t, x), s, bar)
<1>1. s.entryBar \in Nat /\ e.count \in Nat
  BY DEF OpenIntents, Counted, EngineOk
<1>2. \A b \in s.entryBar .. (bar - 1) : b \in Nat /\ b < e.count
  BY <1>1
<1>3. \A b \in s.entryBar .. (bar - 1) : PricesIn(Append(t, x), b) = PricesIn(t, b)
  BY <1>2, ClosedBarsStay
<1> QED
  BY <1>3 DEF Quiet, StopIn, TargetIn

LEMMA RightStays ==
  ASSUME NEW t, NEW e, Counted(t, e), NEW x \in Trades, NEW y \in Labels,
         y.bar \in Nat, y.bar < e.count, Right(t, y)
  PROVE  Right(Append(t, x), y)
<1>1. y.intent \in OpenIntents /\ e.count \in Nat
  BY DEF Labels, Counted, EngineOk
<1>2. y.bar <= e.count
  BY <1>1
<1>3. Quiet(Append(t, x), y.intent, y.bar)
  BY <1>1, <1>2, QuietStays DEF Right
<1>4. PricesIn(Append(t, x), y.bar) = PricesIn(t, y.bar)
  BY ClosedBarsStay
<1> QED
  BY <1>3, <1>4 DEF Right, StopIn, TargetIn

(* The rows of the bars a trade has closed are exact: it closes fewer than *)
(* the ring has slots.                                                     *)
LEMMA ClosedRowsExact ==
  ASSUME NEW t, NEW e, Exact(t, e), NEW x \in Trades
  PROVE  LET a == Ingested(e, x[1], x[2])
             d == Cardinality(Closed(e, x[1], x[2]))
         IN /\ d \in Nat /\ a.count = e.count + d /\ e.count \in Nat
            /\ \A b \in e.count .. (e.count + d - 1) :
                 /\ b \in Nat /\ b \in Available(a)
                 /\ ExactRow(Append(t, x), BarRow(a, b), b)
                 /\ \A p \in PricesIn(Append(t, x), b) : p \in Nat
<1> DEFINE a == Ingested(e, x[1], x[2])
           f == Filled(e, x[1], x[2])
           d == f \div Threshold
           t2 == Append(t, x)
           v == DollarValue(x[1], x[2])
<1>1. EngineOk(e) /\ Counted(t, e) /\ e.count \in Nat /\ e.acc \in 0 .. Threshold - 1
  BY DEF Exact, Counted, EngineOk
<1>2. x[1] \in Nat /\ x[2] \in Nat
  BY TrainingAssumption
<1>3. IngestedWell(e, x[1], x[2])
  BY <1>1, <1>2, IngestedCounts
<1>4. d \in Nat /\ a.count = e.count + d /\ Cardinality(Closed(e, x[1], x[2])) = d /\ v \in Nat
  BY <1>3 DEF IngestedWell
<1>5. f = Threshold * d + (f % Threshold) /\ f % Threshold \in 0 .. Threshold - 1
  BY <1>3, Zenon DEF IngestedWell
<1>6. v <= (Slots - 1) * Threshold
  BY SmallTrades
<1>7. f = e.acc + v
  BY DEF Filled
<1>8. Exact(t2, a)
  BY ExactGrows
<1> HIDE DEF a, f, d, t2, v
<1>9. d <= Slots - 1
  <2> SUFFICES ASSUME Slots <= d PROVE FALSE
    BY <1>4, BarAssumption
  <2>1. Threshold * Slots <= Threshold * d /\ Threshold * Slots \in Nat /\ Threshold * d \in Nat
    BY <1>4, BarAssumption, ProductGrows
  <2>2. (Slots - 1) * Threshold = Threshold * Slots - Threshold
    BY BarAssumption
  <2> DEFINE m == Threshold * Slots
             n == Threshold * d
             r == f % Threshold
             w == (Slots - 1) * Threshold
  <2>3. m <= n /\ m \in Nat /\ n \in Nat /\ w = m - Threshold /\ Threshold \in Nat
        /\ f = n + r /\ r \in 0 .. Threshold - 1 /\ f = e.acc + v /\ v <= w /\ v \in Nat
        /\ e.acc \in 0 .. Threshold - 1
    BY <1>1, <1>4, <1>5, <1>6, <1>7, <2>1, <2>2, BarAssumption
  <2> HIDE DEF m, n, r, w
  <2> QED
    BY <2>3
<1>10. Exact(t2, a) => Counted(t2, a) /\ RingExact(t2, a) /\ a.count \in Nat
  BY DEF Exact, Counted, EngineOk
<1>11. ASSUME NEW b \in e.count .. (e.count + d - 1)
       PROVE  /\ b \in Nat /\ b \in Available(a)
              /\ ExactRow(t2, BarRow(a, b), b)
              /\ \A p \in PricesIn(t2, b) : p \in Nat
  <2>1. b \in Nat /\ b < a.count /\ a.count - Slots <= b /\ b # a.count - Slots
    BY <1>1, <1>4, <1>9, BarAssumption
  <2>2. b \in Available(a)
    BY <1>8, <1>10, <2>1, AvailableIs
  <2>3. ExactRow(t2, BarRow(a, b), b)
    BY <1>8, <1>10, <2>1, <2>2, BarRowIs DEF RingExact
  <2>4. \A p \in PricesIn(t2, b) : p \in Nat
    BY <1>8, <1>10, <2>1, PricesAfter
  <2> QED
    BY <2>1, <2>2, <2>3, <2>4
<1> QED
  BY <1>1, <1>4, <1>11 DEF a, t2

(* The invariant: of the open intents and of the labels so far.            *)
OpenUntouched(t, e, l) == \A k \in OpenSlots(l) : Untouched(t, e, l.slots[k])
AllRight(t, e, xs) == xs \in Seq(Labels) /\ \A k \in 1 .. Len(xs) : xs[k].bar \in Nat /\ xs[k].bar < e.count /\ Right(t, xs[k])

LabelsInv ==
  Exact(tape, eng) /\ lab \in Labelers /\ OpenUntouched(tape, eng, lab) /\ AllRight(tape, eng, results)

(* Bars whose rows are exact and do not resolve an intent leave it quiet.  *)
LEMMA QuietOn ==
  ASSUME NEW t, NEW e, Exact(t, e), NEW x \in Trades, NEW s \in OpenIntents, Untouched(t, e, s),
         NEW bar \in Nat, e.count <= bar, bar <= e.count + Cardinality(Closed(e, x[1], x[2])),
         Survives(s, Ingested(e, x[1], x[2]), e.count, bar)
  PROVE  Quiet(Append(t, x), s, bar)
<1> DEFINE t2 == Append(t, x)
           a == Ingested(e, x[1], x[2])
           d == Cardinality(Closed(e, x[1], x[2]))
<1>1. /\ d \in Nat /\ e.count \in Nat
      /\ \A b \in e.count .. (e.count + d - 1) :
           /\ b \in Available(a) /\ ExactRow(t2, BarRow(a, b), b)
           /\ \A p \in PricesIn(t2, b) : p \in Nat
  BY ClosedRowsExact
<1>2. Counted(t, e) /\ s.entryBar \in Nat /\ MaxBars \in Nat
  BY LabelerAssumption DEF Exact, OpenIntents
<1>3. Quiet(t2, s, e.count)
  <2>1. Quiet(t, s, e.count) /\ e.count <= e.count
    BY <1>1 DEF Untouched
  <2> QED
    BY <1>1, <1>2, <2>1, QuietStays
<1> HIDE DEF t2, a, d
<1>4. ASSUME NEW b \in s.entryBar .. (bar - 1)
      PROVE  ~StopIn(t2, s, b) /\ ~TargetIn(t2, s, b) /\ b < s.entryBar + MaxBars
  <2>1. CASE b < e.count
    <3>1. b \in s.entryBar .. (e.count - 1)
      BY <1>1, <1>2, <2>1
    <3> QED
      BY <1>3, <3>1 DEF Quiet
  <2>2. CASE ~(b < e.count)
    <3>1. b \in e.count .. (bar - 1) /\ b \in e.count .. (e.count + d - 1) /\ b \in Nat
      BY <1>1, <1>2, <2>2 DEF d
    <3>2. /\ b \in Available(a) /\ ExactRow(t2, BarRow(a, b), b)
          /\ \A p \in PricesIn(t2, b) : p \in Nat
      BY <1>1, <3>1
    <3>3. ~Resolves(s, BarRow(a, b), b)
      BY <3>1, <3>2 DEF Survives, a
    <3>4. ~HitsStop(s, BarRow(a, b)) /\ ~HitsTarget(s, BarRow(a, b)) /\ ~HeldLongEnough(s, b)
      BY <3>3 DEF Resolves
    <3>5. ~StopIn(t2, s, b) /\ ~TargetIn(t2, s, b)
      BY <3>2, <3>4, RowTouches
    <3>6. b < s.entryBar + MaxBars
      BY <1>2, <3>1, <3>4 DEF HeldLongEnough
    <3> QED
      BY <3>5, <3>6
  <2> QED
    BY <2>1, <2>2
<1> QED
  BY <1>4 DEF Quiet, t2

(* A label that is earned is right.                                        *)
LEMMA EarnedIsRight ==
  ASSUME NEW t, NEW e, Exact(t, e), NEW x \in Trades, NEW l \in Labelers, OpenUntouched(t, e, l),
         NEW y \in Labels,
         Earned(l, Ingested(e, x[1], x[2]), e.count, Cardinality(Closed(e, x[1], x[2])), y)
  PROVE  /\ y.bar \in Nat /\ y.bar < Ingested(e, x[1], x[2]).count
         /\ Right(Append(t, x), y)
<1> DEFINE t2 == Append(t, x)
           a == Ingested(e, x[1], x[2])
           d == Cardinality(Closed(e, x[1], x[2]))
<1>1. /\ d \in Nat /\ a.count = e.count + d /\ e.count \in Nat
      /\ \A b \in e.count .. (e.count + d - 1) :
           /\ b \in Available(a) /\ ExactRow(t2, BarRow(a, b), b)
           /\ \A p \in PricesIn(t2, b) : p \in Nat
  BY ClosedRowsExact
<1>2. PICK i \in OpenSlots(l) :
        /\ y.intent = l.slots[i]
        /\ y.bar \in e.count .. e.count + d - 1
        /\ Resolves(l.slots[i], BarRow(a, y.bar), y.bar)
        /\ y.label = Label(l.slots[i], BarRow(a, y.bar))
        /\ Survives(l.slots[i], a, e.count, y.bar)
  BY DEF Earned
<1> DEFINE s == l.slots[i]
           bar == y.bar
<1>3. s \in OpenIntents /\ Untouched(t, e, s)
  BY OpenSlotsAre DEF OpenUntouched
<1>4. s.entryBar \in Nat /\ MaxBars \in Nat /\ s.entryBar <= e.count
  BY <1>3, LabelerAssumption DEF OpenIntents, Untouched
<1>5. bar \in Nat /\ e.count <= bar /\ bar < e.count + d /\ bar <= e.count + d
  BY <1>1, <1>2
<1>6. Quiet(t2, s, bar)
  BY <1>2, <1>3, <1>5, QuietOn
<1>7. ExactRow(t2, BarRow(a, bar), bar) /\ \A p \in PricesIn(t2, bar) : p \in Nat
  BY <1>1, <1>2
<1> DEFINE row == BarRow(a, bar)
<1>8. (HitsStop(s, row) <=> StopIn(t2, s, bar)) /\ (HitsTarget(s, row) <=> TargetIn(t2, s, bar))
  BY <1>3, <1>7, RowTouches
<1>9. y.intent = s /\ y.label = Label(s, row) /\ Resolves(s, row, bar)
  BY <1>2
<1> HIDE DEF t2, a, d, s, bar, row
<1>10. /\ y.label = -1 => HitsStop(s, row)
       /\ y.label = 1 => HitsTarget(s, row) /\ ~HitsStop(s, row)
       /\ y.label = 0 => ~HitsTarget(s, row) /\ ~HitsStop(s, row)
  BY <1>9, LabelIs
<1>11. y.label = 0 => bar = s.entryBar + MaxBars
  <2> SUFFICES ASSUME y.label = 0 PROVE bar = s.entryBar + MaxBars
    OBVIOUS
  <2>1. HeldLongEnough(s, bar)
    BY <1>9, <1>10 DEF Resolves
  <2>2. bar - s.entryBar >= MaxBars
    BY <2>1 DEF HeldLongEnough
  <2>3. bar > s.entryBar => bar - 1 < s.entryBar + MaxBars
    <3>1. bar > s.entryBar => bar - 1 \in s.entryBar .. (bar - 1)
      BY <1>4, <1>5
    <3> QED
      BY <1>6, <3>1 DEF Quiet
  <2> QED
    BY <1>1, <1>4, <1>5, <2>2, <2>3
<1>12. Right(t2, y)
  BY <1>6, <1>8, <1>9, <1>10, <1>11 DEF Right, bar
<1> QED
  BY <1>1, <1>5, <1>12 DEF t2, a, d, bar

LEMMA LabelsInvInit == Init => LabelsInv
<1> SUFFICES ASSUME Init PROVE LabelsInv
  OBVIOUS
<1>1. tape = <<>> /\ eng = NewEngine /\ lab = NewLabeler /\ results = <<>>
  BY DEF Init
<1>2. lab \in Labelers /\ OpenSlots(lab) = {}
  BY <1>1, NewLabelerOk
<1>3. AllRight(tape, eng, results)
  BY <1>1 DEF AllRight
<1> QED
  BY <1>1, <1>2, <1>3, ExactAtFirst DEF LabelsInv, OpenUntouched

LEMMA TradeLabels ==
  ASSUME LabelsInv, NEW t \in Trades, Trade(t[1], t[2])
  PROVE  LabelsInv'
<1> DEFINE a == Ingested(eng, t[1], t[2])
           n == Cardinality(Closed(eng, t[1], t[2]))
           t2 == Append(tape, t)
           scan == AfterBars(lab, a, eng.count, n)
           xs == scan.labels
<1>1. <<t[1], t[2]>> = t
  BY TrainingAssumption
<1>2. tape' = t2 /\ eng' = a /\ lab' = scan.l /\ results' = results \o xs
  BY <1>1 DEF Trade
<1>3. Exact(tape, eng) /\ lab \in Labelers /\ OpenUntouched(tape, eng, lab) /\ AllRight(tape, eng, results)
  BY DEF LabelsInv
<1>4. Exact(t2, a) /\ Counted(tape, eng)
  BY <1>3, ExactGrows DEF Exact
<1>5. n \in Nat /\ a.count = eng.count + n /\ eng.count \in Nat
  BY <1>3, ClosedRowsExact
<1>6. Handled(lab, a, eng.count, n, scan)
  <2>1. eng.count \in Int /\ a.count \in Nat
    BY <1>5
  <2> HIDE DEF a, n
  <2> QED
    BY <1>3, <1>5, <2>1, BarsHandled, Zenon
<1> HIDE DEF scan
<1>7. /\ scan.l = [slots |-> scan.l.slots, next |-> lab.next] /\ scan.l.slots \in SlotStates
      /\ xs \in Seq(Labels)
      /\ \A i \in 1 .. MaxOpen :
           \/ /\ scan.l.slots[i] = lab.slots[i]
              /\ i \in OpenSlots(lab) => Survives(lab.slots[i], a, eng.count, eng.count + n)
           \/ scan.l.slots[i] = Free
      /\ \A k \in 1 .. Len(xs) : Earned(lab, a, eng.count, n, xs[k])
  BY <1>6 DEF Handled
<1>8. scan.l \in Labelers
  <2>1. lab.next \in Nat
    BY <1>3 DEF Labelers
  <2> QED
    BY <1>7, <2>1 DEF Labelers
<1>9. OpenUntouched(t2, a, scan.l)
  <2> SUFFICES ASSUME NEW k \in OpenSlots(scan.l) PROVE Untouched(t2, a, scan.l.slots[k])
    BY DEF OpenUntouched
  <2>1. k \in 1 .. MaxOpen /\ scan.l.slots[k] # Free
    BY DEF OpenSlots
  <2>2. scan.l.slots[k] = lab.slots[k]
    BY <1>7, <2>1
  <2>3. k \in OpenSlots(lab)
    BY <2>1, <2>2 DEF OpenSlots
  <2> DEFINE s == lab.slots[k]
  <2>4. s \in OpenIntents /\ Untouched(tape, eng, s)
    BY <1>3, <2>3, OpenSlotsAre DEF OpenUntouched
  <2>5. Survives(s, a, eng.count, eng.count + n)
    BY <1>7, <2>1, <2>3
  <2>6. eng.count + n \in Nat /\ eng.count <= eng.count + n /\ eng.count + n <= eng.count + n
    BY <1>5
  <2> HIDE DEF s
  <2>7. Quiet(t2, s, eng.count + n)
    BY <1>3, <2>4, <2>5, <2>6, QuietOn
  <2>8. s.entryBar <= eng.count /\ s.entryBar \in Nat
    BY <2>4 DEF Untouched, OpenIntents
  <2> HIDE DEF a, n, t2
  <2>9. Untouched(t2, a, s)
    BY <1>5, <2>7, <2>8 DEF Untouched
  <2> QED
    BY <2>2, <2>9 DEF s
<1>10. AllRight(t2, a, results \o xs)
  <2>1. results \in Seq(Labels) /\ \A k \in 1 .. Len(results) :
          results[k].bar \in Nat /\ results[k].bar < eng.count /\ Right(tape, results[k])
    BY <1>3 DEF AllRight
  <2>2. \A k \in 1 .. Len(results) : results[k] \in Labels
    BY <2>1
  <2>3. \A k \in 1 .. Len(xs) : xs[k] \in Labels
    BY <1>7
  <2>4. \A k \in 1 .. Len(results) :
          results[k].bar \in Nat /\ results[k].bar < a.count /\ Right(t2, results[k])
    <3> SUFFICES ASSUME NEW k \in 1 .. Len(results)
                 PROVE  results[k].bar \in Nat /\ results[k].bar < a.count /\ Right(t2, results[k])
      OBVIOUS
    <3>1. Right(t2, results[k])
      BY <1>4, <2>1, <2>2, RightStays
    <3> HIDE DEF a, n, t2
    <3> QED
      BY <1>5, <2>1, <3>1
  <2>5. \A k \in 1 .. Len(xs) : xs[k].bar \in Nat /\ xs[k].bar < a.count /\ Right(t2, xs[k])
    BY <1>3, <1>7, <2>3, EarnedIsRight
  <2> HIDE DEF a, n, t2, xs
  <2>6. Len(results) \in Nat /\ Len(xs) \in Nat /\ results \o xs \in Seq(Labels)
        /\ Len(results \o xs) = Len(results) + Len(xs)
    BY <1>7, <2>1
  <2>7. ASSUME NEW k \in 1 .. Len(results \o xs)
        PROVE  \/ \E j \in 1 .. Len(results) : (results \o xs)[k] = results[j]
               \/ \E j \in 1 .. Len(xs) : (results \o xs)[k] = xs[j]
    <3>1. CASE k <= Len(results)
      <4>1. k \in 1 .. Len(results) /\ (results \o xs)[k] = results[k]
        BY <1>7, <2>1, <2>6, <3>1
      <4> QED
        BY <4>1
    <3>2. CASE ~(k <= Len(results))
      <4>1. k - Len(results) \in 1 .. Len(xs) /\ (results \o xs)[k] = xs[k - Len(results)]
        BY <1>7, <2>1, <2>6, <3>2
      <4> QED
        BY <4>1
    <3> QED
      BY <3>1, <3>2
  <2> DEFINE zs == results \o xs
  <2> HIDE DEF zs
  <2>8. \A k \in 1 .. Len(zs) : zs[k].bar \in Nat /\ zs[k].bar < a.count /\ Right(t2, zs[k])
    BY <2>4, <2>5, <2>7 DEF zs
  <2> QED
    BY <2>6, <2>8 DEF AllRight, zs
<1> HIDE DEF a, t2, xs
<1> QED
  BY <1>2, <1>4, <1>8, <1>9, <1>10 DEF LabelsInv

LEMMA RegisterLabels ==
  ASSUME LabelsInv, NEW side \in {-1, 1}, Register(side)
  PROVE  LabelsInv'
<1> DEFINE l2 == Registered(lab, eng, Entry, side)
<1>1. lab' = l2 /\ eng' = eng /\ tape' = tape /\ results' = results
  BY DEF Register
<1>2. Exact(tape, eng) /\ lab \in Labelers /\ OpenUntouched(tape, eng, lab) /\ AllRight(tape, eng, results)
  BY DEF LabelsInv
<1>3. eng.count \in Nat
  BY <1>2 DEF Exact, Counted, EngineOk
<1>4. /\ l2 \in Labelers
      /\ l2.slots[SlotFor(lab)] = [id |-> lab.next, side |-> side, entry |-> Entry, entryBar |-> eng.count]
      /\ \A i \in 1 .. MaxOpen : i # SlotFor(lab) => l2.slots[i] = lab.slots[i]
      /\ OpenSlots(l2) = OpenSlots(lab) \cup {SlotFor(lab)}
  <2>1. RegisteredWell(lab, eng, side, l2)
    BY <1>2, <1>3, RegisteredIs
  <2> QED
    BY <2>1, Zenon DEF RegisteredWell
<1> HIDE DEF l2
<1>5. ASSUME NEW k \in OpenSlots(l2)
      PROVE  Untouched(tape, eng, l2.slots[k])
  <2>1. CASE k = SlotFor(lab)
    <3> DEFINE s == l2.slots[k]
    <3>1. s = [id |-> lab.next, side |-> side, entry |-> Entry, entryBar |-> eng.count]
      BY <1>4, <2>1, Zenon
    <3> HIDE DEF s
    <3>2. s.entryBar = eng.count
      BY <3>1
    <3>3. \A b \in s.entryBar .. (eng.count - 1) : FALSE
      BY <1>3, <3>2
    <3>4. Untouched(tape, eng, s)
      BY <1>3, <3>2, <3>3 DEF Untouched, Quiet
    <3> QED
      BY <3>4 DEF s
  <2>2. CASE k # SlotFor(lab)
    <3>1. k \in OpenSlots(lab) /\ k \in 1 .. MaxOpen
      BY <1>4, <2>2 DEF OpenSlots
    <3>2. l2.slots[k] = lab.slots[k]
      BY <1>4, <2>2, <3>1
    <3> QED
      BY <1>2, <3>1, <3>2 DEF OpenUntouched
  <2> QED
    BY <2>1, <2>2
<1>6. OpenUntouched(tape, eng, l2)
  BY <1>5 DEF OpenUntouched
<1> QED
  BY <1>1, <1>2, <1>4, <1>6 DEF LabelsInv

LEMMA LabelsInvNext == LabelsInv /\ [Next]_vars => LabelsInv'
<1> SUFFICES ASSUME LabelsInv, [Next]_vars PROVE LabelsInv'
  OBVIOUS
<1>1. ASSUME NEW w, RestartOver(w)
      PROVE  LabelsInv'
  <2>1. tape' = <<>> /\ eng' = NewEngine /\ lab' = NewLabeler /\ results' = <<>>
    BY <1>1 DEF RestartOver
  <2>2. NewLabeler \in Labelers /\ OpenSlots(NewLabeler) = {}
    BY NewLabelerOk
  <2>3. AllRight(<<>>, NewEngine, <<>>)
    BY DEF AllRight
  <2>4. OpenUntouched(<<>>, NewEngine, NewLabeler)
    BY <2>2 DEF OpenUntouched
  <2> QED
    BY <2>1, <2>2, <2>3, <2>4, ExactAtFirst DEF LabelsInv
<1>2. ASSUME UNCHANGED <<eng, lab, tape, results>>
      PROVE  LabelsInv'
  BY <1>2 DEF LabelsInv
<1>3. CASE \E t \in Trades : Trade(t[1], t[2])
  BY <1>3, TradeLabels
<1>4. CASE \E side \in {-1, 1} : Register(side)
  BY <1>4, RegisterLabels
<1>5. CASE \E in \in todo : AppendFeatures(in) \/ CrashInAppend(in)
  BY <1>1, <1>2, <1>5 DEF AppendFeatures, CrashInAppend
<1>6. CASE Compact
  BY <1>2, <1>6 DEF Compact
<1>7. CASE Crash
  BY <1>1, <1>7 DEF Crash
<1>8. CASE \E k \in 1 .. MaxEntries : CrashInCompaction(k)
  BY <1>1, <1>8 DEF CrashInCompaction
<1>9. CASE UNCHANGED vars
  BY <1>2, <1>9 DEF vars
<1> QED
  BY <1>3, <1>4, <1>5, <1>6, <1>7, <1>8, <1>9 DEF Next

LEMMA LabelsInvRight == LabelsInv => LabelsArePessimistic
<1> SUFFICES ASSUME LabelsInv PROVE LabelsArePessimistic
  OBVIOUS
<1>1. AllRight(tape, eng, results) /\ results \in Seq(Labels)
  BY DEF LabelsInv, AllRight
<1>2. ASSUME NEW k \in DOMAIN results
      PROVE  LET s == results[k].intent
                 bar == results[k].bar
                 before == s.entryBar..(bar - 1)
             IN /\ \A b \in before : ~TouchesStop(s, b) /\ ~TouchesTarget(s, b) /\ b < s.entryBar + MaxBars
                /\ CASE results[k].label = -1 -> TouchesStop(s, bar)
                     [] results[k].label = 1 -> TouchesTarget(s, bar) /\ ~TouchesStop(s, bar)
                     [] results[k].label = 0 -> /\ bar = s.entryBar + MaxBars
                                                /\ ~TouchesStop(s, bar) /\ ~TouchesTarget(s, bar)
  <2> DEFINE y == results[k]
             s == y.intent
             bar == y.bar
  <2>1. Right(tape, y) /\ y \in Labels
    BY <1>1 DEF AllRight
  <2>2. y.label \in {-1, 0, 1}
    BY <2>1 DEF Labels
  <2>3. \A b : (TouchesStop(s, b) <=> StopIn(tape, s, b)) /\ (TouchesTarget(s, b) <=> TargetIn(tape, s, b))
    BY TouchesIs
  <2> HIDE DEF y
  <2>4. \A b \in s.entryBar .. (bar - 1) : ~TouchesStop(s, b) /\ ~TouchesTarget(s, b) /\ b < s.entryBar + MaxBars
    BY <2>1, <2>3 DEF Right, Quiet
  <2>5. /\ y.label = -1 => TouchesStop(s, bar)
        /\ y.label = 1 => TouchesTarget(s, bar) /\ ~TouchesStop(s, bar)
        /\ y.label = 0 => bar = s.entryBar + MaxBars /\ ~TouchesStop(s, bar) /\ ~TouchesTarget(s, bar)
    BY <2>1, <2>3 DEF Right
  <2>6. (CASE y.label = -1 -> TouchesStop(s, bar)
           [] y.label = 1 -> TouchesTarget(s, bar) /\ ~TouchesStop(s, bar)
           [] y.label = 0 -> /\ bar = s.entryBar + MaxBars
                             /\ ~TouchesStop(s, bar) /\ ~TouchesTarget(s, bar))
    <3> HIDE DEF s, bar
    <3> QED
      BY <2>2, <2>5
  <2> QED
    BY <2>4, <2>6 DEF y
<1> QED
  BY <1>2 DEF LabelsArePessimistic

(* _scan_barriers labels by the trades themselves: a stop seen in any bar  *)
(* comes before a target, no earlier bar had touched either, and without   *)
(* one of them the label 0 comes with the bar MaxBars after the entry.     *)
(* Rests on SmallTrades: a trade that closes as many bars as the ring has  *)
(* slots has the labeler read a row of zeros.                              *)
THEOREM LabelsAreByTheTrades == Spec => []LabelsArePessimistic
BY LabelsInvInit, LabelsInvNext, LabelsInvRight, PTL DEF Spec
=============================================================================
