----------------------------- MODULE FiniteSums -----------------------------
(***************************************************************************)
(* Lemmas about sums over finite sets.  The library's sum is a recursive   *)
(* function on the subsets of the set; these lemmas say what it returns.   *)
(* At the end, lemmas about numbers that more than one module rests on.    *)
(***************************************************************************)
EXTENDS Integers, Sequences, FiniteSetsExt, Functions, FiniteSetTheorems, WellFoundedInduction, TLAPS

(* What holds of a set as soon as it holds of all its proper subsets holds *)
(* of every subset of a finite set.                                        *)
LEMMA SubsetInduction ==
  ASSUME NEW U, IsFiniteSet(U), NEW S,
         \A D \in SUBSET U : (\A E \in SUBSET D : E # D => E \in S) => D \in S
  PROVE  \A D \in SUBSET U : D \in S
<1> DEFINE Bad == {D \in SUBSET U : D \notin S}
<1> SUFFICES ASSUME Bad # {} PROVE FALSE
  OBVIOUS
<1>1. Bad \subseteq FiniteSubsetsOf(U)
  BY FS_Subset DEF FiniteSubsetsOf
<1>2. PICK D \in Bad : \A E \in Bad : ~(<<E, D>> \in StrictSubsetOrdering(U))
  <2> HIDE DEF Bad
  <2>1. IsWellFoundedOn(StrictSubsetOrdering(U), FiniteSubsetsOf(U))
    BY FS_StrictSubsetOrderingWellFounded
  <2>2. Bad # {}
    OBVIOUS
  <2> DEFINE R == StrictSubsetOrdering(U)
             T == FiniteSubsetsOf(U)
  <2>3. IsWellFoundedOn(R, T)
    BY <2>1
  <2> HIDE DEF R, T
  <2>4. \E D \in Bad : \A E \in Bad : ~(<<E, D>> \in R)
    BY <1>1, <2>2, <2>3, WFMin DEF T
  <2> QED BY <2>4 DEF R
<1>3. \A E \in SUBSET D : E # D => E \in S
  BY <1>2 DEF StrictSubsetOrdering
<1> QED BY <1>2, <1>3

(* The sum of f over the set D. *)
SumOf(f, D) == MapThenSumSet(LAMBDA o : f[o], D)

Pick(D) == CHOOSE x \in D : TRUE

(* g[D] is the sum of f over D, for the subsets D of U. *)
IsSum(g, f, U) ==
  g = [D \in SUBSET U |-> IF D = {} THEN 0 ELSE f[Pick(D)] + g[D \ {Pick(D)}]]

SumsOver(f, U) == CHOOSE g : IsSum(g, f, U)

(* The library's sum is the last value of such a function.                 *)
LEMMA SumIsLast ==
  ASSUME NEW f, NEW D
  PROVE  SumOf(f, D) = SumsOver(f, D)[D]
BY DEF SumOf, SumsOver, IsSum, Pick, MapThenSumSet, MapThenFoldSet

(* A set that has elements has the one that is picked.                     *)
LEMMA PickIsIn ==
  ASSUME NEW D, D # {}
  PROVE  Pick(D) \in D
BY DEF Pick

(* One round of the recursion.                                             *)
LEMMA SumRound ==
  ASSUME NEW f, NEW g, NEW U, IsSum(g, f, U), NEW D \in SUBSET U
  PROVE  g[D] = IF D = {} THEN 0 ELSE f[Pick(D)] + g[D \ {Pick(D)}]
BY DEF IsSum

(* Two such functions agree where both are defined.                        *)
LEMMA SumsAgree ==
  ASSUME NEW f, NEW U, IsFiniteSet(U), NEW D \in SUBSET U,
         NEW g, IsSum(g, f, U), NEW h, IsSum(h, f, D)
  PROVE  \A E \in SUBSET D : g[E] = h[E]
<1> DEFINE S == {E \in SUBSET D : g[E] = h[E]}
<1>1. IsFiniteSet(D)
  BY FS_Subset
<1>2. \A E \in SUBSET D : (\A F \in SUBSET E : F # E => F \in S) => E \in S
  <2> SUFFICES ASSUME NEW E \in SUBSET D, \A F \in SUBSET E : F # E => F \in S
               PROVE  g[E] = h[E]
    OBVIOUS
  <2>1. g[E] = IF E = {} THEN 0 ELSE f[Pick(E)] + g[E \ {Pick(E)}]
    BY SumRound
  <2>2. h[E] = IF E = {} THEN 0 ELSE f[Pick(E)] + h[E \ {Pick(E)}]
    BY SumRound
  <2>3. E # {} => E \ {Pick(E)} \in SUBSET E /\ E \ {Pick(E)} # E
    BY PickIsIn
  <2>4. E # {} => g[E \ {Pick(E)}] = h[E \ {Pick(E)}]
    BY <2>3
  <2> QED BY <2>1, <2>2, <2>4
<1> HIDE DEF S
<1>3. \A E \in SUBSET D : E \in S
  BY <1>1, <1>2, SubsetInduction
<1> QED BY <1>3 DEF S

(* There is such a function for every finite set.                          *)
LEMMA SumsExist ==
  ASSUME NEW f, NEW U, IsFiniteSet(U)
  PROVE  \A D \in SUBSET U : IsSum(SumsOver(f, D), f, D)
<1> DEFINE S == {D \in SUBSET U : IsSum(SumsOver(f, D), f, D)}
<1>1. \A D \in SUBSET U : (\A E \in SUBSET D : E # D => E \in S) => D \in S
  <2> SUFFICES ASSUME NEW D \in SUBSET U, \A E \in SUBSET D : E # D => E \in S
               PROVE  D \in S
    OBVIOUS
  <2> DEFINE before(E) == SumsOver(f, E \ {Pick(E)})[E \ {Pick(E)}]
             g == [E \in SUBSET D |-> IF E = {} THEN 0 ELSE f[Pick(E)] + before(E)]
  <2>1. \A E \in SUBSET D : E # {} => g[E \ {Pick(E)}] = before(E)
    <3> SUFFICES ASSUME NEW E \in SUBSET D, E # {}
                 PROVE  g[E \ {Pick(E)}] = before(E)
      OBVIOUS
    <3> DEFINE F == E \ {Pick(E)}
               h == SumsOver(f, F)
    <3>1. F \in SUBSET D /\ F # D
      BY PickIsIn
    <3>2. IsSum(h, f, F)
      BY <3>1
    <3>3. h[F] = IF F = {} THEN 0 ELSE f[Pick(F)] + h[F \ {Pick(F)}]
      <4> HIDE DEF h, F
      <4> QED BY <3>2, SumRound
    <3>4. ASSUME F # {} PROVE h[F \ {Pick(F)}] = before(F)
      <4> DEFINE G == F \ {Pick(F)}
      <4>1. G \in SUBSET F /\ G # D
        BY <3>1, <3>4, PickIsIn
      <4>2. IsSum(SumsOver(f, G), f, G)
        BY <3>1, <4>1
      <4>3. IsFiniteSet(F)
        BY <3>1, FS_Subset
      <4> HIDE DEF F, G, h
      <4>4. h[G] = SumsOver(f, G)[G]
        BY <3>2, <4>1, <4>2, <4>3, SumsAgree
      <4> QED BY <4>4 DEF G
    <3>5. g[F] = IF F = {} THEN 0 ELSE f[Pick(F)] + before(F)
      BY <3>1
    <3> QED BY <3>3, <3>4, <3>5
  <2>2. g = [E \in SUBSET D |-> IF E = {} THEN 0 ELSE f[Pick(E)] + g[E \ {Pick(E)}]]
    <3> HIDE DEF before
    <3>1. \A E \in SUBSET D : g[E] = IF E = {} THEN 0 ELSE f[Pick(E)] + g[E \ {Pick(E)}]
      BY <2>1
    <3> DEFINE k == [E \in SUBSET D |-> IF E = {} THEN 0 ELSE f[Pick(E)] + g[E \ {Pick(E)}]]
    <3>2. \A E \in SUBSET D : g[E] = k[E]
      BY <3>1
    <3>3. DOMAIN g = SUBSET D /\ DOMAIN k = SUBSET D
      OBVIOUS
    <3> QED BY <3>2, <3>3
  <2> HIDE DEF g
  <2>3. \E h : IsSum(h, f, D)
    BY <2>2 DEF IsSum
  <2>4. IsSum(SumsOver(f, D), f, D)
    BY <2>3 DEF SumsOver
  <2> QED BY <2>4
<1> HIDE DEF S
<1>2. \A D \in SUBSET U : D \in S
  BY <1>1, SubsetInduction
<1> QED BY <1>2 DEF S

(* What the sum is: the element picked, and the rest.                      *)
LEMMA SumStep ==
  ASSUME NEW f, NEW D, IsFiniteSet(D)
  PROVE  SumOf(f, D) = IF D = {} THEN 0 ELSE f[Pick(D)] + SumOf(f, D \ {Pick(D)})
<1> DEFINE E == D \ {Pick(D)}
<1>1. IsSum(SumsOver(f, D), f, D) /\ IsSum(SumsOver(f, E), f, E)
  <2>1. \A F \in SUBSET D : IsSum(SumsOver(f, F), f, F)
    BY SumsExist
  <2> QED BY <2>1
<1>2. SumsOver(f, D)[E] = SumsOver(f, E)[E]
  <2>1. E \in SUBSET D
    OBVIOUS
  <2> DEFINE g == SumsOver(f, D)
             h == SumsOver(f, E)
  <2>2. IsSum(g, f, D) /\ IsSum(h, f, E)
    BY <1>1
  <2> HIDE DEF E, g, h
  <2>3. g[E] = h[E]
    BY <2>1, <2>2, SumsAgree
  <2> QED BY <2>3 DEF g, h
<1>3. SumsOver(f, D)[D] = IF D = {} THEN 0 ELSE f[Pick(D)] + SumsOver(f, D)[E]
  BY <1>1, SumRound
<1> QED BY <1>2, <1>3, SumIsLast

(* A sum of numbers is a number.                                           *)
LEMMA SumType ==
  ASSUME NEW U, IsFiniteSet(U), NEW f, \A x \in U : f[x] \in Nat
  PROVE  SumOf(f, U) \in Nat
<1> DEFINE S == {D \in SUBSET U : SumOf(f, D) \in Nat}
<1>1. \A D \in SUBSET U : (\A E \in SUBSET D : E # D => E \in S) => D \in S
  <2> SUFFICES ASSUME NEW D \in SUBSET U, \A E \in SUBSET D : E # D => E \in S
               PROVE  SumOf(f, D) \in Nat
    OBVIOUS
  <2>1. SumOf(f, D) = IF D = {} THEN 0 ELSE f[Pick(D)] + SumOf(f, D \ {Pick(D)})
    BY FS_Subset, SumStep
  <2>2. CASE D # {}
    <3>1. Pick(D) \in D
      BY <2>2, PickIsIn
    <3>2. SumOf(f, D \ {Pick(D)}) \in Nat /\ f[Pick(D)] \in Nat
      BY <3>1
    <3> QED BY <2>1, <2>2, <3>2
  <2> QED BY <2>1, <2>2
<1> HIDE DEF S
<1>2. \A D \in SUBSET U : D \in S
  BY <1>1, SubsetInduction
<1> QED BY <1>2 DEF S

(* Any element may be taken out first.                                     *)
LEMMA SumTakeOut ==
  ASSUME NEW U, IsFiniteSet(U), NEW f, \A x \in U : f[x] \in Nat, NEW y \in U
  PROVE  SumOf(f, U) = f[y] + SumOf(f, U \ {y})
<1> DEFINE S == {D \in SUBSET U : \A x \in D : SumOf(f, D) = f[x] + SumOf(f, D \ {x})}
<1>0. \A D \in SUBSET U : IsFiniteSet(D) /\ SumOf(f, D) \in Nat
  BY FS_Subset, SumType
<1>1. \A D \in SUBSET U : (\A E \in SUBSET D : E # D => E \in S) => D \in S
  <2> SUFFICES ASSUME NEW D \in SUBSET U, \A E \in SUBSET D : E # D => E \in S,
                      NEW x \in D
               PROVE  SumOf(f, D) = f[x] + SumOf(f, D \ {x})
    OBVIOUS
  <2> DEFINE p == Pick(D)
             R == D \ {x, p}
  <2>1. p \in D
    BY PickIsIn
  <2>2. SumOf(f, D) = f[p] + SumOf(f, D \ {p})
    BY <1>0, <2>1, SumStep
  <2>3. CASE x # p
    <3>1. D \ {p} \in S /\ x \in D \ {p} /\ (D \ {p}) \ {x} = R
      BY <2>1, <2>3
    <3>2. SumOf(f, D \ {p}) = f[x] + SumOf(f, R)
      BY <3>1
    <3>3. D \ {x} \in S /\ p \in D \ {x} /\ (D \ {x}) \ {p} = R
      BY <2>1, <2>3
    <3>4. SumOf(f, D \ {x}) = f[p] + SumOf(f, R)
      BY <3>3
    <3>5. R \in SUBSET U
      OBVIOUS
    <3> HIDE DEF S, R, p
    <3>6. SumOf(f, R) \in Nat /\ f[p] \in Nat /\ f[x] \in Nat
      BY <1>0, <2>1, <3>5
    <3> QED BY <2>2, <3>2, <3>4, <3>6 DEF p
  <2> QED BY <2>2, <2>3
<1> HIDE DEF S
<1>2. \A D \in SUBSET U : D \in S
  BY <1>1, SubsetInduction
<1> QED BY <1>2 DEF S

(* A sum grows with what is summed.                                        *)
LEMMA SumGrows ==
  ASSUME NEW U, IsFiniteSet(U), NEW f, NEW g,
         \A x \in U : f[x] \in Nat /\ g[x] \in Nat /\ f[x] <= g[x]
  PROVE  SumOf(f, U) <= SumOf(g, U)
<1> DEFINE S == {D \in SUBSET U : SumOf(f, D) <= SumOf(g, D)}
<1>0. \A D \in SUBSET U : IsFiniteSet(D) /\ SumOf(f, D) \in Nat /\ SumOf(g, D) \in Nat
  BY FS_Subset, SumType
<1>1. \A D \in SUBSET U : (\A E \in SUBSET D : E # D => E \in S) => D \in S
  <2> SUFFICES ASSUME NEW D \in SUBSET U, \A E \in SUBSET D : E # D => E \in S
               PROVE  SumOf(f, D) <= SumOf(g, D)
    OBVIOUS
  <2> DEFINE E == D \ {Pick(D)}
  <2>1. SumOf(f, D) = IF D = {} THEN 0 ELSE f[Pick(D)] + SumOf(f, E)
    BY <1>0, SumStep
  <2>2. SumOf(g, D) = IF D = {} THEN 0 ELSE g[Pick(D)] + SumOf(g, E)
    BY <1>0, SumStep
  <2>3. CASE D # {}
    <3>1. Pick(D) \in U /\ E \in SUBSET U /\ E \in S
      BY <2>3, PickIsIn
    <3>2. SumOf(f, E) <= SumOf(g, E)
      BY <3>1
    <3>3. SumOf(f, E) \in Nat /\ SumOf(g, E) \in Nat
      BY <1>0, <3>1
    <3>4. f[Pick(D)] \in Nat /\ g[Pick(D)] \in Nat /\ f[Pick(D)] <= g[Pick(D)]
      BY <3>1
    <3> QED BY <2>1, <2>2, <2>3, <3>2, <3>3, <3>4
  <2> QED BY <2>1, <2>2, <2>3
<1> HIDE DEF S
<1>2. \A D \in SUBSET U : D \in S
  BY <1>1, SubsetInduction
<1> QED BY <1>2 DEF S

(* Equal numbers have equal sums.                                          *)
LEMMA SumSame ==
  ASSUME NEW U, IsFiniteSet(U), NEW f, NEW g,
         \A x \in U : f[x] \in Nat /\ g[x] = f[x]
  PROVE  SumOf(f, U) = SumOf(g, U)
<1>1. SumOf(f, U) <= SumOf(g, U) /\ SumOf(g, U) <= SumOf(f, U)
  BY SumGrows
<1>2. SumOf(f, U) \in Nat /\ SumOf(g, U) \in Nat
  BY SumType
<1> QED BY <1>1, <1>2

(* The sum over two parts is the sum of their sums.                        *)
LEMMA SumOfParts ==
  ASSUME NEW U, IsFiniteSet(U), NEW f, \A x \in U : f[x] \in Nat, NEW P
  PROVE  SumOf(f, U) = SumOf(f, U \ P) + SumOf(f, U \cap P)
<1> DEFINE S == {D \in SUBSET U : SumOf(f, D) = SumOf(f, D \ P) + SumOf(f, D \cap P)}
<1>0. \A D \in SUBSET U : IsFiniteSet(D) /\ SumOf(f, D) \in Nat
  BY FS_Subset, SumType
<1>1. \A D \in SUBSET U : (\A E \in SUBSET D : E # D => E \in S) => D \in S
  <2> SUFFICES ASSUME NEW D \in SUBSET U, \A E \in SUBSET D : E # D => E \in S
               PROVE  SumOf(f, D) = SumOf(f, D \ P) + SumOf(f, D \cap P)
    OBVIOUS
  <2>1. CASE D = {}
    <3>1. D \ P = {} /\ D \cap P = {} /\ IsFiniteSet({})
      BY <2>1, FS_EmptySet
    <3>2. SumOf(f, {}) = 0
      BY <3>1, SumStep
    <3> QED BY <2>1, <3>1, <3>2
  <2>2. CASE D # {}
    <3>1. PICK x \in D : TRUE
      BY <2>2
    <3> DEFINE E == D \ {x}
    <3>2. E \in S /\ E \in SUBSET U
      BY <3>1
    <3>3. SumOf(f, E) = SumOf(f, E \ P) + SumOf(f, E \cap P)
      BY <3>2
    <3>4. \A F \in SUBSET U : x \in F => SumOf(f, F) = f[x] + SumOf(f, F \ {x})
      BY <1>0, SumTakeOut
    <3>5. SumOf(f, D) = f[x] + SumOf(f, E)
      BY <3>1, <3>4
    <3>6. /\ f[x] \in Nat /\ SumOf(f, E \ P) \in Nat /\ SumOf(f, E \cap P) \in Nat
      BY <1>0, <3>1, <3>2
    <3>7. CASE x \in P
      <4>1. /\ D \ P = E \ P /\ (D \cap P) \ {x} = E \cap P
            /\ D \cap P \in SUBSET U /\ x \in D \cap P
        BY <3>1, <3>7
      <4>2. SumOf(f, D \cap P) = f[x] + SumOf(f, E \cap P)
        BY <3>4, <4>1
      <4>3. SumOf(f, D \ P) = SumOf(f, E \ P)
        BY <4>1
      <4> QED BY <3>3, <3>5, <3>6, <4>2, <4>3
    <3>8. CASE x \notin P
      <4>1. /\ D \cap P = E \cap P /\ (D \ P) \ {x} = E \ P
            /\ D \ P \in SUBSET U /\ x \in D \ P
        BY <3>1, <3>8
      <4>2. SumOf(f, D \ P) = f[x] + SumOf(f, E \ P)
        BY <3>4, <4>1
      <4>3. SumOf(f, D \cap P) = SumOf(f, E \cap P)
        BY <4>1
      <4> QED BY <3>3, <3>5, <3>6, <4>2, <4>3
    <3> QED BY <3>7, <3>8
  <2> QED BY <2>1, <2>2
<1> HIDE DEF S
<1>2. \A D \in SUBSET U : D \in S
  BY <1>1, SubsetInduction
<1> QED BY <1>2 DEF S

(* A sum of zeros.                                                         *)
LEMMA SumOfZeros ==
  ASSUME NEW U, IsFiniteSet(U), NEW f, \A x \in U : f[x] = 0
  PROVE  SumOf(f, U) = 0
<1> DEFINE S == {D \in SUBSET U : SumOf(f, D) = 0}
<1>1. \A D \in SUBSET U : (\A E \in SUBSET D : E # D => E \in S) => D \in S
  <2> SUFFICES ASSUME NEW D \in SUBSET U, \A E \in SUBSET D : E # D => E \in S
               PROVE  SumOf(f, D) = 0
    OBVIOUS
  <2>1. SumOf(f, D) = IF D = {} THEN 0 ELSE f[Pick(D)] + SumOf(f, D \ {Pick(D)})
    BY FS_Subset, SumStep
  <2>2. CASE D # {}
    <3>1. Pick(D) \in D
      BY <2>2, PickIsIn
    <3>2. SumOf(f, D \ {Pick(D)}) = 0 /\ f[Pick(D)] = 0
      BY <3>1
    <3> QED BY <2>1, <2>2, <3>2
  <2> QED BY <2>1, <2>2
<1> HIDE DEF S
<1>2. \A D \in SUBSET U : D \in S
  BY <1>1, SubsetInduction
<1> QED BY <1>2 DEF S

(* One summand is exchanged for another.                                   *)
LEMMA SumWithOneChanged ==
  ASSUME NEW U, IsFiniteSet(U), NEW f \in [U -> Nat], NEW y \in U, NEW v \in Nat
  PROVE  SumOf([f EXCEPT ![y] = v], U) = SumOf(f, U) + v - f[y]
<1> DEFINE g == [f EXCEPT ![y] = v]
           D == U \ {y}
<1>1. IsFiniteSet(D) /\ \A x \in D : f[x] \in Nat /\ g[x] = f[x]
  BY FS_Subset
<1>2. \A x \in U : g[x] \in Nat
  OBVIOUS
<1>3. g[y] = v
  OBVIOUS
<1> HIDE DEF g, D
<1>4. SumOf(g, D) = SumOf(f, D)
  BY <1>1, SumSame
<1>5. SumOf(g, U) = v + SumOf(g, D) /\ SumOf(f, U) = f[y] + SumOf(f, D)
  BY <1>2, <1>3, SumTakeOut DEF D
<1>6. SumOf(f, D) \in Nat /\ f[y] \in Nat
  BY <1>1, SumType
<1>7. SumOf(g, U) = SumOf(f, U) + v - f[y]
  BY <1>4, <1>5, <1>6
<1> QED BY <1>7 DEF g

(* A sum does not depend on how its summands are named.                    *)
LEMMA SumRenamed ==
  ASSUME NEW U, IsFiniteSet(U), NEW V, IsFiniteSet(V), NEW f, \A x \in V : f[x] \in Nat,
         NEW b \in [U -> V], \A x, y \in U : b[x] = b[y] => x = y,
         \A z \in V : \E x \in U : b[x] = z
  PROVE  SumOf([x \in U |-> f[b[x]]], U) = SumOf(f, V)
<1> DEFINE g == [x \in U |-> f[b[x]]]
           Image(D) == {b[x] : x \in D}
           S == {D \in SUBSET U : SumOf(g, D) = SumOf(f, Image(D))}
<1>0. \A D \in SUBSET U : IsFiniteSet(D) /\ Image(D) \in SUBSET V /\ IsFiniteSet(Image(D))
  BY FS_Subset
<1>1. \A D \in SUBSET U : (\A E \in SUBSET D : E # D => E \in S) => D \in S
  <2> SUFFICES ASSUME NEW D \in SUBSET U, \A E \in SUBSET D : E # D => E \in S
               PROVE  SumOf(g, D) = SumOf(f, Image(D))
    OBVIOUS
  <2>1. SumOf(g, D) = IF D = {} THEN 0 ELSE g[Pick(D)] + SumOf(g, D \ {Pick(D)})
    BY <1>0, SumStep
  <2>2. CASE D = {}
    <3>1. Image(D) = {} /\ IsFiniteSet({})
      BY <2>2, FS_EmptySet
    <3> QED BY <2>1, <2>2, <3>1, SumStep
  <2>3. CASE D # {}
    <3> DEFINE p == Pick(D)
               E == D \ {p}
    <3>1. p \in D
      BY <2>3, PickIsIn
    <3>2. E \in SUBSET D /\ E # D
      BY <3>1
    <3>3. SumOf(g, E) = SumOf(f, Image(E))
      BY <3>2
    <3>4. Image(E) = Image(D) \ {b[p]} /\ b[p] \in Image(D)
      BY <3>1
    <3>5. SumOf(f, Image(D)) = f[b[p]] + SumOf(f, Image(D) \ {b[p]})
      <4>1. IsFiniteSet(Image(D)) /\ \A x \in Image(D) : f[x] \in Nat
        BY <1>0
      <4> HIDE DEF Image, p
      <4> QED BY <3>4, <4>1, SumTakeOut
    <3>6. g[p] = f[b[p]]
      BY <3>1
    <3> QED BY <2>1, <2>3, <3>3, <3>4, <3>5, <3>6
  <2> QED BY <2>2, <2>3
<1>2. \A D \in SUBSET U : D \in S
  <2> HIDE DEF S
  <2> QED BY <1>1, SubsetInduction
<1>3. Image(U) = V
  BY DEF Image
<1> HIDE DEF g
<1>4. SumOf(g, U) = SumOf(f, V)
  BY <1>2, <1>3
<1> QED BY <1>4 DEF g

(* The squared deviations of n times each number from t.                   *)
LEMMA SumOfDeviations ==
  ASSUME NEW U, IsFiniteSet(U), NEW f \in [U -> Nat], NEW n \in Nat, NEW t \in Nat
  PROVE  LET dev == [x \in U |-> (n * f[x] - t) * (n * f[x] - t)]
             sq == [x \in U |-> f[x] * f[x]]
         IN /\ SumOf(dev, U) \in Nat /\ SumOf(sq, U) \in Nat
            /\ SumOf(dev, U) = n * n * SumOf(sq, U) - 2 * n * t * SumOf(f, U)
                               + Cardinality(U) * t * t
<1> DEFINE dev == [x \in U |-> (n * f[x] - t) * (n * f[x] - t)]
           sq == [x \in U |-> f[x] * f[x]]
           Right(D) == n * n * SumOf(sq, D) - 2 * n * t * SumOf(f, D) + Cardinality(D) * t * t
           S == {D \in SUBSET U : SumOf(dev, D) = Right(D)}
<1>0. \A x \in U : f[x] \in Nat /\ dev[x] \in Nat /\ sq[x] \in Nat
  <2> SUFFICES ASSUME NEW x \in U PROVE f[x] \in Nat /\ dev[x] \in Nat /\ sq[x] \in Nat
    OBVIOUS
  <2>1. f[x] \in Nat /\ dev[x] = (n * f[x] - t) * (n * f[x] - t) /\ sq[x] = f[x] * f[x]
    OBVIOUS
  <2>2. \A k \in Int : k * k \in Nat
    OBVIOUS
  <2>3. n * f[x] - t \in Int
    BY <2>1
  <2> QED BY <2>1, <2>2, <2>3
<1>00. \A D \in SUBSET U : /\ IsFiniteSet(D) /\ Cardinality(D) \in Nat
                           /\ SumOf(f, D) \in Nat /\ SumOf(sq, D) \in Nat /\ SumOf(dev, D) \in Nat
  <2> HIDE DEF dev, sq
  <2> QED BY <1>0, FS_Subset, FS_CardinalityType, SumType
<1>1. \A D \in SUBSET U : (\A E \in SUBSET D : E # D => E \in S) => D \in S
  <2> SUFFICES ASSUME NEW D \in SUBSET U, \A E \in SUBSET D : E # D => E \in S
               PROVE  SumOf(dev, D) = Right(D)
    OBVIOUS
  <2>1. \A g : SumOf(g, D) = IF D = {} THEN 0 ELSE g[Pick(D)] + SumOf(g, D \ {Pick(D)})
    BY <1>00, SumStep
  <2>2. CASE D = {}
    <3>1. Cardinality(D) = 0
      BY <2>2, FS_EmptySet
    <3>2. SumOf(dev, D) = 0 /\ SumOf(sq, D) = 0 /\ SumOf(f, D) = 0
      BY <2>1, <2>2
    <3> QED BY <3>1, <3>2
  <2>3. CASE D # {}
    <3> DEFINE p == Pick(D)
               E == D \ {p}
    <3>1. p \in D
      BY <2>3, PickIsIn
    <3>2. SumOf(dev, E) = Right(E)
      BY <3>1
    <3>3. Cardinality(D) = Cardinality(E) + 1
      <4>1. IsFiniteSet(D) /\ Cardinality(D) \in Nat
        BY <1>00
      <4>2. Cardinality(D \ {p}) = Cardinality(D) - 1
        BY <3>1, <4>1, FS_RemoveElement
      <4> HIDE DEF p
      <4> QED BY <4>1, <4>2
    <3>4. /\ SumOf(dev, D) = dev[p] + SumOf(dev, E)
          /\ SumOf(sq, D) = sq[p] + SumOf(sq, E)
          /\ SumOf(f, D) = f[p] + SumOf(f, E)
      BY <2>1, <2>3
    <3>5. dev[p] = (n * f[p] - t) * (n * f[p] - t) /\ sq[p] = f[p] * f[p] /\ f[p] \in Nat
      BY <3>1
    <3>6. /\ SumOf(dev, E) \in Nat /\ SumOf(sq, E) \in Nat /\ SumOf(f, E) \in Nat
          /\ Cardinality(E) \in Nat
      BY <1>00
    <3>7. \A a, q, c \in Nat : \A k \in Nat :
            n * n * (k * k + q) - 2 * n * t * (k + a) + (c + 1) * t * t
            = (n * k - t) * (n * k - t) + (n * n * q - 2 * n * t * a + c * t * t)
      OBVIOUS
    <3> HIDE DEF p, E, dev, sq
    <3>8. Right(D) = n * n * (f[p] * f[p] + SumOf(sq, E)) - 2 * n * t * (f[p] + SumOf(f, E))
                     + (Cardinality(E) + 1) * t * t
      BY <3>3, <3>4, <3>5
    <3> QED BY <3>2, <3>4, <3>5, <3>6, <3>7, <3>8
  <2> QED BY <2>2, <2>3
<1>2. \A D \in SUBSET U : D \in S
  <2> HIDE DEF S
  <2> QED BY <1>1, SubsetInduction
<1>3. SumOf(dev, U) = Right(U)
  BY <1>2
<1> QED BY <1>00, <1>3

(* n^2 times the variance of n numbers, times n.                           *)
LEMMA SumOfSquaredDeviations ==
  ASSUME NEW U, IsFiniteSet(U), NEW f \in [U -> Nat]
  PROVE  LET n == Cardinality(U)
             t == SumOf(f, U)
             dev == [x \in U |-> (n * f[x] - t) * (n * f[x] - t)]
             sq == [x \in U |-> f[x] * f[x]]
         IN /\ n \in Nat /\ t \in Nat /\ SumOf(dev, U) \in Nat /\ SumOf(sq, U) \in Nat
            /\ SumOf(dev, U) = n * (n * SumOf(sq, U) - t * t)
<1> DEFINE n == Cardinality(U)
           t == SumOf(f, U)
           dev == [x \in U |-> (n * f[x] - t) * (n * f[x] - t)]
           sq == [x \in U |-> f[x] * f[x]]
<1>1. n \in Nat
  BY FS_CardinalityType
<1>2. t \in Nat
  BY SumType
<1> HIDE DEF n, t
<1>3. /\ SumOf(dev, U) \in Nat /\ SumOf(sq, U) \in Nat
      /\ SumOf(dev, U) = n * n * SumOf(sq, U) - 2 * n * t * t + n * t * t
  BY <1>1, <1>2, SumOfDeviations DEF n, t
<1>4. \A q \in Nat : n * n * q - 2 * n * t * t + n * t * t = n * (n * q - t * t)
  BY <1>1, <1>2
<1>5. SumOf(dev, U) = n * (n * SumOf(sq, U) - t * t)
  BY <1>3, <1>4
<1> QED BY <1>1, <1>2, <1>3, <1>5 DEF n, t

-----------------------------------------------------------------------------
(* Numbers.                                                                *)

(* Products of natural numbers grow with their factors.                    *)
LEMMA ProductGrows ==
  ASSUME NEW k \in Nat, NEW a \in Nat, NEW b \in Nat, a <= b
  PROVE  k * a <= k * b
<1> DEFINE d == b - a
<1>1. d \in Nat /\ b = a + d
  OBVIOUS
<1> HIDE DEF d
<1>2. k * b = k * a + k * d /\ k * d \in Nat /\ k * a \in Nat
  BY <1>1
<1> QED
  BY <1>2

(* The places of a sequence, counted.                                      *)
LEMMA PlacesFinite ==
  ASSUME NEW S, NEW s \in Seq(S)
  PROVE  /\ IsFiniteSet(1 .. Len(s)) /\ Cardinality(1 .. Len(s)) = Len(s)
         /\ Len(s) \in Nat /\ DOMAIN s = 1 .. Len(s)
<1>1. Len(s) \in Nat /\ DOMAIN s = 1 .. Len(s)
  OBVIOUS
<1>2. Len(s) \in Int /\ 1 \in Int /\ (1 <= Len(s) => Len(s) - 1 + 1 = Len(s)) /\ (1 > Len(s) => Len(s) = 0)
  BY <1>1
<1>3. IsFiniteSet(1 .. Len(s)) /\ Cardinality(1 .. Len(s)) = IF 1 > Len(s) THEN 0 ELSE Len(s) - 1 + 1
  BY <1>2, FS_Interval, Zenon
<1> QED
  BY <1>1, <1>2, <1>3

(* A set of numbers that is not empty has a least one. *)
LEMMA LeastNumber ==
  ASSUME NEW G \in SUBSET Nat, G # {}
  PROVE  \E x \in G : \A y \in G : x <= y
<1> DEFINE R == OpToRel(<, Nat)
<1>1. IsWellFoundedOn(R, Nat)
  BY NatLessThanWellFounded
<1>2. \A x, y \in Nat : <<x, y>> \in R <=> x < y
  BY DEF OpToRel
<1> HIDE DEF R
<1>3. PICK x \in G : \A y \in G : ~(<<y, x>> \in R)
  BY <1>1, WFMin, Zenon
<1>4. \A y \in G : ~(y < x)
  BY <1>2, <1>3, Zenon
<1> QED
  BY <1>3, <1>4
=============================================================================
