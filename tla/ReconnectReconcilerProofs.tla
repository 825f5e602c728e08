----------------------- MODULE ReconnectReconcilerProofs -----------------------
(***************************************************************************)
(* Theorems about the ledger through network partitions, for any orders of *)
(* any symbols, any exposure limit and any number of connection losses.    *)
(***************************************************************************)
EXTENDS ReconnectReconciler, FiniteSums, SequenceTheorems

(* A fold over a set of one.                                               *)
LEMMA FoldOne ==
  ASSUME NEW l, NEW o, NEW credits
  PROVE  FoldSet(LAMBDA p, m : Credited(m, p, credits[p]), l, {o}) = Credited(l, o, credits[o])
<1> DEFINE F(h) == [s \in SUBSET {o} |->
                      IF s = {} THEN l
                      ELSE Credited(h[s \ {CHOOSE x \in s : TRUE}],
                                    CHOOSE x \in s : TRUE, credits[CHOOSE x \in s : TRUE])]
           g == [s \in SUBSET {o} |-> IF s = {} THEN l ELSE Credited(l, o, credits[o])]
           r == CHOOSE h : h = F(h)
<1>1. \A s \in SUBSET {o} : s # {} => (CHOOSE x \in s : TRUE) = o /\ s \ {o} = {}
  OBVIOUS
<1>2. \A s \in SUBSET {o} : g[s] = F(g)[s]
  <2>1. g[{}] = l
    OBVIOUS
  <2> QED BY <1>1, <2>1
<1>3. DOMAIN g = SUBSET {o} /\ DOMAIN F(g) = SUBSET {o}
  OBVIOUS
<1>4. g = F(g)
  <2> HIDE DEF F
  <2>1. F(g) = [s \in SUBSET {o} |-> F(g)[s]]
    BY DEF F
  <2> QED BY <1>2, <1>3, <2>1
<1>5. r = F(r)
  <2> HIDE DEF F, g
  <2> QED BY <1>4
<1>6. FoldSet(LAMBDA p, m : Credited(m, p, credits[p]), l, {o}) = r[{o}]
  BY DEF FoldSet, MapThenFoldSet
<1>7. r[{}] = l
  BY <1>5
<1>8. r[{o}] = Credited(r[{}], o, credits[o])
  <2>1. r[{o}] = F(r)[{o}]
    BY <1>5
  <2>2. (CHOOSE x \in {o} : TRUE) = o /\ {o} \ {o} = {} /\ {o} # {} /\ {o} \in SUBSET {o}
    OBVIOUS
  <2> HIDE DEF r
  <2> QED BY <2>1, <2>2
<1> QED BY <1>6, <1>7, <1>8

-----------------------------------------------------------------------------
(* The invariant.                                                          *)

Statuses == {"New", "PartiallyFilled", "Filled", "Cancelled", "Rejected"}
Events == [order: Orders, kind: {"fill", "end"}, qty: Nat]

(* Answers are told apart by the phase they are answers in.                *)
Answers == {<<>>} \cup (Statuses \X Nat) \cup {<<n>> : n \in Nat}

Reconciliations ==
  [phase: {"idle", "query", "arbitrate", "publish"}, todo: SUBSET Orders,
   tries: 0 .. MaxRetries - 1, remaining: SUBSET Orders, symbols: SUBSET Symbols,
   asked: Orders \cup Symbols \cup {"none"}, answer: Answers, failed: SUBSET Symbols]

LedgerTypes == ledger \in LedgerType

ExchangeTypes ==
  /\ place \in [Orders -> {"new", "wire", "working", "done", "lost"}]
  /\ exec \in [Orders -> Nat] /\ \A o \in Orders : exec[o] <= QtyOf[o]
  /\ status \in [Orders -> Statuses]

NetTypes ==
  /\ news \in Seq(Events)
  /\ connected \in BOOLEAN /\ due \in BOOLEAN /\ drops \in 0 .. MaxDrops

HistoryTypes == early \in SUBSET Orders /\ short \in SUBSET Symbols

RecTypes == rec \in Reconciliations

Types == LedgerTypes /\ ExchangeTypes /\ NetTypes /\ HistoryTypes /\ RecTypes

(* The strike rule: one order of a symbol in purgatory at a time.          *)
OnePerSymbol ==
  \A o, p \in ledger.purgatory : SymbolOf[o] = SymbolOf[p] => o = p

(* An order that was never dispatched.                                     *)
NewIsBlank ==
  \A o \in Orders :
    place[o] = "new" => exec[o] = 0 /\ o \notin ledger.purgatory /\ o \notin rec.remaining

(* An order that was settled, and not early, can execute no more.          *)
SettledIsOver ==
  \A o \in Orders :
    place[o] # "new" /\ o \notin ledger.purgatory /\ o \notin early => ~Unfinished(o)

(* No report claims more than was executed.                                *)
NewsIsTrue ==
  \A i \in DOMAIN news : news[i].kind = "fill" => news[i].qty <= exec[news[i].order]

AnswerIsTrue ==
  rec.phase = "query" /\ Waiting =>
    /\ rec.asked \in Orders
    /\ rec.answer # <<>> =>
         /\ rec.answer[1] \in Statuses /\ rec.answer[2] \in Nat
         /\ rec.answer[2] <= exec[rec.asked]

Fates == OnePerSymbol /\ NewIsBlank /\ SettledIsOver /\ NewsIsTrue /\ AnswerIsTrue

Side(s, side) == {o \in Orders : SymbolOf[o] = s /\ SideOf[o] = side}
Bought(s) == Side(s, "BUY")

(* What the settled orders of one side of a symbol executed.               *)
SettledSum(s, side) == SumOf(exec, Side(s, side) \ ledger.purgatory)

(* No order of the symbol was settled early.                               *)
Clean(s) == \A o \in early : SymbolOf[o] # s

(* No more is confirmed than the settled orders bought: an order in        *)
(* purgatory has not been counted yet.                                     *)
ConfirmedBelow == \A s \in Symbols \ short : ledger.confirmed[s] <= SettledSum(s, "BUY")

(* And no less than they bought and did not sell, unless one was settled   *)
(* early.                                                                  *)
ConfirmedAbove ==
  \A s \in Symbols :
    Clean(s) => SettledSum(s, "BUY") - SettledSum(s, "SELL") <= ledger.confirmed[s]

(* What a position that is being arbitrated says, until it is used.  A     *)
(* sold order under arbitration is attributed an excess only if its symbol *)
(* is short without it.                                                    *)
PositionIsTrue ==
  rec.phase = "arbitrate" /\ Waiting =>
    LET s == rec.asked
        size == rec.answer[1]
    IN /\ s \in Symbols /\ size \in Nat
       /\ s \notin short => size <= SumOf(exec, Bought(s))
       /\ \A o \in rec.remaining \cap ledger.purgatory :
            SymbolOf[o] = s /\ SideOf[o] = "SELL" /\ Clean(s) =>
              \/ size <= ledger.confirmed[s]
              \/ SettledSum(s, "BUY") - SettledSum(s, "SELL") <= exec[o]

Sums == ConfirmedBelow /\ ConfirmedAbove /\ PositionIsTrue

(* ArbitratedIsSettled is inductive with the strike rule: the fold over    *)
(* the orders that arbitration settles then has one order at most.         *)
LedgerInvariant == Types /\ Fates /\ Sums /\ ArbitratedIsSettled

-----------------------------------------------------------------------------
(* What the operations make of the ledger.                                 *)

(* The library's maximum, of zero and a number.                            *)
LEMMA MaxWithZero ==
  ASSUME NEW n \in Int
  PROVE  Max({0, n}) = IF n > 0 THEN n ELSE 0
<1> DEFINE m == IF n > 0 THEN n ELSE 0
<1>1. m \in {0, n} /\ \A y \in {0, n} : m >= y
  OBVIOUS
<1>2. \A x \in {0, n} : (\A y \in {0, n} : x >= y) => x = m
  OBVIOUS
<1> HIDE DEF m
<1> QED BY <1>1, <1>2 DEF Max, m

(* The library's minimum, of two numbers.                                  *)
LEMMA MinOfTwo ==
  ASSUME NEW a \in Int, NEW b \in Int
  PROVE  Min({a, b}) = IF a <= b THEN a ELSE b
<1> DEFINE m == IF a <= b THEN a ELSE b
<1>1. m \in {a, b} /\ \A y \in {a, b} : m <= y
  OBVIOUS
<1>2. \A x \in {a, b} : (\A y \in {a, b} : x <= y) => x = m
  OBVIOUS
<1> HIDE DEF m
<1> QED BY <1>1, <1>2 DEF Min, m

(* The fields of a ledger.                                                 *)
LEMMA LedgerFields ==
  ASSUME NEW l \in LedgerType
  PROVE  l.confirmed \in [Symbols -> Nat] /\ l.purgatory \in SUBSET Orders
BY DEF LedgerType

(* An order taken out of purgatory leaves what is confirmed.               *)
LEMMA RemovedLedger ==
  ASSUME NEW l \in LedgerType, NEW o \in Orders
  PROVE  /\ Removed(l, o) \in LedgerType
         /\ Removed(l, o).confirmed = l.confirmed
         /\ Removed(l, o).purgatory = l.purgatory \ {o}
BY DEF Removed, LedgerType

(* What a fill of q makes of what is confirmed. *)
Confirmed(c, o, q) ==
  [c EXCEPT ![SymbolOf[o]] = IF SideOf[o] = "BUY" THEN @ + q ELSE Max({0, @ - q})]

(* A BUY adds to its symbol's position, a SELL reduces it, to zero at      *)
(* most.                                                                   *)
LEMMA ConfirmedCounts ==
  ASSUME NEW c \in [Symbols -> Nat], NEW o \in Orders, NEW q \in Nat
  PROVE  /\ Confirmed(c, o, q) \in [Symbols -> Nat]
         /\ \A s \in Symbols :
              Confirmed(c, o, q)[s] =
                IF s # SymbolOf[o] THEN c[s]
                ELSE IF SideOf[o] = "BUY" THEN c[s] + q
                ELSE IF c[s] - q > 0 THEN c[s] - q ELSE 0
<1> DEFINE s == SymbolOf[o]
           n == c[s] - q
<1>1. s \in Symbols /\ c[s] \in Nat
  BY LedgerAssumption
<1>2. n \in Int /\ (n > 0 => n \in Nat)
  BY <1>1
<1>3. Max({0, n}) = IF n > 0 THEN n ELSE 0
  <2> HIDE DEF n
  <2> QED BY <1>2, MaxWithZero
<1>4. Max({0, n}) \in Nat /\ c[s] + q \in Nat
  BY <1>1, <1>2, <1>3
<1>5. Confirmed(c, o, q) = [c EXCEPT ![s] = IF SideOf[o] = "BUY" THEN c[s] + q ELSE Max({0, n})]
  BY DEF Confirmed
<1>6. Confirmed(c, o, q) \in [Symbols -> Nat]
  <2> HIDE DEF s, n
  <2> QED BY <1>4, <1>5
<1>7. \A t \in Symbols :
        Confirmed(c, o, q)[t] =
          IF t # s THEN c[t] ELSE IF SideOf[o] = "BUY" THEN c[s] + q ELSE Max({0, n})
  <2> HIDE DEF s, n
  <2> QED BY <1>1, <1>5
<1> QED BY <1>3, <1>6, <1>7

(* A fill merged into the position leaves purgatory.                       *)
LEMMA MergedLedger ==
  ASSUME NEW l \in LedgerType, NEW o \in Orders, NEW q \in Nat
  PROVE  /\ Merged(l, o, q) \in LedgerType
         /\ Merged(l, o, q).confirmed = Confirmed(l.confirmed, o, q)
         /\ Merged(l, o, q).purgatory = l.purgatory
<1>1. l.confirmed \in [Symbols -> Nat]
  BY LedgerFields
<1>2. Merged(l, o, q) = [l EXCEPT !.confirmed = Confirmed(l.confirmed, o, q)]
  BY DEF Merged, Confirmed, LedgerType
<1>3. Confirmed(l.confirmed, o, q) \in [Symbols -> Nat]
  BY <1>1, ConfirmedCounts
<1> QED BY <1>2, <1>3 DEF LedgerType

(* A fill of nothing. *)
LEMMA ConfirmedNothing ==
  ASSUME NEW c \in [Symbols -> Nat], NEW o \in Orders
  PROVE  Confirmed(c, o, 0) = c
<1>1. Confirmed(c, o, 0) \in [Symbols -> Nat]
  BY ConfirmedCounts
<1>2. \A s \in Symbols : Confirmed(c, o, 0)[s] = c[s]
  <2> SUFFICES ASSUME NEW s \in Symbols PROVE Confirmed(c, o, 0)[s] = c[s]
    OBVIOUS
  <2>1. c[s] \in Nat
    OBVIOUS
  <2>2. Confirmed(c, o, 0)[s] =
          IF s # SymbolOf[o] THEN c[s]
          ELSE IF SideOf[o] = "BUY" THEN c[s] + 0
          ELSE IF c[s] - 0 > 0 THEN c[s] - 0 ELSE 0
    BY ConfirmedCounts
  <2> QED BY <2>1, <2>2
<1> QED BY <1>1, <1>2

(* An order o is settled for q, or none is. *)
Took(o, q) ==
  /\ o \in ledger.purgatory /\ q \in Nat
  /\ ledger' \in LedgerType
  /\ ledger'.purgatory = ledger.purgatory \ {o}
  /\ ledger'.confirmed = Confirmed(ledger.confirmed, o, q)
  /\ early' = early \cup (IF q < exec[o] \/ Unfinished(o) THEN {o} ELSE {})

Kept == ledger' = ledger /\ early' = early

(* Whatever says that an order is settled, the ledger changes in one way.  *)
LEMMA SettleOne ==
  ASSUME Types, NEW o \in Orders, NEW q \in Nat, NEW credits, credits[o] = q, NEW l,
         Settle(l, credits),
         \/ l = ledger
         \/ l = Removed(ledger, o) /\ q = 0
         \/ l = Merged(Removed(ledger, o), o, q) /\ o \in ledger.purgatory
  PROVE  Kept \/ Took(o, q)
<1>1. ledger \in LedgerType
  BY DEF Types, LedgerTypes
<1>2. ledger.confirmed \in [Symbols -> Nat] /\ ledger.purgatory \in SUBSET Orders
  BY <1>1, LedgerFields
<1> DEFINE r == Removed(ledger, o)
<1>3. r \in LedgerType /\ r.confirmed = ledger.confirmed /\ r.purgatory = ledger.purgatory \ {o}
  BY <1>1, RemovedLedger
<1>4. ledger' = l
  BY DEF Settle
<1>5. early' = early \cup
        {p \in ledger.purgatory \ l.purgatory : credits[p] < exec[p] \/ Unfinished(p)}
  BY DEF Settle
<1>6. CASE l.purgatory = ledger.purgatory \ {o} /\ o \in ledger.purgatory
  <2>1. ledger.purgatory \ l.purgatory = {o}
    BY <1>6
  <2>2. early' = early \cup (IF q < exec[o] \/ Unfinished(o) THEN {o} ELSE {})
    <3> HIDE DEF Unfinished
    <3> QED BY <1>5, <2>1
  <2>3. l \in LedgerType /\ l.confirmed = Confirmed(ledger.confirmed, o, q)
    <3>1. CASE l = ledger
      BY <1>6, <3>1
    <3>2. CASE l = r /\ q = 0
      BY <1>2, <1>3, <3>2, ConfirmedNothing
    <3>3. CASE l = Merged(r, o, q)
      <4> HIDE DEF r
      <4> QED BY <1>3, <3>3, MergedLedger
    <3> QED BY <3>1, <3>2, <3>3
  <2> QED BY <1>4, <1>6, <2>2, <2>3 DEF Took
<1>7. CASE l = ledger
  <2>1. ledger.purgatory \ l.purgatory = {}
    BY <1>7
  <2>2. early' = early
    <3> HIDE DEF Unfinished
    <3> QED BY <1>5, <2>1
  <2> QED BY <1>4, <1>7, <2>2 DEF Kept
<1>8. CASE l = r /\ o \notin ledger.purgatory
  <2>1. r = ledger
    BY <1>1, <1>8 DEF Removed, LedgerType
  <2> QED BY <1>7, <1>8, <2>1
<1>9. CASE l = r /\ o \in ledger.purgatory
  BY <1>3, <1>6, <1>9
<1>10. CASE l = Merged(r, o, q) /\ o \in ledger.purgatory
  <2>1. l.purgatory = ledger.purgatory \ {o}
    <3> HIDE DEF r
    <3> QED BY <1>3, <1>10, MergedLedger
  <2> QED BY <1>6, <1>10, <2>1
<1> QED BY <1>7, <1>8, <1>9, <1>10

-----------------------------------------------------------------------------
(* What settling an order makes of the sums.                               *)

(* The orders of one side of a symbol are finitely many.                   *)
LEMMA SidesAreFinite ==
  ASSUME NEW s, NEW side, NEW P
  PROVE  /\ Side(s, side) \in SUBSET Orders
         /\ IsFiniteSet(Side(s, side)) /\ IsFiniteSet(Side(s, side) \ P)
         /\ IsFiniteSet(Side(s, side) \cap P)
<1>1. Side(s, side) \in SUBSET Orders
  BY DEF Side
<1>2. \A D \in SUBSET Orders : IsFiniteSet(D)
  BY LedgerAssumption, FS_Subset
<1> QED BY <1>1, <1>2

(* What the settled orders executed is a number.                           *)
LEMMA SettledSumType ==
  ASSUME Types, NEW s, NEW side
  PROVE  SettledSum(s, side) \in Nat
<1> DEFINE D == Side(s, side) \ ledger.purgatory
<1>1. IsFiniteSet(D) /\ D \in SUBSET Orders
  BY SidesAreFinite
<1>2. \A x \in D : exec[x] \in Nat
  BY <1>1 DEF Types, ExchangeTypes
<1> HIDE DEF D
<1>3. SumOf(exec, D) \in Nat
  BY <1>1, <1>2, SumType
<1> QED BY <1>3 DEF SettledSum, D

(* A sum over the orders that are settled, or about to be.                 *)
LEMMA SumWith ==
  ASSUME Types, NEW D \in SUBSET Orders, NEW o \in D
  PROVE  /\ SumOf(exec, D) = exec[o] + SumOf(exec, D \ {o})
         /\ exec[o] \in Nat /\ SumOf(exec, D \ {o}) \in Nat
<1>1. IsFiniteSet(D) /\ IsFiniteSet(D \ {o})
  <2>1. \A E \in SUBSET Orders : IsFiniteSet(E)
    BY LedgerAssumption, FS_Subset
  <2> QED BY <2>1
<1>2. \A x \in D : exec[x] \in Nat
  BY DEF Types, ExchangeTypes
<1>3. SumOf(exec, D) = exec[o] + SumOf(exec, D \ {o})
  BY <1>1, <1>2, SumTakeOut
<1>4. SumOf(exec, D \ {o}) \in Nat
  BY <1>1, <1>2, SumType
<1> QED BY <1>2, <1>3, <1>4

(* An order that is settled adds what it executed to its side.             *)
LEMMA SettledMore ==
  ASSUME Types, NEW o \in Orders, NEW q, Took(o, q), exec' = exec, NEW s, NEW side
  PROVE  SettledSum(s, side)' =
           SettledSum(s, side) + IF SymbolOf[o] = s /\ SideOf[o] = side THEN exec[o] ELSE 0
<1> DEFINE D == Side(s, side) \ ledger.purgatory
           E == Side(s, side) \ ledger'.purgatory
<1>1. o \in ledger.purgatory /\ ledger'.purgatory = ledger.purgatory \ {o}
  BY DEF Took
<1>2. D \in SUBSET Orders /\ E \in SUBSET Orders
  BY SidesAreFinite
<1>3. SettledSum(s, side) = SumOf(exec, D) /\ SettledSum(s, side)' = SumOf(exec, E)
  BY DEF SettledSum, Side
<1>4. SumOf(exec, D) \in Nat
  BY <1>3, SettledSumType
<1>5. CASE SymbolOf[o] = s /\ SideOf[o] = side
  <2>1. o \in E /\ E \ {o} = D
    BY <1>1, <1>5 DEF Side
  <2> HIDE DEF D, E
  <2>2. SumOf(exec, E) = exec[o] + SumOf(exec, D) /\ exec[o] \in Nat
    BY <1>2, <2>1, SumWith
  <2> QED BY <1>3, <1>4, <1>5, <2>2
<1>6. CASE ~(SymbolOf[o] = s /\ SideOf[o] = side)
  <2>1. E = D
    BY <1>1, <1>6 DEF Side
  <2> HIDE DEF D, E
  <2> QED BY <1>3, <1>4, <1>6, <2>1
<1> QED BY <1>5, <1>6

(* What an order may be settled for.                                       *)
Fair(o, q) ==
  LET s == SymbolOf[o]
  IN /\ SideOf[o] = "BUY" /\ s \notin short =>
          ledger.confirmed[s] + q <= SettledSum(s, "BUY") + exec[o]
     /\ SideOf[o] = "SELL" /\ Clean(s) =>
          q <= exec[o] \/ SettledSum(s, "BUY") - SettledSum(s, "SELL") <= exec[o]

(* A credit of no more than was executed is fair.                          *)
LEMMA LittleIsFair ==
  ASSUME Types, ConfirmedBelow, NEW o \in Orders, NEW q \in Nat, q <= exec[o]
  PROVE  Fair(o, q)
<1> DEFINE s == SymbolOf[o]
<1>1. s \in Symbols
  BY LedgerAssumption
<1>2. ledger.confirmed[s] \in Nat
  BY <1>1, LedgerFields DEF Types, LedgerTypes
<1>3. exec[o] \in Nat
  BY DEF Types, ExchangeTypes
<1>4. SettledSum(s, "BUY") \in Nat
  BY SettledSumType
<1>5. s \notin short => ledger.confirmed[s] <= SettledSum(s, "BUY")
  BY <1>1 DEF ConfirmedBelow
<1> HIDE DEF s
<1>6. s \notin short => ledger.confirmed[s] + q <= SettledSum(s, "BUY") + exec[o]
  BY <1>2, <1>3, <1>4, <1>5
<1> QED BY <1>6 DEF Fair, s

(* What is confirmed stays below what was bought.                          *)
LEMMA TookBelow ==
  ASSUME Types, Types', ConfirmedBelow, NEW o \in Orders, NEW q \in Nat, Took(o, q), Fair(o, q),
         exec' = exec, short' = short
  PROVE  ConfirmedBelow'
<1> SUFFICES ASSUME NEW s \in Symbols \ short
             PROVE  ledger'.confirmed[s] <= SettledSum(s, "BUY")'
  BY DEF ConfirmedBelow
<1> DEFINE c == ledger.confirmed
<1>1. c \in [Symbols -> Nat]
  BY LedgerFields DEF Types, LedgerTypes
<1>2. c[s] \in Nat /\ c[s] <= SettledSum(s, "BUY")
  BY <1>1 DEF ConfirmedBelow
<1>3. ledger'.confirmed[s] =
        IF s # SymbolOf[o] THEN c[s]
        ELSE IF SideOf[o] = "BUY" THEN c[s] + q
        ELSE IF c[s] - q > 0 THEN c[s] - q ELSE 0
  BY <1>1, ConfirmedCounts DEF Took
<1>4. SettledSum(s, "BUY")' =
        SettledSum(s, "BUY") + IF SymbolOf[o] = s /\ SideOf[o] = "BUY" THEN exec[o] ELSE 0
  BY SettledMore
<1>5. SettledSum(s, "BUY") \in Nat /\ exec[o] \in Nat
  BY SettledSumType DEF Types, ExchangeTypes
<1>6. SymbolOf[o] = s /\ SideOf[o] = "BUY" => c[s] + q <= SettledSum(s, "BUY") + exec[o]
  BY DEF Fair
<1> HIDE DEF c
<1>7. CASE SymbolOf[o] = s /\ SideOf[o] = "BUY"
  BY <1>3, <1>4, <1>6, <1>7
<1>8. CASE ~(SymbolOf[o] = s /\ SideOf[o] = "BUY")
  <2>1. ledger'.confirmed[s] <= c[s]
    BY <1>2, <1>3, <1>8
  <2>2. SettledSum(s, "BUY")' = SettledSum(s, "BUY")
    BY <1>4, <1>5, <1>8
  <2>3. ledger'.confirmed[s] \in Nat
    BY LedgerFields DEF Types, LedgerTypes
  <2> QED BY <1>2, <1>5, <2>1, <2>2, <2>3
<1> QED BY <1>7, <1>8

(* And above what remains of it, unless an order was settled early.        *)
LEMMA TookAbove ==
  ASSUME Types, Types', ConfirmedAbove, NEW o \in Orders, NEW q \in Nat, Took(o, q), Fair(o, q),
         exec' = exec
  PROVE  ConfirmedAbove'
<1> SUFFICES ASSUME NEW s \in Symbols, Clean(s)'
             PROVE  SettledSum(s, "BUY")' - SettledSum(s, "SELL")' <= ledger'.confirmed[s]
  BY DEF ConfirmedAbove
<1> DEFINE c == ledger.confirmed
           b == SettledSum(s, "BUY")
           d == SettledSum(s, "SELL")
<1>1. c \in [Symbols -> Nat]
  BY LedgerFields DEF Types, LedgerTypes
<1>2. c[s] \in Nat /\ b \in Nat /\ d \in Nat /\ exec[o] \in Nat
  BY <1>1, SettledSumType DEF Types, ExchangeTypes
<1>3. Clean(s) /\ (SymbolOf[o] = s => exec[o] <= q)
  BY <1>2 DEF Clean, Took
<1>4. b - d <= c[s]
  BY <1>3 DEF ConfirmedAbove
<1>5. ledger'.confirmed[s] =
        IF s # SymbolOf[o] THEN c[s]
        ELSE IF SideOf[o] = "BUY" THEN c[s] + q
        ELSE IF c[s] - q > 0 THEN c[s] - q ELSE 0
  BY <1>1, ConfirmedCounts DEF Took
<1>6. /\ b' = b + IF SymbolOf[o] = s /\ SideOf[o] = "BUY" THEN exec[o] ELSE 0
      /\ d' = d + IF SymbolOf[o] = s /\ SideOf[o] = "SELL" THEN exec[o] ELSE 0
  BY SettledMore
<1>7. SideOf[o] \in {"BUY", "SELL"}
  BY LedgerAssumption
<1>8. SymbolOf[o] = s /\ SideOf[o] = "SELL" => q <= exec[o] \/ b - d <= exec[o]
  BY <1>3 DEF Fair
<1> HIDE DEF c, b, d
<1>9. b' - d' <= ledger'.confirmed[s]
  <2>1. CASE SymbolOf[o] # s
    BY <1>2, <1>4, <1>5, <1>6, <2>1
  <2>2. CASE SymbolOf[o] = s /\ SideOf[o] = "BUY"
    <3>1. b' = b + exec[o] /\ d' = d /\ ledger'.confirmed[s] = c[s] + q
      BY <1>2, <1>5, <1>6, <2>2
    <3> QED BY <1>2, <1>3, <1>4, <2>2, <3>1
  <2>3. CASE SymbolOf[o] = s /\ SideOf[o] = "SELL"
    <3>1. b' = b /\ d' = d + exec[o] /\ ledger'.confirmed[s] = IF c[s] - q > 0 THEN c[s] - q ELSE 0
      BY <1>2, <1>5, <1>6, <2>3
    <3> QED BY <1>2, <1>3, <1>4, <1>8, <2>3, <3>1
  <2> QED BY <1>7, <2>1, <2>2, <2>3
<1> QED BY <1>9 DEF b, d

(* A position that is being arbitrated stays true.                         *)
LEMMA TookPosition ==
  ASSUME Types, Types', PositionIsTrue, OnePerSymbol,
         NEW o \in Orders, NEW q \in Nat, Took(o, q),
         exec' = exec, short' = short, rec' = rec
  PROVE  PositionIsTrue'
<1> SUFFICES ASSUME rec.phase = "arbitrate", Waiting PROVE PositionIsTrue'
  BY DEF PositionIsTrue, Waiting
<1> DEFINE s == rec.asked
           size == rec.answer[1]
<1>1. /\ s \in Symbols /\ size \in Nat
      /\ s \notin short => size <= SumOf(exec, Bought(s))
      /\ \A p \in rec.remaining \cap ledger.purgatory :
           SymbolOf[p] = s /\ SideOf[p] = "SELL" /\ Clean(s) =>
             \/ size <= ledger.confirmed[s]
             \/ SettledSum(s, "BUY") - SettledSum(s, "SELL") <= exec[p]
  BY DEF PositionIsTrue
<1>2. ASSUME NEW p \in rec.remaining \cap ledger'.purgatory,
             SymbolOf[p] = s, SideOf[p] = "SELL", Clean(s)'
      PROVE  \/ size <= ledger'.confirmed[s]
             \/ SettledSum(s, "BUY")' - SettledSum(s, "SELL")' <= exec[p]
  <2>1. p \in ledger.purgatory /\ p # o /\ o \in ledger.purgatory
    BY <1>2 DEF Took
  <2>2. SymbolOf[o] # s
    BY <1>2, <2>1 DEF OnePerSymbol
  <2>3. Clean(s)
    BY <1>2 DEF Took, Clean
  <2>4. ledger'.confirmed[s] = ledger.confirmed[s]
    <3>1. ledger.confirmed \in [Symbols -> Nat]
      BY LedgerFields DEF Types, LedgerTypes
    <3> QED BY <1>1, <2>2, <3>1, ConfirmedCounts DEF Took
  <2>5. \A side : SettledSum(s, side) \in Nat
    BY SettledSumType
  <2>6. \A side : SettledSum(s, side)' = SettledSum(s, side)
    <3> SUFFICES ASSUME NEW side PROVE SettledSum(s, side)' = SettledSum(s, side)
      OBVIOUS
    <3>1. SettledSum(s, side)' =
            SettledSum(s, side) + IF SymbolOf[o] = s /\ SideOf[o] = side THEN exec[o] ELSE 0
      BY SettledMore
    <3> QED BY <2>2, <2>5, <3>1
  <2> QED BY <1>1, <1>2, <2>1, <2>3, <2>4, <2>6
<1>3. SumOf(exec, Bought(s))' = SumOf(exec, Bought(s))
  BY DEF Bought, Side
<1> QED BY <1>1, <1>2, <1>3 DEF PositionIsTrue

-----------------------------------------------------------------------------
(* The three ways an order is settled.                                     *)

TookOne == \E o \in Orders : \E q \in Nat : Took(o, q) /\ Fair(o, q)

(* So an order settled for no more than it executed is settled fairly.     *)
LEMMA SettledLittle ==
  ASSUME Types, ConfirmedBelow, NEW o \in Orders, NEW q \in Nat, q <= exec[o],
         Kept \/ Took(o, q)
  PROVE  Kept \/ TookOne
BY LittleIsFair DEF TookOne

(* The credit of one order, and of none.                                   *)
LEMMA OnlyCredits ==
  ASSUME NEW o \in Orders, NEW q
  PROVE  Only(o, q)[o] = q /\ Nothing[o] = 0
BY DEF Only, Nothing

(* By the WebSocket: a fill or a rejection.                                *)
LEMMA HearSettles ==
  ASSUME Types, Fates, ConfirmedBelow, Hear
  PROVE  Kept \/ TookOne
<1> DEFINE m == Head(news)
           o == m.order
<1>1. news \in Seq(Events) /\ news # <<>>
  BY DEF Types, NetTypes, Hear
<1>2. m = news[1] /\ 1 \in DOMAIN news /\ m \in Events
  BY <1>1
<1>3. o \in Orders /\ m.kind \in {"fill", "end"} /\ m.qty \in Nat
  BY <1>2 DEF Events
<1>4. m.kind = "fill" => m.qty <= exec[o]
  BY <1>2 DEF Fates, NewsIsTrue
<1>5. IF m.kind = "fill" THEN Settle(Filled(ledger, o, m.qty), Only(o, m.qty))
      ELSE Settle(Removed(ledger, o), Nothing)
  BY DEF Hear
<1>6. exec[o] \in Nat
  BY <1>3 DEF Types, ExchangeTypes
<1> HIDE DEF o, m
<1>7. CASE m.kind = "fill"
  <2> DEFINE l == Filled(ledger, o, m.qty)
             credits == Only(o, m.qty)
  <2>1. Settle(l, credits)
    BY <1>5, <1>7
  <2>2. credits[o] = m.qty
    BY <1>3, OnlyCredits
  <2>3. \/ l = ledger
        \/ l = Merged(Removed(ledger, o), o, m.qty) /\ o \in ledger.purgatory
    BY DEF Filled
  <2> HIDE DEF l, credits
  <2>4. Kept \/ Took(o, m.qty)
    BY <1>3, <2>1, <2>2, <2>3, SettleOne
  <2> QED BY <1>3, <1>4, <1>7, <2>4, SettledLittle
<1>8. CASE m.kind # "fill"
  <2> DEFINE l == Removed(ledger, o)
             credits == Nothing
  <2>1. Settle(l, credits)
    BY <1>5, <1>8
  <2>2. credits[o] = 0
    BY <1>3, OnlyCredits
  <2>3. l = Removed(ledger, o) /\ 0 \in Nat
    OBVIOUS
  <2> HIDE DEF l, credits
  <2>4. Kept \/ Took(o, 0)
    BY <1>3, <2>1, <2>2, <2>3, SettleOne
  <2>5. 0 <= exec[o]
    BY <1>6
  <2> QED BY <1>3, <2>3, <2>4, <2>5, SettledLittle
<1> QED BY <1>7, <1>8

(* By the answer to an order query.                                        *)
LEMMA AnswerSettles ==
  ASSUME Types, Fates, ConfirmedBelow, Answer
  PROVE  Kept \/ TookOne
<1> DEFINE o == rec.asked
           told == rec.answer # <<>>
           st == rec.answer[1]
           n == rec.answer[2]
           filled == told /\ st \in {"Filled", "PartiallyFilled"}
           l == IF rec.answer = <<>> THEN Removed(ledger, o) ELSE Reconciled(ledger, o, st, n)
           credits == IF filled THEN Only(o, n) ELSE Nothing
           q == IF filled THEN n ELSE 0
<1>1. rec.phase = "query" /\ Waiting
  BY DEF Answer
<1>2. o \in Orders
  BY <1>1 DEF Fates, AnswerIsTrue
<1>3. told => st \in Statuses /\ n \in Nat /\ n <= exec[o]
  BY <1>1 DEF Fates, AnswerIsTrue
<1>4. Settle(l, credits)
  BY DEF Answer
<1>5. exec[o] \in Nat
  BY <1>2 DEF Types, ExchangeTypes
<1>6. q \in Nat /\ q <= exec[o]
  BY <1>3, <1>5
<1>7. credits[o] = q
  BY <1>2, OnlyCredits
<1>8. \/ l = ledger
      \/ l = Removed(ledger, o) /\ q = 0
      \/ l = Merged(Removed(ledger, o), o, q) /\ o \in ledger.purgatory
  <2>1. CASE ~told
    BY <2>1
  <2>2. CASE told /\ o \notin ledger.purgatory
    BY <2>2 DEF Reconciled
  <2>3. CASE told /\ o \in ledger.purgatory
    <3>1. l = CASE st \in {"Filled", "PartiallyFilled"} -> Merged(Removed(ledger, o), o, n)
                [] st \in {"Cancelled", "Rejected"} -> Removed(ledger, o)
                [] OTHER -> ledger
      BY <2>3 DEF Reconciled
    <3>2. CASE st \in {"Filled", "PartiallyFilled"}
      <4>1. ~(st \in {"Cancelled", "Rejected"})
        BY <3>2
      <4>2. l = Merged(Removed(ledger, o), o, n)
        <5> HIDE DEF st, l, n
        <5> QED BY <2>3, <3>1, <3>2, <4>1
      <4> QED BY <2>3, <3>2, <4>2
    <3>3. CASE st \in {"Cancelled", "Rejected"}
      <4>1. ~(st \in {"Filled", "PartiallyFilled"})
        BY <3>3
      <4>2. l = Removed(ledger, o)
        <5> HIDE DEF st, l, n
        <5> QED BY <2>3, <3>1, <3>3, <4>1
      <4> QED BY <4>1, <4>2
    <3>4. CASE ~(st \in {"Filled", "PartiallyFilled"}) /\ ~(st \in {"Cancelled", "Rejected"})
      <4>1. l = ledger
        <5> HIDE DEF st, l, n
        <5> QED BY <2>3, <3>1, <3>4
      <4> QED BY <4>1
    <3> QED BY <3>2, <3>3, <3>4
  <2> QED BY <2>1, <2>2, <2>3
<1> HIDE DEF o, l, credits, q
<1>9. Kept \/ Took(o, q)
  BY <1>2, <1>4, <1>6, <1>7, <1>8, SettleOne
<1> QED BY <1>2, <1>6, <1>9, SettledLittle

(* The sum over all bought orders of a symbol, one of which is not settled.*)
LEMMA AllBought ==
  ASSUME Types, OnePerSymbol, NEW o \in ledger.purgatory, SideOf[o] = "BUY"
  PROVE  SumOf(exec, Bought(SymbolOf[o])) = SettledSum(SymbolOf[o], "BUY") + exec[o]
<1> DEFINE s == SymbolOf[o]
           D == Bought(s)
<1>1. ledger.purgatory \in SUBSET Orders
  BY LedgerFields DEF Types, LedgerTypes
<1>2. o \in D /\ D \in SUBSET Orders
  BY <1>1 DEF Bought, Side
<1>3. Side(s, "BUY") \ ledger.purgatory = D \ {o}
  BY <1>1 DEF Bought, Side, OnePerSymbol
<1>4. SettledSum(s, "BUY") = SumOf(exec, D \ {o})
  BY <1>3 DEF SettledSum
<1> HIDE DEF D
<1>5. SumOf(exec, D) = exec[o] + SumOf(exec, D \ {o}) /\ exec[o] \in Nat /\ SumOf(exec, D \ {o}) \in Nat
  BY <1>2, SumWith
<1> QED BY <1>4, <1>5 DEF D

(* By arbitration: at most one order of the symbol, for the excess.        *)
LEMMA ArbitrateSettles ==
  ASSUME Types, Fates, ConfirmedBelow, PositionIsTrue, Arbitrate
  PROVE  Kept \/ TookOne
<1> DEFINE s == rec.asked
           size == rec.answer[1]
           c == ledger.confirmed[s]
           subjects == Subjects(s, size)
           credits == [p \in Orders |-> IF p \in subjects THEN Attributed(p, size) ELSE 0]
           l == FoldSet(LAMBDA p, m : Credited(m, p, credits[p]), ledger, subjects)
<1>1. rec.phase = "arbitrate" /\ Waiting
  BY DEF Arbitrate
<1>2. /\ s \in Symbols /\ size \in Nat
      /\ s \notin short => size <= SumOf(exec, Bought(s))
      /\ \A o \in rec.remaining \cap ledger.purgatory :
           SymbolOf[o] = s /\ SideOf[o] = "SELL" /\ Clean(s) =>
             \/ size <= c
             \/ SettledSum(s, "BUY") - SettledSum(s, "SELL") <= exec[o]
  BY <1>1 DEF PositionIsTrue
<1>3. Settle(l, credits)
  BY DEF Arbitrate
<1>4. subjects = {o \in rec.remaining \cap ledger.purgatory : SymbolOf[o] = s}
  BY DEF Subjects
<1>5. ledger.purgatory \in SUBSET Orders /\ c \in Nat
  <2>1. ledger.confirmed \in [Symbols -> Nat] /\ ledger.purgatory \in SUBSET Orders
    BY LedgerFields DEF Types, LedgerTypes
  <2> QED BY <1>2, <2>1
<1>6. CASE subjects = {}
  <2>1. l = ledger
    <3> HIDE DEF credits, subjects
    <3> DEFINE F(h) == [p \in SUBSET subjects |->
                          IF p = {} THEN ledger
                          ELSE Credited(h[p \ {CHOOSE x \in p : TRUE}],
                                        CHOOSE x \in p : TRUE, credits[CHOOSE x \in p : TRUE])]
               g == [p \in SUBSET subjects |-> ledger]
               r == CHOOSE h : h = F(h)
    <3>1. g = F(g)
      BY <1>6
    <3>2. r = F(r)
      <4> HIDE DEF F, g
      <4> QED BY <3>1
    <3>3. l = r[subjects]
      BY DEF FoldSet, MapThenFoldSet
    <3> QED BY <1>6, <3>2, <3>3
  <2> HIDE DEF credits, l
  <2>2. ledger' = ledger
    BY <1>3, <2>1 DEF Settle
  <2>3. early' = early \cup
          {p \in ledger.purgatory \ l.purgatory : credits[p] < exec[p] \/ Unfinished(p)}
    BY <1>3 DEF Settle
  <2>4. early' = early
    <3> HIDE DEF Unfinished
    <3>1. ledger.purgatory \ l.purgatory = {}
      BY <2>1
    <3> QED BY <2>3, <3>1
  <2> QED BY <2>2, <2>4 DEF Kept
<1>7. CASE subjects # {}
  <2>1. PICK o \in subjects : TRUE
    BY <1>7
  <2>2. o \in rec.remaining \cap ledger.purgatory /\ SymbolOf[o] = s /\ o \in Orders
    BY <1>4, <1>5, <2>1
  <2>3. subjects = {o}
    BY <1>4, <2>1, <2>2 DEF Fates, OnePerSymbol
  <2> DEFINE q == Attributed(o, size)
  <2>4. credits[o] = q
    <3> HIDE DEF subjects, q
    <3> QED BY <2>1, <2>2 DEF q
  <2>5. l = Credited(ledger, o, q)
    <3> HIDE DEF credits, subjects, q
    <3>1. FoldSet(LAMBDA p, m : Credited(m, p, credits[p]), ledger, {o}) =
            Credited(ledger, o, credits[o])
      BY FoldOne
    <3> QED BY <2>3, <2>4, <3>1
  <2>6. QtyOf[o] \in Nat /\ exec[o] \in Nat
    BY <2>2, LedgerAssumption DEF Types, ExchangeTypes
  <2>7. q \in Nat /\ (size <= c => q = 0) /\ (size > c => q <= size - c)
    <3> DEFINE excess == size - c
    <3>1. excess \in Int
      BY <1>2, <1>5
    <3>2. q = IF excess > 0 THEN Min({QtyOf[o], excess}) ELSE 0
      BY <2>2 DEF Attributed
    <3> HIDE DEF excess
    <3>3. Min({QtyOf[o], excess}) = IF QtyOf[o] <= excess THEN QtyOf[o] ELSE excess
      BY <2>6, <3>1, MinOfTwo
    <3> HIDE DEF q
    <3> QED BY <1>2, <1>5, <2>6, <3>1, <3>2, <3>3 DEF excess
  <2> HIDE DEF l, credits, subjects, q
  <2>8. \/ l = Removed(ledger, o) /\ q = 0
        \/ l = Merged(Removed(ledger, o), o, q) /\ o \in ledger.purgatory
    BY <2>2, <2>5, <2>7 DEF Credited, Filled
  <2>9. Kept \/ Took(o, q)
    BY <1>3, <2>2, <2>4, <2>7, <2>8, SettleOne
  <2>10. ASSUME SideOf[o] = "BUY", s \notin short
         PROVE  c + q <= SettledSum(s, "BUY") + exec[o]
    <3>1. size <= SettledSum(s, "BUY") + exec[o]
      BY <1>2, <2>2, <2>10, AllBought DEF Fates
    <3>2. c <= SettledSum(s, "BUY")
      BY <1>2, <2>10 DEF ConfirmedBelow
    <3>3. SettledSum(s, "BUY") \in Nat
      BY SettledSumType
    <3> HIDE DEF c, s, size
    <3> QED BY <1>2, <1>5, <2>6, <2>7, <3>1, <3>2, <3>3
  <2>11. ASSUME SideOf[o] = "SELL", Clean(s)
         PROVE  q <= exec[o] \/ SettledSum(s, "BUY") - SettledSum(s, "SELL") <= exec[o]
    BY <1>2, <2>2, <2>6, <2>7, <2>11
  <2>12. Fair(o, q)
    BY <2>2, <2>10, <2>11 DEF Fair
  <2> QED BY <2>2, <2>7, <2>9, <2>12 DEF TookOne
<1> QED BY <1>6, <1>7

-----------------------------------------------------------------------------
(* The types.                                                              *)

(* The fields of a reconciliation.                                         *)
LEMMA RecFields ==
  ASSUME NEW r \in Reconciliations
  PROVE  /\ r.phase \in {"idle", "query", "arbitrate", "publish"}
         /\ r.todo \in SUBSET Orders /\ r.tries \in 0 .. MaxRetries - 1
         /\ r.remaining \in SUBSET Orders /\ r.symbols \in SUBSET Symbols
         /\ r.asked \in Orders \cup Symbols \cup {"none"}
         /\ r.answer \in Answers /\ r.failed \in SUBSET Symbols
<1> HIDE DEF Answers
<1> QED BY DEF Reconciliations

(* The first attempt is within the limit.                                  *)
LEMMA NoRetry ==
  0 \in 0 .. MaxRetries - 1
BY ReconcilerAssumption

(* No answer is an answer.                                                 *)
LEMMA NoAnswer ==
  <<>> \in Answers
BY DEF Answers

(* The reconciler at rest.                                                 *)
LEMMA IdleType ==
  Idle \in Reconciliations
<1> HIDE DEF Answers
<1> QED BY NoRetry, NoAnswer DEF Idle, Reconciliations

(* A query that is over leaves the rest of the reconciliation.             *)
LEMMA Forgotten ==
  ASSUME NEW r \in Reconciliations
  PROVE  /\ Forget(r) \in Reconciliations /\ Forget(r).asked = "none"
         /\ Forget(r).phase = r.phase /\ Forget(r).todo = r.todo /\ Forget(r).tries = r.tries
         /\ Forget(r).remaining = r.remaining /\ Forget(r).symbols = r.symbols
         /\ Forget(r).failed = r.failed
<1> HIDE DEF Answers
<1> QED BY NoAnswer DEF Forget, Reconciliations

(* The next query, or the first position query.                            *)
LEMMA NextQueryOf ==
  ASSUME NEW r \in Reconciliations, NEW l \in LedgerType
  PROVE  LET n == NextQuery(r, l)
         IN /\ n \in Reconciliations /\ n.asked = r.asked
            /\ n.remaining \subseteq r.remaining \cup l.purgatory
            /\ \/ n.phase = r.phase
               \/ \A o \in l.purgatory : SymbolOf[o] \in n.symbols
<1> DEFINE n == NextQuery(r, l)
<1>1. l.purgatory \in SUBSET Orders
  BY LedgerFields
<1>2. {SymbolOf[o] : o \in l.purgatory} \in SUBSET Symbols
  BY <1>1, LedgerAssumption
<1>3. r.remaining \in SUBSET Orders
  BY RecFields
<1> HIDE DEF Answers
<1>4. CASE r.todo # {}
  BY <1>4 DEF NextQuery
<1>5. CASE r.todo = {} /\ l.purgatory = {}
  <2>1. n = [r EXCEPT !.phase = "publish"]
    BY <1>5 DEF NextQuery
  <2>2. n \in Reconciliations /\ n.asked = r.asked /\ n.remaining = r.remaining
    BY <2>1 DEF Reconciliations
  <2> QED BY <1>5, <2>2
<1>6. CASE r.todo = {} /\ l.purgatory # {}
  <2> DEFINE ss == {SymbolOf[o] : o \in l.purgatory}
  <2>1. n = [r EXCEPT !.phase = "arbitrate", !.remaining = l.purgatory, !.symbols = ss]
    BY <1>6 DEF NextQuery
  <2>2. \A o \in l.purgatory : SymbolOf[o] \in ss
    OBVIOUS
  <2> HIDE DEF ss
  <2>3. ss \in SUBSET Symbols
    BY <1>2 DEF ss
  <2>4. n \in Reconciliations /\ n.asked = r.asked /\ n.remaining = l.purgatory /\ n.symbols = ss
    BY <1>1, <2>1, <2>3 DEF Reconciliations
  <2> QED BY <2>2, <2>4
<1> QED BY <1>4, <1>5, <1>6

(* A failed attempt forgets its question and stays in its phase.           *)
LEMMA TriedOf ==
  ASSUME NEW r \in Reconciliations, NEW o
  PROVE  LET t == Tried(r, o)
         IN /\ t \in Reconciliations /\ t.asked = "none" /\ t.phase = r.phase
            /\ t.remaining = r.remaining
<1> DEFINE f == Forget(r)
<1>1. /\ f \in Reconciliations /\ f.asked = "none" /\ f.phase = r.phase
      /\ f.remaining = r.remaining /\ f.tries = r.tries
  BY Forgotten
<1>2. r.tries \in Nat /\ MaxRetries \in Nat
  BY RecFields, ReconcilerAssumption
<1> HIDE DEF f, Answers
<1>3. CASE r.tries + 1 < MaxRetries
  <2>1. Tried(r, o) = [f EXCEPT !.tries = f.tries + 1]
    BY <1>3 DEF Tried, f
  <2>2. f.tries + 1 \in 0 .. MaxRetries - 1
    BY <1>1, <1>2, <1>3
  <2>3. /\ Tried(r, o) \in Reconciliations /\ Tried(r, o).asked = f.asked
        /\ Tried(r, o).phase = f.phase /\ Tried(r, o).remaining = f.remaining
    BY <1>1, <2>1, <2>2 DEF Reconciliations
  <2> QED BY <1>1, <2>3
<1>4. CASE ~(r.tries + 1 < MaxRetries)
  <2>1. Tried(r, o) = [f EXCEPT !.todo = f.todo \ {o}, !.tries = 0]
    BY <1>1, <1>4 DEF Tried, f, Reconciliations
  <2>2. f.todo \ {o} \in SUBSET Orders
    BY <1>1, RecFields
  <2>3. /\ Tried(r, o) \in Reconciliations /\ Tried(r, o).asked = f.asked
        /\ Tried(r, o).phase = f.phase /\ Tried(r, o).remaining = f.remaining
    BY <1>1, <2>1, <2>2, NoRetry DEF Reconciliations
  <2> QED BY <1>1, <2>3
<1> QED BY <1>3, <1>4

(* The symbol that was arbitrated is done with.                            *)
LEMMA ArbitratedOf ==
  ASSUME NEW r \in Reconciliations, NEW s
  PROVE  LET a == Arbitrated(r, s)
         IN /\ a \in Reconciliations /\ a.asked = "none" /\ a.remaining = r.remaining
            /\ a.symbols = r.symbols \ {s} /\ a.failed = r.failed
            /\ a.phase \in {r.phase, "publish"}
<1> DEFINE f == Forget(r)
           ph == IF r.symbols = {s} THEN "publish" ELSE f.phase
<1>1. /\ f \in Reconciliations /\ f.asked = "none" /\ f.phase = r.phase
      /\ f.remaining = r.remaining /\ f.symbols = r.symbols /\ f.failed = r.failed
  BY Forgotten
<1>2. f.symbols \ {s} \in SUBSET Symbols
  BY <1>1, RecFields
<1>3. ph \in {r.phase, "publish"} /\ ph \in {"idle", "query", "arbitrate", "publish"}
  BY <1>1, RecFields
<1>4. Arbitrated(r, s) = [f EXCEPT !.symbols = f.symbols \ {s}, !.phase = ph]
  <2> HIDE DEF Answers
  <2> QED BY <1>1 DEF Arbitrated, Reconciliations, f
<1> HIDE DEF f, ph, Answers
<1>5. /\ Arbitrated(r, s) \in Reconciliations /\ Arbitrated(r, s).asked = f.asked
      /\ Arbitrated(r, s).remaining = f.remaining /\ Arbitrated(r, s).failed = f.failed
      /\ Arbitrated(r, s).symbols = f.symbols \ {s} /\ Arbitrated(r, s).phase = ph
  BY <1>1, <1>2, <1>3, <1>4 DEF Reconciliations
<1> QED BY <1>1, <1>3, <1>5

-----------------------------------------------------------------------------
(* The exchange and the connection.                                        *)

(* The invariant holds at the start: nothing was executed.                 *)
LEMMA InitHolds ==
  Init => LedgerInvariant
<1> SUFFICES ASSUME Init PROVE LedgerInvariant
  OBVIOUS
<1> USE DEF Init
<1>1. ledger \in LedgerType /\ ledger.purgatory = {} /\ \A s \in Symbols : ledger.confirmed[s] = 0
  BY DEF EmptyLedger, LedgerType
<1>2. QtyOf \in [Orders -> Nat \ {0}]
  BY LedgerAssumption
<1>3. ExchangeTypes
  <2>1. \A o \in Orders : exec[o] <= QtyOf[o]
    BY <1>2
  <2> QED BY <2>1 DEF ExchangeTypes, Statuses
<1>4. NetTypes
  <2>1. news \in Seq(Events)
    OBVIOUS
  <2>2. drops \in 0 .. MaxDrops
    BY ReconcilerAssumption
  <2> QED BY <2>1, <2>2 DEF NetTypes
<1>5. RecTypes /\ rec.phase = "idle"
  BY IdleType DEF RecTypes, Idle
<1>6. Types
  BY <1>1, <1>3, <1>4, <1>5 DEF Types, LedgerTypes, HistoryTypes
<1>7. Fates
  <2>1. rec.remaining = {}
    BY DEF Idle
  <2>2. NewsIsTrue
    BY DEF NewsIsTrue
  <2> QED BY <1>1, <1>5, <2>1, <2>2
       DEF Fates, OnePerSymbol, NewIsBlank, SettledIsOver, AnswerIsTrue, Unfinished
<1>8. Sums
  <2>1. ASSUME NEW s, NEW side PROVE SettledSum(s, side) = 0
    <3> DEFINE D == Side(s, side)
               zero == [o \in D |-> 0]
    <3>1. SettledSum(s, side) = SumOf(exec, D)
      <4>1. D \ ledger.purgatory = D
        BY <1>1
      <4> QED BY <4>1 DEF SettledSum
    <3>2. IsFiniteSet(D) /\ D \in SUBSET Orders
      BY SidesAreFinite
    <3>3. \A o \in D : exec[o] = 0
      BY <3>2
    <3> DEFINE Z == {E \in SUBSET D : SumOf(exec, E) = 0}
    <3> HIDE DEF D
    <3>4. \A E \in SUBSET D : (\A F \in SUBSET E : F # E => F \in Z) => E \in Z
      <4> SUFFICES ASSUME NEW E \in SUBSET D, \A F \in SUBSET E : F # E => F \in Z
                   PROVE  SumOf(exec, E) = 0
        OBVIOUS
      <4>1. SumOf(exec, E) = IF E = {} THEN 0 ELSE exec[Pick(E)] + SumOf(exec, E \ {Pick(E)})
        BY <3>2, FS_Subset, SumStep
      <4>2. E # {} => exec[Pick(E)] = 0 /\ SumOf(exec, E \ {Pick(E)}) = 0
        BY <3>3, PickIsIn
      <4> QED BY <4>1, <4>2
    <3> HIDE DEF Z
    <3>5. \A E \in SUBSET D : E \in Z
      BY <3>2, <3>4, SubsetInduction
    <3> QED BY <3>1, <3>5 DEF Z
  <2>2. ConfirmedBelow
    BY <1>1, <2>1 DEF ConfirmedBelow
  <2>3. ConfirmedAbove
    <3>1. \A s \in Symbols : SettledSum(s, "BUY") = 0 /\ SettledSum(s, "SELL") = 0
      BY <2>1
    <3> QED BY <1>1, <3>1 DEF ConfirmedAbove
  <2>4. PositionIsTrue
    BY <1>5 DEF PositionIsTrue
  <2> QED BY <2>2, <2>3, <2>4 DEF Sums
<1>9. ArbitratedIsSettled
  BY <1>5 DEF ArbitratedIsSettled
<1> QED BY <1>6, <1>7, <1>8, <1>9 DEF LedgerInvariant

(* A step that changes nothing the sums are about leaves them.             *)
LEMMA QuietSums ==
  ASSUME Sums, ledger' = ledger, exec' = exec, early' = early, short' = short, rec' = rec
  PROVE  Sums'
<1>1. ConfirmedBelow' /\ ConfirmedAbove'
  BY DEF Sums, ConfirmedBelow, ConfirmedAbove, SettledSum, Clean, Side
<1>2. PositionIsTrue'
  BY DEF Sums, PositionIsTrue, Waiting, SettledSum, Clean, Side, Bought
<1> QED BY <1>1, <1>2 DEF Sums

(* An order that arbitration settled does not come back.                   *)
LEMMA StillSettled ==
  ASSUME ArbitratedIsSettled, rec' = rec,
         \A o \in ledger'.purgatory : o \in ledger.purgatory \/ o \notin rec.remaining
  PROVE  ArbitratedIsSettled'
BY DEF ArbitratedIsSettled

(* What an order's fate becomes of interest to the reports about it.       *)
LEMMA ReportOf ==
  ASSUME Types, NEW o \in Orders, NEW kind \in {"fill", "end"}, NEW qty \in Nat,
         Report(o, kind, qty)
  PROVE  /\ news' \in Seq(Events)
         /\ \A i \in DOMAIN news' :
              \/ i \in DOMAIN news /\ news'[i] = news[i]
              \/ news'[i] = [order |-> o, kind |-> kind, qty |-> qty]
<1> DEFINE m == [order |-> o, kind |-> kind, qty |-> qty]
<1>1. news \in Seq(Events) /\ m \in Events
  BY DEF Types, NetTypes, Events
<1>2. news' = Append(news, m) \/ news' = news
  BY DEF Report
<1> HIDE DEF m
<1>3. CASE news' = Append(news, m)
  BY <1>1, <1>3 DEF m
<1>4. CASE news' = news
  BY <1>1, <1>4
<1> QED BY <1>2, <1>3, <1>4

(* An order arrives at the exchange, or is lost.                           *)
LEMMA ArriveKeeps ==
  ASSUME LedgerInvariant, NEW o \in Orders, Arrive(o)
  PROVE  LedgerInvariant'
<1>1. /\ place[o] = "wire" /\ UNCHANGED <<ledger, exec, status, news, connVars, rec, history>>
      /\ \E p \in {"working", "lost"} : place' = [place EXCEPT ![o] = p]
  BY DEF Arrive
<1>2. place \in [Orders -> {"new", "wire", "working", "done", "lost"}]
  BY DEF LedgerInvariant, Types, ExchangeTypes
<1>3. place' \in [Orders -> {"new", "wire", "working", "done", "lost"}]
  BY <1>1, <1>2
<1>4. \A q \in Orders : place'[q] = "new" => place[q] = "new"
  BY <1>1, <1>2
<1>5. \A q \in Orders : Unfinished(q)' => Unfinished(q) /\ place[q] # "new"
  BY <1>1, <1>2 DEF Unfinished
<1>6. Types'
  BY <1>1, <1>3 DEF LedgerInvariant, Types, LedgerTypes, ExchangeTypes, NetTypes, HistoryTypes,
                    RecTypes, connVars, history
<1>7. Fates'
  BY <1>1, <1>4, <1>5 DEF LedgerInvariant, Fates, OnePerSymbol, NewIsBlank, SettledIsOver,
                          NewsIsTrue, AnswerIsTrue, Waiting, history
<1>8. Sums'
  BY <1>1, QuietSums DEF LedgerInvariant, history
<1>9. ArbitratedIsSettled'
  BY <1>1, StillSettled DEF LedgerInvariant
<1> QED BY <1>6, <1>7, <1>8, <1>9 DEF LedgerInvariant

(* An order ends.                                                          *)
LEMMA KillKeeps ==
  ASSUME LedgerInvariant, NEW o \in Orders, Kill(o)
  PROVE  LedgerInvariant'
<1>1. /\ place[o] = "working" /\ place' = [place EXCEPT ![o] = "done"]
      /\ \E s \in {"Cancelled", "Rejected"} : status' = [status EXCEPT ![o] = s]
      /\ Report(o, "end", 0)
      /\ UNCHANGED <<ledger, exec, connVars, rec, history>>
  BY DEF Kill
<1>2. /\ place \in [Orders -> {"new", "wire", "working", "done", "lost"}]
      /\ status \in [Orders -> Statuses]
  BY DEF LedgerInvariant, Types, ExchangeTypes
<1>3. /\ place' \in [Orders -> {"new", "wire", "working", "done", "lost"}]
      /\ status' \in [Orders -> Statuses]
  BY <1>1, <1>2 DEF Statuses
<1>4. \A q \in Orders : place'[q] = "new" => place[q] = "new"
  BY <1>1, <1>2
<1>5. \A q \in Orders : Unfinished(q)' => Unfinished(q) /\ place[q] # "new"
  BY <1>1, <1>2 DEF Unfinished
<1>6. /\ news' \in Seq(Events)
      /\ \A i \in DOMAIN news' :
           \/ i \in DOMAIN news /\ news'[i] = news[i]
           \/ news'[i] = [order |-> o, kind |-> "end", qty |-> 0]
  <2>1. Types
    BY DEF LedgerInvariant
  <2> QED BY <1>1, <2>1, ReportOf
<1>7. Types'
  BY <1>1, <1>3, <1>6 DEF LedgerInvariant, Types, LedgerTypes, ExchangeTypes, NetTypes, HistoryTypes,
                    RecTypes, connVars, history
<1>8. Fates'
  <2>1. NewsIsTrue'
    BY <1>1, <1>6 DEF LedgerInvariant, Fates, NewsIsTrue
  <2> QED BY <1>1, <1>4, <1>5, <2>1
       DEF LedgerInvariant, Fates, OnePerSymbol, NewIsBlank, SettledIsOver,
           AnswerIsTrue, Waiting, history
<1>9. Sums'
  BY <1>1, QuietSums DEF LedgerInvariant, history
<1>10. ArbitratedIsSettled'
  BY <1>1, StillSettled DEF LedgerInvariant
<1> QED BY <1>7, <1>8, <1>9, <1>10 DEF LedgerInvariant

(* The connection is lost, with the reports under way, and comes back.     *)
LEMMA ConnectionKeeps ==
  ASSUME LedgerInvariant, Drop \/ Reconnect
  PROVE  LedgerInvariant'
<1>1. /\ UNCHANGED <<ledger, exchangeVars, rec, history>>
      /\ news' = news \/ news' = <<>>
  BY DEF Drop, Reconnect
<1>2. NetTypes'
  <2>1. news \in Seq(Events) /\ due \in BOOLEAN /\ drops \in 0 .. MaxDrops
    BY DEF LedgerInvariant, Types, NetTypes
  <2>2. news' \in Seq(Events)
    <3>1. <<>> \in Seq(Events)
      OBVIOUS
    <3>2. news' = news \/ news' = <<>>
      BY <1>1
    <3> QED BY <2>1, <3>1, <3>2
  <2>3. drops' \in 0 .. MaxDrops
    BY <2>1, ReconcilerAssumption DEF Drop, Reconnect
  <2>4. connected' \in BOOLEAN /\ due' \in BOOLEAN
    BY <2>1 DEF Drop, Reconnect
  <2> QED BY <2>2, <2>3, <2>4 DEF NetTypes
<1>3. Types'
  BY <1>1, <1>2 DEF LedgerInvariant, Types, LedgerTypes, ExchangeTypes, HistoryTypes,
                    RecTypes, exchangeVars, history
<1>4. NewsIsTrue'
  <2>1. CASE news' = <<>>
    BY <2>1 DEF NewsIsTrue
  <2>2. CASE news' = news
    BY <1>1, <2>2 DEF LedgerInvariant, Fates, NewsIsTrue, exchangeVars
  <2> QED BY <1>1, <2>1, <2>2
<1>5. Fates'
  BY <1>1, <1>4 DEF LedgerInvariant, Fates, OnePerSymbol, NewIsBlank, SettledIsOver,
                    AnswerIsTrue, Waiting, Unfinished, history, exchangeVars
<1>6. Sums'
  BY <1>1, QuietSums DEF LedgerInvariant, history, exchangeVars
<1>7. ArbitratedIsSettled'
  BY <1>1, StillSettled DEF LedgerInvariant
<1> QED BY <1>3, <1>5, <1>6, <1>7 DEF LedgerInvariant

(* An execution: of an order in purgatory, or of one settled early.        *)
LEMMA ExecuteKeeps ==
  ASSUME LedgerInvariant, NEW o \in Orders, Execute(o)
  PROVE  LedgerInvariant'
<1>1. PICK qty \in 1 .. QtyOf[o] - exec[o] :
        /\ place[o] = "working"
        /\ exec' = [exec EXCEPT ![o] = @ + qty]
        /\ status' = [status EXCEPT ![o] = IF exec[o] + qty = QtyOf[o] THEN "Filled" ELSE "PartiallyFilled"]
        /\ place' = IF exec[o] + qty = QtyOf[o] THEN [place EXCEPT ![o] = "done"] ELSE place
        /\ Report(o, "fill", qty)
        /\ UNCHANGED <<ledger, connVars, rec, history>>
  BY DEF Execute
<1>2. /\ Types
      /\ place \in [Orders -> {"new", "wire", "working", "done", "lost"}]
      /\ status \in [Orders -> Statuses]
      /\ exec \in [Orders -> Nat] /\ \A q \in Orders : exec[q] <= QtyOf[q]
  BY DEF LedgerInvariant, Types, ExchangeTypes
<1>3. QtyOf[o] \in Nat /\ exec[o] \in Nat
  BY <1>2, LedgerAssumption
<1>4. qty \in Nat /\ exec[o] + qty \in Nat /\ exec[o] + qty <= QtyOf[o] /\ qty <= exec[o] + qty
  BY <1>3
<1>5. /\ exec' \in [Orders -> Nat] /\ exec'[o] = exec[o] + qty
      /\ \A q \in Orders : q # o => exec'[q] = exec[q]
  BY <1>1, <1>2, <1>4
<1>6. \A q \in Orders : exec'[q] <= QtyOf[q]
  BY <1>2, <1>4, <1>5
<1>7. \A q \in Orders : exec[q] <= exec'[q] /\ exec[q] \in Nat /\ exec'[q] \in Nat
  <2> SUFFICES ASSUME NEW q \in Orders
               PROVE  exec[q] <= exec'[q] /\ exec[q] \in Nat /\ exec'[q] \in Nat
    OBVIOUS
  <2>1. exec[q] \in Nat /\ exec'[q] \in Nat
    BY <1>2, <1>5
  <2>2. exec'[q] = exec[q] \/ exec'[q] = exec[q] + qty
    BY <1>5
  <2> QED BY <1>4, <2>1, <2>2
<1>8. /\ place' \in [Orders -> {"new", "wire", "working", "done", "lost"}]
      /\ status' \in [Orders -> Statuses]
  <2> DEFINE st == IF exec[o] + qty = QtyOf[o] THEN "Filled" ELSE "PartiallyFilled"
  <2>1. st \in Statuses
    BY DEF Statuses
  <2>2. status' = [status EXCEPT ![o] = st]
    BY <1>1
  <2> HIDE DEF st
  <2>3. status' \in [Orders -> Statuses]
    BY <1>2, <2>1, <2>2
  <2>4. place' = [place EXCEPT ![o] = "done"] \/ place' = place
    BY <1>1
  <2> QED BY <1>2, <2>3, <2>4
<1>9. /\ \A q \in Orders : place'[q] = "new" => place[q] = "new" /\ q # o
      /\ \A q \in Orders : Unfinished(q)' => Unfinished(q) /\ place[q] # "new"
  <2>1. place' = [place EXCEPT ![o] = "done"] \/ place' = place
    BY <1>1
  <2>2. place[o] = "working"
    BY <1>1
  <2> QED BY <1>2, <2>1, <2>2 DEF Unfinished
<1>10. /\ news' \in Seq(Events)
       /\ \A i \in DOMAIN news' :
            \/ i \in DOMAIN news /\ news'[i] = news[i]
            \/ news'[i] = [order |-> o, kind |-> "fill", qty |-> qty]
  BY <1>1, <1>2, <1>4, ReportOf
<1>11. Types'
  <2>1. ExchangeTypes'
    BY <1>5, <1>6, <1>8 DEF ExchangeTypes
  <2> QED BY <1>1, <1>2, <1>10, <2>1
       DEF Types, LedgerTypes, NetTypes, HistoryTypes, RecTypes, connVars, history
<1>12. ledger' = ledger /\ rec' = rec /\ early' = early /\ short' = short
  BY <1>1 DEF history
<1>13. Fates'
  <2>1. NewsIsTrue'
    <3> SUFFICES ASSUME NEW i \in DOMAIN news', news'[i].kind = "fill"
                 PROVE  news'[i].qty <= exec'[news'[i].order]
      BY DEF NewsIsTrue
    <3>1. CASE i \in DOMAIN news /\ news'[i] = news[i]
      <4>1. news[i] \in Events
        BY <1>2, <3>1, ElementOfSeq DEF Types, NetTypes
      <4>2. news[i].qty \in Nat /\ news[i].order \in Orders
        BY <4>1 DEF Events
      <4>3. news[i].qty <= exec[news[i].order]
        BY <3>1 DEF LedgerInvariant, Fates, NewsIsTrue
      <4> QED BY <1>7, <3>1, <4>2, <4>3
    <3>2. CASE news'[i] = [order |-> o, kind |-> "fill", qty |-> qty]
      <4>1. news'[i].qty = qty /\ news'[i].order = o
        BY <3>2
      <4> QED BY <1>4, <1>5, <4>1
    <3> QED BY <1>10, <3>1, <3>2
  <2>2. AnswerIsTrue'
    <3> SUFFICES ASSUME rec.phase = "query", Waiting
                 PROVE  /\ rec.asked \in Orders
                        /\ rec.answer # <<>> =>
                             /\ rec.answer[1] \in Statuses /\ rec.answer[2] \in Nat
                             /\ rec.answer[2] <= exec'[rec.asked]
      BY <1>12 DEF AnswerIsTrue, Waiting
    <3>1. /\ rec.asked \in Orders
          /\ rec.answer # <<>> =>
               /\ rec.answer[1] \in Statuses /\ rec.answer[2] \in Nat
               /\ rec.answer[2] <= exec[rec.asked]
      BY DEF LedgerInvariant, Fates, AnswerIsTrue
    <3>2. exec[rec.asked] <= exec'[rec.asked] /\ exec[rec.asked] \in Nat /\ exec'[rec.asked] \in Nat
      BY <1>7, <3>1
    <3> QED BY <3>1, <3>2
  <2>3. NewIsBlank'
    BY <1>5, <1>9, <1>12 DEF LedgerInvariant, Fates, NewIsBlank
  <2> QED BY <1>9, <1>12, <2>1, <2>2, <2>3
       DEF LedgerInvariant, Fates, OnePerSymbol, SettledIsOver
<1>14. \A s, side : /\ SettledSum(s, side) \in Nat /\ SettledSum(s, side)' \in Nat
                    /\ SettledSum(s, side) <= SettledSum(s, side)'
  <2> SUFFICES ASSUME NEW s, NEW side
               PROVE  /\ SettledSum(s, side) \in Nat /\ SettledSum(s, side)' \in Nat
                      /\ SettledSum(s, side) <= SettledSum(s, side)'
    OBVIOUS
  <2> DEFINE D == Side(s, side) \ ledger.purgatory
  <2>1. IsFiniteSet(D) /\ D \in SUBSET Orders
    BY SidesAreFinite
  <2>2. SettledSum(s, side) = SumOf(exec, D) /\ SettledSum(s, side)' = SumOf(exec', D)
    BY <1>12 DEF SettledSum, Side
  <2>3. \A x \in D : exec[x] \in Nat /\ exec'[x] \in Nat /\ exec[x] <= exec'[x]
    BY <1>7, <2>1
  <2> HIDE DEF D
  <2>4. SumOf(exec, D) <= SumOf(exec', D)
    BY <2>1, <2>3, SumGrows
  <2>5. SumOf(exec, D) \in Nat
    BY <2>1, <2>3, SumType
  <2>6. SumOf(exec', D) \in Nat
    BY <2>1, <2>3, SumType
  <2> QED BY <2>2, <2>4, <2>5, <2>6
(* The sums move only for a symbol that has an early order.                *)
<1>15. ASSUME NEW s, NEW side, Clean(s)
       PROVE  SettledSum(s, side)' = SettledSum(s, side)
  <2> DEFINE D == Side(s, side) \ ledger.purgatory
  <2>1. IsFiniteSet(D) /\ D \in SUBSET Orders
    BY SidesAreFinite
  <2>2. SettledSum(s, side) = SumOf(exec, D) /\ SettledSum(s, side)' = SumOf(exec', D)
    BY <1>12 DEF SettledSum, Side
  <2>3. o \notin D
    <3> SUFFICES ASSUME o \in D PROVE FALSE
      OBVIOUS
    <3>1. SymbolOf[o] = s /\ o \notin ledger.purgatory
      BY DEF Side
    <3>2. Unfinished(o) /\ place[o] # "new"
      BY <1>1 DEF Unfinished
    <3>3. o \in early
      BY <3>1, <3>2 DEF LedgerInvariant, Fates, SettledIsOver
    <3> QED BY <1>15, <3>1, <3>3 DEF Clean
  <2>4. \A x \in D : exec[x] \in Nat /\ exec'[x] = exec[x]
    BY <1>5, <1>7, <2>1, <2>3
  <2> HIDE DEF D
  <2>5. SumOf(exec, D) = SumOf(exec', D)
    BY <2>1, <2>4, SumSame
  <2> QED BY <2>2, <2>5
<1>16. Sums'
  <2>1. \A s \in Symbols : ledger.confirmed[s] \in Nat
    BY <1>2, LedgerFields DEF Types, LedgerTypes
  <2>2. ConfirmedBelow'
    <3> SUFFICES ASSUME NEW s \in Symbols \ short
                 PROVE  ledger.confirmed[s] <= SettledSum(s, "BUY")'
      BY <1>12 DEF ConfirmedBelow
    <3>1. ledger.confirmed[s] <= SettledSum(s, "BUY")
      BY DEF LedgerInvariant, Sums, ConfirmedBelow
    <3>2. /\ SettledSum(s, "BUY") \in Nat /\ SettledSum(s, "BUY")' \in Nat
          /\ SettledSum(s, "BUY") <= SettledSum(s, "BUY")'
      BY <1>14
    <3> QED BY <2>1, <3>1, <3>2
  <2>3. ConfirmedAbove'
    <3> SUFFICES ASSUME NEW s \in Symbols, Clean(s)
                 PROVE  SettledSum(s, "BUY")' - SettledSum(s, "SELL")' <= ledger.confirmed[s]
      BY <1>12 DEF ConfirmedAbove, Clean
    <3>1. SettledSum(s, "BUY") - SettledSum(s, "SELL") <= ledger.confirmed[s]
      BY DEF LedgerInvariant, Sums, ConfirmedAbove
    <3> QED BY <1>15, <3>1
  <2>4. PositionIsTrue'
    <3> SUFFICES ASSUME rec.phase = "arbitrate", Waiting PROVE PositionIsTrue'
      BY <1>12 DEF PositionIsTrue, Waiting
    <3>0. PICK s : s = rec.asked
      OBVIOUS
    <3> DEFINE size == rec.answer[1]
    <3>1. /\ s \in Symbols /\ size \in Nat
          /\ s \notin short => size <= SumOf(exec, Bought(s))
          /\ \A p \in rec.remaining \cap ledger.purgatory :
               SymbolOf[p] = s /\ SideOf[p] = "SELL" /\ Clean(s) =>
                 \/ size <= ledger.confirmed[s]
                 \/ SettledSum(s, "BUY") - SettledSum(s, "SELL") <= exec[p]
      BY <3>0 DEF LedgerInvariant, Sums, PositionIsTrue
    <3>2. s \notin short => size <= SumOf(exec', Bought(s))
      <4> DEFINE D == Bought(s)
      <4>1. IsFiniteSet(D) /\ D \in SUBSET Orders
        BY SidesAreFinite DEF Bought
      <4>2. \A x \in D : exec[x] \in Nat /\ exec'[x] \in Nat /\ exec[x] <= exec'[x]
        BY <1>7, <4>1
      <4> HIDE DEF D
      <4>3. SumOf(exec, D) <= SumOf(exec', D)
        BY <4>1, <4>2, SumGrows
      <4>4. SumOf(exec, D) \in Nat
        BY <4>1, <4>2, SumType
      <4>5. SumOf(exec', D) \in Nat
        BY <4>1, <4>2, SumType
      <4>6. s \notin short => size <= SumOf(exec, D)
        BY <3>1 DEF D
      <4>7. s \notin short => size <= SumOf(exec', D)
        BY <3>1, <4>3, <4>4, <4>5, <4>6
      <4> QED BY <4>7 DEF D
    <3>3. ASSUME NEW p \in rec.remaining \cap ledger.purgatory,
                 SymbolOf[p] = s, SideOf[p] = "SELL", Clean(s)
          PROVE  \/ size <= ledger.confirmed[s]
                 \/ SettledSum(s, "BUY")' - SettledSum(s, "SELL")' <= exec'[p]
      <4>1. \/ size <= ledger.confirmed[s]
            \/ SettledSum(s, "BUY") - SettledSum(s, "SELL") <= exec[p]
        BY <3>1, <3>3
      <4>2. p \in Orders
        BY <1>2, LedgerFields DEF Types, LedgerTypes
      <4>3. exec[p] <= exec'[p] /\ exec[p] \in Nat /\ exec'[p] \in Nat
        BY <1>7, <4>2
      <4>4. /\ SettledSum(s, "BUY")' = SettledSum(s, "BUY")
            /\ SettledSum(s, "SELL")' = SettledSum(s, "SELL")
        BY <1>15, <3>3
      <4>5. SettledSum(s, "BUY") \in Nat /\ SettledSum(s, "SELL") \in Nat
        BY <1>14
      <4> HIDE DEF size
      <4> QED BY <4>1, <4>3, <4>4, <4>5
    <3>4. ASSUME NEW p \in rec.remaining \cap ledger.purgatory,
                 SymbolOf[p] = s, SideOf[p] = "SELL", Clean(s)'
          PROVE  \/ size <= ledger.confirmed[s]
                 \/ SettledSum(s, "BUY")' - SettledSum(s, "SELL")' <= exec'[p]
      <4>1. Clean(s)
        BY <1>12, <3>4 DEF Clean
      <4> QED BY <3>3, <3>4, <4>1
    <3> QED BY <1>12, <3>0, <3>1, <3>2, <3>4 DEF PositionIsTrue, Bought, Side
  <2> QED BY <2>2, <2>3, <2>4 DEF Sums
<1>17. ArbitratedIsSettled'
  BY <1>12, StillSettled DEF LedgerInvariant
<1> QED BY <1>11, <1>13, <1>16, <1>17 DEF LedgerInvariant

-----------------------------------------------------------------------------
(* The strike.                                                             *)

(* An order that was never sent executed nothing: the sums stay.           *)
LEMMA DispatchKeeps ==
  ASSUME LedgerInvariant, NEW o \in Orders, Dispatch(o)
  PROVE  LedgerInvariant'
<1>1. /\ place[o] = "new" /\ StrikeAllowed(ledger, SymbolOf[o])
      /\ ledger' = Dispatched(ledger, o) /\ place' = [place EXCEPT ![o] = "wire"]
      /\ UNCHANGED <<exec, status, news, connVars, rec, history>>
  BY DEF Dispatch
<1>2. /\ Types /\ ledger \in LedgerType
      /\ place \in [Orders -> {"new", "wire", "working", "done", "lost"}]
  BY DEF LedgerInvariant, Types, LedgerTypes, ExchangeTypes
<1>3. /\ ledger' \in LedgerType /\ ledger'.confirmed = ledger.confirmed
      /\ ledger'.purgatory = ledger.purgatory \cup {o}
  BY <1>1, <1>2 DEF Dispatched, LedgerType
<1>4. ledger.purgatory \in SUBSET Orders
  BY <1>2, LedgerFields
<1>5. exec[o] = 0 /\ o \notin ledger.purgatory /\ o \notin rec.remaining
  BY <1>1 DEF LedgerInvariant, Fates, NewIsBlank
<1>6. \A p \in ledger.purgatory : SymbolOf[p] # SymbolOf[o]
  BY <1>1 DEF StrikeAllowed, InPurgatory
<1>7. /\ exec' = exec /\ rec' = rec /\ early' = early /\ short' = short /\ news' = news
      /\ status' = status /\ connVars' = connVars
  BY <1>1 DEF history
<1>8. /\ place' \in [Orders -> {"new", "wire", "working", "done", "lost"}]
      /\ place'[o] = "wire" /\ \A q \in Orders : q # o => place'[q] = place[q]
  BY <1>1, <1>2
<1>9. Types'
  <2>1. ExchangeTypes'
    BY <1>7, <1>8 DEF LedgerInvariant, Types, ExchangeTypes
  <2>2. NetTypes' /\ HistoryTypes' /\ RecTypes'
    BY <1>7 DEF LedgerInvariant, Types, NetTypes, HistoryTypes, RecTypes, connVars
  <2> QED BY <1>3, <2>1, <2>2 DEF Types, LedgerTypes
<1>10. Fates'
  <2>1. OnePerSymbol'
    BY <1>3, <1>6 DEF LedgerInvariant, Fates, OnePerSymbol
  <2>2. NewIsBlank'
    BY <1>3, <1>7, <1>8 DEF LedgerInvariant, Fates, NewIsBlank
  <2>3. SettledIsOver'
    BY <1>3, <1>7, <1>8 DEF LedgerInvariant, Fates, SettledIsOver, Unfinished
  <2>4. NewsIsTrue' /\ AnswerIsTrue'
    BY <1>7 DEF LedgerInvariant, Fates, NewsIsTrue, AnswerIsTrue, Waiting
  <2> QED BY <2>1, <2>2, <2>3, <2>4 DEF Fates
<1>11. ASSUME NEW s, NEW side
       PROVE  SettledSum(s, side)' = SettledSum(s, side)
  <2> DEFINE D == Side(s, side) \ ledger.purgatory
             E == Side(s, side) \ ledger'.purgatory
  <2>1. SettledSum(s, side) = SumOf(exec, D) /\ SettledSum(s, side)' = SumOf(exec, E)
    BY <1>7 DEF SettledSum, Side
  <2>2. D \in SUBSET Orders
    BY SidesAreFinite
  <2>3. E = D \ {o}
    BY <1>3
  <2> HIDE DEF D, E
  <2>4. CASE o \in D
    <3>1. SumOf(exec, D) = exec[o] + SumOf(exec, D \ {o}) /\ SumOf(exec, D \ {o}) \in Nat
      BY <1>2, <2>2, <2>4, SumWith
    <3> QED BY <1>5, <2>1, <2>3, <3>1
  <2>5. CASE o \notin D
    <3>1. E = D
      BY <2>3, <2>5
    <3> QED BY <2>1, <3>1
  <2> QED BY <2>4, <2>5
<1>12. Sums'
  <2>1. ConfirmedBelow'
    <3> SUFFICES ASSUME NEW s \in Symbols \ short
                 PROVE  ledger'.confirmed[s] <= SettledSum(s, "BUY")'
      BY <1>7 DEF ConfirmedBelow
    <3> QED BY <1>3, <1>11 DEF LedgerInvariant, Sums, ConfirmedBelow
  <2>2. ConfirmedAbove'
    <3> SUFFICES ASSUME NEW s \in Symbols, Clean(s)
                 PROVE  SettledSum(s, "BUY")' - SettledSum(s, "SELL")' <= ledger'.confirmed[s]
      BY <1>7 DEF ConfirmedAbove, Clean
    <3>1. SettledSum(s, "BUY") - SettledSum(s, "SELL") <= ledger.confirmed[s]
      BY DEF LedgerInvariant, Sums, ConfirmedAbove
    <3> QED BY <1>3, <1>11, <3>1
  <2>3. PositionIsTrue'
    <3> SUFFICES ASSUME rec.phase = "arbitrate", Waiting PROVE PositionIsTrue'
      BY <1>7 DEF PositionIsTrue, Waiting
    <3>0. PICK s : s = rec.asked
      OBVIOUS
    <3> DEFINE size == rec.answer[1]
    <3>1. /\ s \in Symbols /\ size \in Nat
          /\ s \notin short => size <= SumOf(exec, Bought(s))
          /\ \A p \in rec.remaining \cap ledger.purgatory :
               SymbolOf[p] = s /\ SideOf[p] = "SELL" /\ Clean(s) =>
                 \/ size <= ledger.confirmed[s]
                 \/ SettledSum(s, "BUY") - SettledSum(s, "SELL") <= exec[p]
      BY <3>0 DEF LedgerInvariant, Sums, PositionIsTrue
    <3>2. ASSUME NEW p \in rec.remaining \cap ledger'.purgatory,
                 SymbolOf[p] = s, SideOf[p] = "SELL", Clean(s)'
          PROVE  \/ size <= ledger'.confirmed[s]
                 \/ SettledSum(s, "BUY")' - SettledSum(s, "SELL")' <= exec[p]
      <4>1. p \in ledger.purgatory
        BY <1>3, <1>5, <3>2
      <4>2. Clean(s)
        BY <1>7, <3>2 DEF Clean
      <4>3. \/ size <= ledger.confirmed[s]
            \/ SettledSum(s, "BUY") - SettledSum(s, "SELL") <= exec[p]
        BY <3>1, <3>2, <4>1, <4>2
      <4> QED BY <1>3, <1>11, <4>3
    <3> QED BY <1>7, <3>0, <3>1, <3>2 DEF PositionIsTrue, Bought, Side
  <2> QED BY <2>1, <2>2, <2>3 DEF Sums
<1>13. ArbitratedIsSettled'
  BY <1>3, <1>5, <1>7, StillSettled DEF LedgerInvariant
<1> QED BY <1>9, <1>10, <1>12, <1>13 DEF LedgerInvariant

-----------------------------------------------------------------------------
(* An order is settled, or none.                                           *)

(* The types, after an order is settled or none.                           *)
LEMMA SettledTypes ==
  ASSUME Types, Kept \/ TookOne, UNCHANGED <<exchangeVars, connVars, short>>,
         news' \in Seq(Events), RecTypes'
  PROVE  /\ Types'
         /\ ledger'.purgatory \subseteq ledger.purgatory
         /\ early \subseteq early'
<1>1. ledger \in LedgerType /\ early \in SUBSET Orders
  BY DEF Types, LedgerTypes, HistoryTypes
<1>2. /\ ledger' \in LedgerType /\ early' \in SUBSET Orders
      /\ ledger'.purgatory \subseteq ledger.purgatory /\ early \subseteq early'
  <2>1. CASE Kept
    BY <1>1, <2>1 DEF Kept
  <2>2. CASE TookOne
    <3>1. PICK o \in Orders : \E q \in Nat : Took(o, q) /\ Fair(o, q)
      BY <2>2 DEF TookOne
    <3>2. PICK q \in Nat : Took(o, q) /\ Fair(o, q)
      BY <3>1
    <3>3. /\ ledger' \in LedgerType /\ ledger'.purgatory = ledger.purgatory \ {o}
          /\ early' \subseteq early \cup {o} /\ early \subseteq early'
      BY <3>2 DEF Took
    <3> QED BY <1>1, <3>3
  <2> QED BY <2>1, <2>2
<1>3. ExchangeTypes' /\ NetTypes' /\ HistoryTypes'
  BY <1>2 DEF Types, ExchangeTypes, NetTypes, HistoryTypes, exchangeVars, connVars
<1> QED BY <1>2, <1>3 DEF Types, LedgerTypes

(* An order settled while it can execute still is one settled early.       *)
LEMMA SettledFates ==
  ASSUME Types, Fates, Kept \/ TookOne, UNCHANGED <<exchangeVars, connVars, short>>,
         news' \in Seq(Events), RecTypes',
         \A i \in DOMAIN news' : \E j \in DOMAIN news : news'[i] = news[j],
         rec'.remaining \subseteq rec.remaining \cup ledger.purgatory,
         AnswerIsTrue'
  PROVE  Fates'
<1>1. ledger'.purgatory \subseteq ledger.purgatory /\ early \subseteq early'
  BY SettledTypes
<1>2. place' = place /\ exec' = exec
  BY DEF exchangeVars
<1>3. OnePerSymbol'
  BY <1>1 DEF Fates, OnePerSymbol
<1>4. NewIsBlank'
  BY <1>1, <1>2 DEF Fates, NewIsBlank
<1>5. NewsIsTrue'
  BY <1>2 DEF Fates, NewsIsTrue
<1>6. SettledIsOver'
  <2> SUFFICES ASSUME NEW o \in Orders, place[o] # "new", o \notin ledger'.purgatory,
                      o \notin early'
               PROVE  ~Unfinished(o)
    BY <1>2 DEF SettledIsOver, Unfinished
  <2>1. CASE o \notin ledger.purgatory
    BY <1>1, <2>1 DEF Fates, SettledIsOver
  <2>2. CASE o \in ledger.purgatory
    <3>1. TookOne
      BY <2>2 DEF Kept
    <3>2. PICK p \in Orders : \E q \in Nat : Took(p, q) /\ Fair(p, q)
      BY <3>1 DEF TookOne
    <3>3. PICK q \in Nat : Took(p, q)
      BY <3>2
    <3>4. p = o
      BY <2>2, <3>3 DEF Took
    <3>5. Unfinished(p) => p \in early'
      BY <3>3 DEF Took
    <3> QED BY <3>4, <3>5
  <2> QED BY <2>1, <2>2
<1> QED BY <1>3, <1>4, <1>5, <1>6 DEF Fates

(* The sums, when the position under arbitration is the same or used.      *)
LEMMA SettledSums ==
  ASSUME Types, Types', Fates, Sums, Kept \/ TookOne, UNCHANGED <<exchangeVars, connVars, short>>,
         rec' = rec \/ ~Waiting'
  PROVE  Sums'
<1>1. exec' = exec /\ short' = short
  BY DEF exchangeVars
<1>2. ASSUME ~Waiting' PROVE PositionIsTrue'
  BY <1>2 DEF PositionIsTrue
<1>3. CASE Kept
  <2>1. ledger' = ledger /\ early' = early
    BY <1>3 DEF Kept
  <2>2. ConfirmedBelow' /\ ConfirmedAbove'
    BY <1>1, <2>1 DEF Sums, ConfirmedBelow, ConfirmedAbove, SettledSum, Clean, Side
  <2>3. CASE rec' = rec
    BY <1>1, <2>1, <2>3, QuietSums
  <2> QED BY <1>2, <2>2, <2>3 DEF Sums
<1>4. CASE TookOne
  <2>1. PICK o \in Orders : \E q \in Nat : Took(o, q) /\ Fair(o, q)
    BY <1>4 DEF TookOne
  <2>2. PICK q \in Nat : Took(o, q) /\ Fair(o, q)
    BY <2>1
  <2>3. ConfirmedBelow'
    BY <1>1, <2>2, TookBelow DEF Sums
  <2>4. ConfirmedAbove'
    BY <1>1, <2>2, TookAbove DEF Sums
  <2>5. CASE rec' = rec
    <3>1. OnePerSymbol /\ PositionIsTrue
      BY DEF Sums, Fates
    <3>2. PositionIsTrue'
      BY <1>1, <2>2, <2>5, <3>1, TookPosition
    <3> QED BY <2>3, <2>4, <3>2 DEF Sums
  <2> QED BY <1>2, <2>3, <2>4, <2>5 DEF Sums
<1> QED BY <1>3, <1>4

(* The WebSocket's next event.                                             *)
LEMMA HearKeeps ==
  ASSUME LedgerInvariant, Hear
  PROVE  LedgerInvariant'
<1>1. Types /\ Fates /\ Sums /\ ArbitratedIsSettled /\ ConfirmedBelow
  BY DEF LedgerInvariant, Sums
<1>2. UNCHANGED <<exchangeVars, connVars, short>> /\ rec' = rec
  BY DEF Hear
<1>3. Kept \/ TookOne
  BY <1>1, HearSettles
<1>4. news \in Seq(Events) /\ news # <<>> /\ news' = Tail(news)
  BY <1>1 DEF Hear, Types, NetTypes
<1>5. /\ news' \in Seq(Events)
      /\ \A i \in DOMAIN news' : \E j \in DOMAIN news : news'[i] = news[j]
  <2>1. Tail(news) \in Seq(Events) /\ Len(Tail(news)) = Len(news) - 1
    BY <1>4, HeadTailProperties
  <2>2. \A i \in 1 .. Len(Tail(news)) : Tail(news)[i] = news[i + 1]
    BY <1>4, HeadTailProperties
  <2>3. \A i \in 1 .. Len(Tail(news)) : i + 1 \in 1 .. Len(news)
    BY <1>4, <2>1
  <2>4. DOMAIN news = 1 .. Len(news) /\ DOMAIN Tail(news) = 1 .. Len(Tail(news))
    BY <1>4, <2>1
  <2> QED BY <1>4, <2>1, <2>2, <2>3, <2>4
<1>6. RecTypes'
  BY <1>1, <1>2 DEF Types, RecTypes
<1>7. AnswerIsTrue'
  BY <1>1, <1>2 DEF Fates, AnswerIsTrue, Waiting, exchangeVars
<1>8. Types' /\ ledger'.purgatory \subseteq ledger.purgatory
  BY <1>1, <1>2, <1>3, <1>5, <1>6, SettledTypes
<1>9. Fates'
  BY <1>1, <1>2, <1>3, <1>5, <1>6, <1>7, SettledFates
<1>10. Sums'
  BY <1>1, <1>2, <1>3, <1>8, SettledSums
<1>11. ArbitratedIsSettled'
  BY <1>1, <1>2, <1>8, StillSettled
<1> QED BY <1>8, <1>9, <1>10, <1>11 DEF LedgerInvariant

(* The answer to an order query settles it; so does arbitration.           *)
LEMMA AnswerKeeps ==
  ASSUME LedgerInvariant, Answer
  PROVE  LedgerInvariant'
<1>1. Types /\ Fates /\ Sums /\ ArbitratedIsSettled /\ ConfirmedBelow
  BY DEF LedgerInvariant, Sums
<1>2. UNCHANGED <<exchangeVars, connVars, short>> /\ news' = news
  BY DEF Answer
<1>3. Kept \/ TookOne
  BY <1>1, AnswerSettles
<1>4. news \in Seq(Events)
  BY <1>1 DEF Types, NetTypes
<1>5. rec \in Reconciliations /\ rec.phase = "query"
  BY <1>1 DEF Types, RecTypes, Answer
<1> DEFINE f == Forget(rec)
           r == [f EXCEPT !.todo = f.todo \ {rec.asked}, !.tries = 0]
<1>6. f \in Reconciliations /\ f.asked = "none" /\ f.phase = "query" /\ f.remaining = rec.remaining
  BY <1>5, Forgotten
<1>7. r \in Reconciliations /\ r.asked = "none" /\ r.phase = "query" /\ r.remaining = rec.remaining
  <2> HIDE DEF f, Answers
  <2>1. f.todo \ {rec.asked} \in SUBSET Orders
    BY <1>6, RecFields
  <2>2. /\ r \in Reconciliations /\ r.asked = f.asked /\ r.phase = f.phase
        /\ r.remaining = f.remaining
    BY <1>6, <2>1, NoRetry DEF Reconciliations
  <2> QED BY <1>6, <2>2
<1>8. rec' = NextQuery(r, ledger')
  <2> DEFINE o == rec.asked
             l == IF rec.answer = <<>> THEN Removed(ledger, o)
                  ELSE Reconciled(ledger, o, rec.answer[1], rec.answer[2])
  <2>1. rec' = NextQuery([f EXCEPT !.todo = @ \ {o}, !.tries = 0], l) /\ ledger' = l
    BY DEF Answer, Settle
  <2>2. [f EXCEPT !.todo = @ \ {o}, !.tries = 0] = r
    <3> HIDE DEF f, Answers
    <3> QED BY <1>6 DEF Reconciliations
  <2> QED BY <2>1, <2>2
<1> HIDE DEF f, r
<1>9. /\ ledger' \in LedgerType /\ ledger'.purgatory \subseteq ledger.purgatory
  <2>1. CASE Kept
    BY <1>1, <2>1 DEF Kept, Types, LedgerTypes
  <2>2. CASE TookOne
    BY <2>2 DEF TookOne, Took
  <2> QED BY <1>3, <2>1, <2>2
<1>10. /\ rec' \in Reconciliations /\ rec'.asked = "none"
       /\ rec'.remaining \subseteq rec.remaining \cup ledger'.purgatory
       /\ rec'.phase = "query" \/ \A o \in ledger'.purgatory : SymbolOf[o] \in rec'.symbols
  <2> DEFINE l == ledger'
  <2>1. l \in LedgerType
    BY <1>9
  <2> HIDE DEF l
  <2>2. LET n == NextQuery(r, l)
        IN /\ n \in Reconciliations /\ n.asked = r.asked
           /\ n.remaining \subseteq r.remaining \cup l.purgatory
           /\ \/ n.phase = r.phase
              \/ \A o \in l.purgatory : SymbolOf[o] \in n.symbols
    BY <1>7, <2>1, NextQueryOf
  <2> QED BY <1>7, <1>8, <2>2 DEF l
<1>11. RecTypes' /\ AnswerIsTrue' /\ ~Waiting'
  BY <1>10 DEF RecTypes, AnswerIsTrue, Waiting
<1>12. news' \in Seq(Events)
  BY <1>2, <1>4
<1>13. Types'
  BY <1>1, <1>2, <1>3, <1>11, <1>12, SettledTypes
<1>14. Fates'
  <2>1. \A i \in DOMAIN news' : \E j \in DOMAIN news : news'[i] = news[j]
    BY <1>2
  <2>2. rec'.remaining \subseteq rec.remaining \cup ledger.purgatory
    BY <1>9, <1>10
  <2> QED BY <1>1, <1>2, <1>3, <1>11, <1>12, <2>1, <2>2, SettledFates
<1>15. Sums'
  BY <1>1, <1>2, <1>3, <1>11, <1>13, SettledSums
<1>16. ArbitratedIsSettled'
  BY <1>10 DEF ArbitratedIsSettled
<1> QED BY <1>13, <1>14, <1>15, <1>16 DEF LedgerInvariant

(* Of the orders under arbitration, those of the symbol leave purgatory.   *)
LEMMA ArbitrateClears ==
  ASSUME Types, OnePerSymbol, Arbitrate
  PROVE  \A o \in rec.remaining \cap ledger'.purgatory :
           o \in ledger.purgatory => SymbolOf[o] # rec.asked
<1> DEFINE s == rec.asked
           size == rec.answer[1]
           subjects == Subjects(s, size)
           credits == [p \in Orders |-> IF p \in subjects THEN Attributed(p, size) ELSE 0]
           l == FoldSet(LAMBDA p, m : Credited(m, p, credits[p]), ledger, subjects)
<1> SUFFICES ASSUME NEW o \in rec.remaining, o \in ledger.purgatory, SymbolOf[o] = s
             PROVE  o \notin ledger'.purgatory
  OBVIOUS
<1>1. ledger' = l
  BY DEF Arbitrate, Settle
<1>2. o \in subjects /\ \A p \in subjects : p = o
  BY DEF Subjects, OnePerSymbol
<1>3. ledger \in LedgerType /\ o \in Orders
  BY LedgerFields DEF Types, LedgerTypes
<1>4. l = Credited(ledger, o, credits[o])
  <2>1. subjects = {o}
    BY <1>2
  <2> HIDE DEF credits, subjects
  <2>2. FoldSet(LAMBDA p, m : Credited(m, p, credits[p]), ledger, {o}) =
          Credited(ledger, o, credits[o])
    BY FoldOne
  <2> QED BY <2>1, <2>2
<1>5. credits[o] = Attributed(o, size)
  <2> HIDE DEF subjects
  <2> QED BY <1>2, <1>3
<1> HIDE DEF credits, l, subjects
<1> DEFINE q == credits[o]
<1>6. l = Removed(ledger, o) \/ l = Merged(Removed(ledger, o), o, q)
  BY <1>4 DEF Credited, Filled
<1>7. Removed(ledger, o).purgatory = ledger.purgatory \ {o}
  BY <1>3, RemovedLedger
<1>8. Merged(Removed(ledger, o), o, q).purgatory = ledger.purgatory \ {o}
  BY <1>3, <1>7, RemovedLedger DEF Merged, LedgerType
<1> QED BY <1>1, <1>6, <1>7, <1>8

(* Arbitration of one symbol.                                              *)
LEMMA ArbitrateKeeps ==
  ASSUME LedgerInvariant, Arbitrate
  PROVE  LedgerInvariant'
<1>1. Types /\ Fates /\ Sums /\ ArbitratedIsSettled /\ ConfirmedBelow /\ PositionIsTrue /\ OnePerSymbol
  BY DEF LedgerInvariant, Sums, Fates
<1>2. UNCHANGED <<exchangeVars, connVars, short>> /\ news' = news
  BY DEF Arbitrate
<1>3. Kept \/ TookOne
  BY <1>1, ArbitrateSettles
<1>4. news' \in Seq(Events)
  BY <1>1, <1>2 DEF Types, NetTypes
<1>5. rec \in Reconciliations /\ rec.phase = "arbitrate"
  BY <1>1 DEF Types, RecTypes, Arbitrate
<1>6. rec' = Arbitrated(rec, rec.asked)
  BY DEF Arbitrate
<1>7. /\ rec' \in Reconciliations /\ rec'.asked = "none" /\ rec'.remaining = rec.remaining
      /\ rec'.symbols = rec.symbols \ {rec.asked} /\ rec'.failed = rec.failed
      /\ rec'.phase # "query"
  BY <1>5, <1>6, ArbitratedOf
<1>8. RecTypes' /\ AnswerIsTrue' /\ ~Waiting'
  BY <1>7 DEF RecTypes, AnswerIsTrue, Waiting
<1>9. Types' /\ ledger'.purgatory \subseteq ledger.purgatory
  BY <1>1, <1>2, <1>3, <1>4, <1>8, SettledTypes
<1>10. Fates'
  <2>1. \A i \in DOMAIN news' : \E j \in DOMAIN news : news'[i] = news[j]
    BY <1>2
  <2> QED BY <1>1, <1>2, <1>3, <1>4, <1>7, <1>8, <2>1, SettledFates
<1>11. Sums'
  BY <1>1, <1>2, <1>3, <1>8, <1>9, SettledSums
<1>12. ArbitratedIsSettled'
  <2>1. \A o \in rec.remaining \cap ledger.purgatory : SymbolOf[o] \in rec.symbols \cup rec.failed
    BY <1>1, <1>5 DEF ArbitratedIsSettled
  <2>2. \A o \in rec.remaining \cap ledger'.purgatory : SymbolOf[o] # rec.asked
    BY <1>1, <1>9, ArbitrateClears
  <2> QED BY <1>7, <1>9, <2>1, <2>2 DEF ArbitratedIsSettled
<1> QED BY <1>9, <1>10, <1>11, <1>12 DEF LedgerInvariant

-----------------------------------------------------------------------------
(* The reconciler's other steps: the ledger stays as it is.                *)

(* What must be shown of a step that leaves the ledger as it is.           *)
LEMMA LedgerUntouched ==
  ASSUME LedgerInvariant, UNCHANGED <<ledger, exchangeVars, news, early>>,
         NetTypes', RecTypes', short' \in SUBSET Symbols, short \subseteq short',
         rec'.remaining \subseteq rec.remaining \cup ledger.purgatory,
         AnswerIsTrue', PositionIsTrue', ArbitratedIsSettled'
  PROVE  LedgerInvariant'
<1>1. ledger' = ledger /\ place' = place /\ exec' = exec /\ status' = status /\ news' = news
      /\ early' = early
  BY DEF exchangeVars
<1>2. Types'
  BY <1>1 DEF LedgerInvariant, Types, LedgerTypes, ExchangeTypes, HistoryTypes
<1>3. Fates'
  <2>1. OnePerSymbol' /\ NewsIsTrue'
    BY <1>1 DEF LedgerInvariant, Fates, OnePerSymbol, NewsIsTrue
  <2>2. NewIsBlank'
    BY <1>1 DEF LedgerInvariant, Fates, NewIsBlank
  <2>3. SettledIsOver'
    BY <1>1 DEF LedgerInvariant, Fates, SettledIsOver, Unfinished
  <2> QED BY <2>1, <2>2, <2>3 DEF Fates
<1>4. ConfirmedBelow' /\ ConfirmedAbove'
  BY <1>1 DEF LedgerInvariant, Sums, ConfirmedBelow, ConfirmedAbove, SettledSum, Clean, Side
<1> QED BY <1>2, <1>3, <1>4 DEF LedgerInvariant, Sums

(* A reconciliation starts.                                                *)
LEMMA StartKeeps ==
  ASSUME LedgerInvariant, Start
  PROVE  LedgerInvariant'
<1>1. UNCHANGED <<ledger, exchangeVars, news, early>> /\ short' = short
  BY DEF Start, history
<1>2. NetTypes'
  BY DEF Start, LedgerInvariant, Types, NetTypes
<1>3. ledger.purgatory \in SUBSET Orders
  BY LedgerFields DEF LedgerInvariant, Types, LedgerTypes
<1>4. rec' \in Reconciliations /\ rec'.asked = "none" /\ rec'.remaining = {}
      /\ rec'.phase \in {"idle", "query"}
  <2> DEFINE r == [Idle EXCEPT !.phase = "query", !.todo = ledger.purgatory]
  <2>1. /\ r \in Reconciliations /\ r.asked = "none" /\ r.remaining = {} /\ r.phase = "query"
    <3> HIDE DEF Answers
    <3> QED BY <1>3, NoRetry, NoAnswer DEF Idle, Reconciliations
  <2>2. Idle.asked = "none" /\ Idle.remaining = {} /\ Idle.phase = "idle"
    BY DEF Idle
  <2>3. rec' = Idle \/ rec' = r
    BY DEF Start
  <2> HIDE DEF r, Idle
  <2> QED BY <2>1, <2>2, <2>3, IdleType
<1>5. RecTypes' /\ AnswerIsTrue' /\ PositionIsTrue' /\ ArbitratedIsSettled'
  BY <1>4 DEF RecTypes, AnswerIsTrue, PositionIsTrue, ArbitratedIsSettled, Waiting
<1>6. short' \in SUBSET Symbols
  BY <1>1 DEF LedgerInvariant, Types, HistoryTypes
<1> QED BY <1>1, <1>2, <1>4, <1>5, <1>6, LedgerUntouched

(* The exchange answers an order query with what was executed so far.      *)
LEMMA ServeOrderKeeps ==
  ASSUME LedgerInvariant, NEW o \in Orders, ServeOrder(o)
  PROVE  LedgerInvariant'
<1>1. UNCHANGED <<ledger, exchangeVars, news, connVars, early>> /\ short' = short
  BY DEF ServeOrder, history
<1>2. rec \in Reconciliations /\ rec.phase = "query"
  BY DEF LedgerInvariant, Types, RecTypes, ServeOrder
<1>3. status[o] \in Statuses /\ exec[o] \in Nat
  BY DEF LedgerInvariant, Types, ExchangeTypes
<1> DEFINE answer == IF place[o] \in {"working", "done"} THEN <<status[o], exec[o]>> ELSE <<>>
<1>4. /\ answer \in Answers
      /\ answer # <<>> => answer[1] \in Statuses /\ answer[2] \in Nat /\ answer[2] <= exec[o]
  BY <1>3 DEF Answers
<1>5. rec' = [rec EXCEPT !.asked = o, !.answer = answer]
  BY DEF ServeOrder
<1> HIDE DEF answer
<1>6. /\ rec' \in Reconciliations /\ rec'.asked = o /\ rec'.answer = answer
      /\ rec'.remaining = rec.remaining /\ rec'.phase = "query"
  <2> HIDE DEF Answers
  <2> QED BY <1>2, <1>4, <1>5 DEF Reconciliations
<1>7. RecTypes' /\ PositionIsTrue' /\ ArbitratedIsSettled'
  BY <1>6 DEF RecTypes, PositionIsTrue, ArbitratedIsSettled
<1>8. AnswerIsTrue'
  BY <1>1, <1>4, <1>6 DEF AnswerIsTrue, exchangeVars
<1>9. NetTypes' /\ short' \in SUBSET Symbols
  BY <1>1 DEF LedgerInvariant, Types, NetTypes, HistoryTypes, connVars
<1> QED BY <1>1, <1>6, <1>7, <1>8, <1>9, LedgerUntouched

(* A query fails, and is given up or tried again.                          *)
LEMMA QueryFailsKeeps ==
  ASSUME LedgerInvariant, QueryFails
  PROVE  LedgerInvariant'
<1>1. UNCHANGED <<ledger, exchangeVars, news, connVars, early>> /\ short' = short
  BY DEF QueryFails, history
<1>2. rec \in Reconciliations /\ rec.phase = "query" /\ ledger \in LedgerType
  BY DEF LedgerInvariant, Types, RecTypes, LedgerTypes, QueryFails
<1> DEFINE t == Tried(rec, rec.asked)
<1>3. /\ t \in Reconciliations /\ t.asked = "none" /\ t.phase = "query" /\ t.remaining = rec.remaining
  BY <1>2, TriedOf
<1>4. rec' = NextQuery(t, ledger)
  BY DEF QueryFails
<1> HIDE DEF t
<1>5. /\ rec' \in Reconciliations /\ rec'.asked = "none"
      /\ rec'.remaining \subseteq rec.remaining \cup ledger.purgatory
      /\ rec'.phase = "query" \/ \A o \in ledger.purgatory : SymbolOf[o] \in rec'.symbols
  BY <1>2, <1>3, <1>4, NextQueryOf
<1>6. RecTypes' /\ AnswerIsTrue' /\ PositionIsTrue' /\ ArbitratedIsSettled'
  BY <1>1, <1>5 DEF RecTypes, AnswerIsTrue, PositionIsTrue, ArbitratedIsSettled, Waiting
<1>7. NetTypes' /\ short' \in SUBSET Symbols
  BY <1>1 DEF LedgerInvariant, Types, NetTypes, HistoryTypes, connVars
<1> QED BY <1>1, <1>5, <1>6, <1>7, LedgerUntouched

(* The position, from the orders that are settled and those that are not.  *)
LEMMA NetIsSums ==
  ASSUME NEW s
  PROVE  NetPosition(s) = SumOf(exec, Side(s, "BUY")) - SumOf(exec, Side(s, "SELL"))
BY DEF NetPosition, SumOf, Side

(* One side of a symbol: the settled orders and those in purgatory.        *)
LEMMA SidesAdd ==
  ASSUME Types, NEW s, NEW side
  PROVE  LET open == Side(s, side) \cap ledger.purgatory
         IN /\ SumOf(exec, Side(s, side)) = SettledSum(s, side) + SumOf(exec, open)
            /\ SettledSum(s, side) \in Nat /\ SumOf(exec, open) \in Nat
            /\ SumOf(exec, Side(s, side)) \in Nat
<1> DEFINE D == Side(s, side)
           P == ledger.purgatory
<1>1. D \in SUBSET Orders /\ IsFiniteSet(D) /\ IsFiniteSet(D \ P) /\ IsFiniteSet(D \cap P)
  BY SidesAreFinite
<1>2. \A x \in D : exec[x] \in Nat
  BY <1>1 DEF Types, ExchangeTypes
<1>3. SettledSum(s, side) = SumOf(exec, D \ P)
  BY DEF SettledSum
<1> HIDE DEF D, P
<1>4. SumOf(exec, D) = SumOf(exec, D \ P) + SumOf(exec, D \cap P)
  BY <1>1, <1>2, SumOfParts
<1>5. SumOf(exec, D \ P) \in Nat
  BY <1>1, <1>2, SumType
<1>6. SumOf(exec, D \cap P) \in Nat
  BY <1>1, <1>2, SumType
<1>7. SumOf(exec, D) \in Nat
  BY <1>4, <1>5, <1>6
<1> QED BY <1>3, <1>4, <1>5, <1>6, <1>7 DEF D, P

(* The exchange answers a position query.  A sold order in purgatory is    *)
(* the only one of its symbol, so the rest of the position is settled.     *)
LEMMA ServePositionKeeps ==
  ASSUME LedgerInvariant, NEW s \in Symbols, ServePosition(s)
  PROVE  LedgerInvariant'
<1>1. UNCHANGED <<ledger, exchangeVars, news, connVars, early>>
  BY DEF ServePosition
<1>2. /\ Types /\ OnePerSymbol /\ rec \in Reconciliations /\ rec.phase = "arbitrate"
      /\ short \in SUBSET Symbols
  BY DEF LedgerInvariant, Fates, Types, RecTypes, HistoryTypes, ServePosition
<1> DEFINE net == NetPosition(s)
           size == Magnitude(net)
           b == SettledSum(s, "BUY")
           d == SettledSum(s, "SELL")
<1>3. net = SumOf(exec, Bought(s)) - SumOf(exec, Side(s, "SELL"))
  BY NetIsSums DEF Bought
<1>4. SumOf(exec, Bought(s)) \in Nat /\ SumOf(exec, Side(s, "SELL")) \in Nat
      /\ b \in Nat /\ d \in Nat
  BY <1>2, SidesAdd DEF Bought
<1>5. size \in Nat /\ size = IF net < 0 THEN -net ELSE net
  <2>1. net \in Int
    BY <1>3, <1>4
  <2> HIDE DEF net
  <2> QED BY <2>1 DEF Magnitude
<1>6. /\ rec' = [rec EXCEPT !.asked = s, !.answer = <<size>>]
      /\ short' = IF net < 0 THEN short \cup {s} ELSE short
  BY DEF ServePosition
<1>7. /\ rec' \in Reconciliations /\ rec'.asked = s /\ rec'.answer = <<size>>
      /\ rec'.remaining = rec.remaining /\ rec'.phase = "arbitrate"
      /\ rec'.symbols = rec.symbols /\ rec'.failed = rec.failed
  <2> HIDE DEF size
  <2>1. <<size>> \in Answers
    BY <1>5 DEF Answers
  <2> HIDE DEF Answers
  <2> QED BY <1>2, <1>6, <2>1 DEF Reconciliations
<1>8. s \notin short' => size <= SumOf(exec, Bought(s))
  <2>1. s \notin short' => ~(net < 0)
    BY <1>6
  <2> HIDE DEF net, size
  <2> QED BY <1>3, <1>4, <1>5, <2>1
<1>9. ASSUME NEW o \in rec.remaining \cap ledger.purgatory,
             SymbolOf[o] = s, SideOf[o] = "SELL", Clean(s)
      PROVE  size <= ledger.confirmed[s] \/ b - d <= exec[o]
  <2>1. o \in Orders
    BY <1>2, LedgerFields DEF Types, LedgerTypes
  <2>2. /\ Side(s, "BUY") \cap ledger.purgatory = {}
        /\ Side(s, "SELL") \cap ledger.purgatory = {o}
    BY <1>2, <1>9, <2>1 DEF Side, OnePerSymbol
  <2>3. SumOf(exec, {}) = 0
    BY FS_EmptySet, SumStep
  <2>4. SumOf(exec, {o}) = exec[o] /\ exec[o] \in Nat
    <3>1. o \in {o} /\ {o} \in SUBSET Orders /\ {o} \ {o} = {}
      BY <2>1
    <3>2. SumOf(exec, {o}) = exec[o] + SumOf(exec, {o} \ {o}) /\ exec[o] \in Nat
      BY <1>2, <3>1, SumWith
    <3>3. SumOf(exec, {o} \ {o}) = 0
      BY <2>3, <3>1
    <3> QED BY <3>2, <3>3
  <2>5. SumOf(exec, Bought(s)) = b + SumOf(exec, Side(s, "BUY") \cap ledger.purgatory)
    BY <1>2, SidesAdd DEF Bought
  <2>6. SumOf(exec, Side(s, "SELL")) = d + SumOf(exec, Side(s, "SELL") \cap ledger.purgatory)
    BY <1>2, SidesAdd
  <2>7. b - d <= ledger.confirmed[s]
    BY <1>9 DEF LedgerInvariant, Sums, ConfirmedAbove
  <2>8. ledger.confirmed[s] \in Nat
    BY <1>2, LedgerFields DEF Types, LedgerTypes
  <2>9. SumOf(exec, Bought(s)) = b
    <3> HIDE DEF b
    <3> QED BY <1>4, <2>2, <2>3, <2>5
  <2>10. SumOf(exec, Side(s, "SELL")) = d + exec[o]
    BY <2>2, <2>4, <2>6
  <2> HIDE DEF net, size, b, d
  <2>11. net = b - (d + exec[o])
    BY <1>3, <2>9, <2>10
  <2> QED BY <1>4, <1>5, <2>4, <2>7, <2>8, <2>11
<1>10. PositionIsTrue'
  <2> HIDE DEF size, net
  <2>1. /\ ledger' = ledger /\ exec' = exec /\ early' = early
        /\ rec'.answer[1] = size
    BY <1>1, <1>7 DEF exchangeVars
  <2> QED BY <1>5, <1>7, <1>8, <1>9, <2>1 DEF PositionIsTrue, SettledSum, Side, Bought, Clean
<1>11. RecTypes' /\ AnswerIsTrue'
  BY <1>7 DEF RecTypes, AnswerIsTrue
<1>12. ArbitratedIsSettled'
  BY <1>1, <1>2, <1>7 DEF LedgerInvariant, ArbitratedIsSettled
<1>13. NetTypes' /\ short' \in SUBSET Symbols /\ short \subseteq short'
  <2>1. NetTypes'
    BY <1>1 DEF LedgerInvariant, Types, NetTypes, connVars
  <2> HIDE DEF net
  <2> QED BY <1>2, <1>6, <2>1
<1> QED BY <1>1, <1>7, <1>10, <1>11, <1>12, <1>13, LedgerUntouched

(* A position query fails.                                                 *)
LEMMA ArbitrationFailsKeeps ==
  ASSUME LedgerInvariant, ArbitrationFails
  PROVE  LedgerInvariant'
<1>1. UNCHANGED <<ledger, exchangeVars, news, connVars, early>> /\ short' = short
  BY DEF ArbitrationFails, history
<1>2. rec \in Reconciliations /\ rec.phase = "arbitrate" /\ Waiting
  BY DEF LedgerInvariant, Types, RecTypes, ArbitrationFails
<1>3. rec.asked \in Symbols
  BY <1>2 DEF LedgerInvariant, Sums, PositionIsTrue
<1> DEFINE a == Arbitrated(rec, rec.asked)
<1>4. /\ a \in Reconciliations /\ a.asked = "none" /\ a.remaining = rec.remaining
      /\ a.symbols = rec.symbols \ {rec.asked} /\ a.failed = rec.failed /\ a.phase # "query"
  BY <1>2, ArbitratedOf
<1>5. rec' = [a EXCEPT !.failed = a.failed \cup {rec.asked}]
  BY <1>4 DEF ArbitrationFails, Reconciliations
<1> HIDE DEF a
<1>6. a.failed \cup {rec.asked} \in SUBSET Symbols
  BY <1>3, <1>4, RecFields
<1>7. /\ rec' \in Reconciliations /\ rec'.asked = "none" /\ rec'.remaining = rec.remaining
      /\ rec'.symbols = rec.symbols \ {rec.asked} /\ rec'.failed = rec.failed \cup {rec.asked}
      /\ rec'.phase # "query"
  <2> HIDE DEF Answers
  <2>1. /\ rec' \in Reconciliations /\ rec'.asked = a.asked /\ rec'.remaining = a.remaining
        /\ rec'.symbols = a.symbols /\ rec'.failed = a.failed \cup {rec.asked}
        /\ rec'.phase = a.phase
    BY <1>4, <1>5, <1>6 DEF Reconciliations
  <2> QED BY <1>4, <2>1
<1>8. RecTypes' /\ AnswerIsTrue' /\ PositionIsTrue'
  BY <1>7 DEF RecTypes, AnswerIsTrue, PositionIsTrue, Waiting
<1>9. ArbitratedIsSettled'
  BY <1>1, <1>2, <1>7 DEF LedgerInvariant, ArbitratedIsSettled
<1>10. NetTypes' /\ short' \in SUBSET Symbols
  BY <1>1 DEF LedgerInvariant, Types, NetTypes, HistoryTypes, connVars
<1> QED BY <1>1, <1>7, <1>8, <1>9, <1>10, LedgerUntouched

(* A reconciliation ends.                                                  *)
LEMMA PublishKeeps ==
  ASSUME LedgerInvariant, Publish
  PROVE  LedgerInvariant'
<1>1. UNCHANGED <<ledger, exchangeVars, news, connVars, early>> /\ short' = short
  BY DEF Publish, history
<1>2. /\ rec' \in Reconciliations /\ rec'.phase = "idle" /\ rec'.asked = "none"
      /\ rec'.remaining = {}
  <2>1. rec' = Idle
    BY DEF Publish
  <2> QED BY <2>1, IdleType DEF Idle
<1>3. RecTypes' /\ AnswerIsTrue' /\ PositionIsTrue' /\ ArbitratedIsSettled'
  BY <1>2 DEF RecTypes, AnswerIsTrue, PositionIsTrue, ArbitratedIsSettled
<1>4. NetTypes' /\ short' \in SUBSET Symbols
  BY <1>1 DEF LedgerInvariant, Types, NetTypes, HistoryTypes, connVars
<1> QED BY <1>1, <1>2, <1>3, <1>4, LedgerUntouched

-----------------------------------------------------------------------------
(* The theorems.                                                           *)

(* Every step keeps the invariant.                                         *)
LEMMA NextKeeps ==
  LedgerInvariant /\ [Next]_vars => LedgerInvariant'
<1> SUFFICES ASSUME LedgerInvariant, [Next]_vars PROVE LedgerInvariant'
  OBVIOUS
<1>1. CASE UNCHANGED vars
  <2>1. /\ ledger' = ledger /\ place' = place /\ exec' = exec /\ status' = status
        /\ news' = news /\ connected' = connected /\ due' = due /\ drops' = drops
        /\ rec' = rec /\ early' = early /\ short' = short
    BY <1>1 DEF vars, exchangeVars, connVars, history
  <2>2. Types'
    BY <2>1 DEF LedgerInvariant, Types, LedgerTypes, ExchangeTypes, NetTypes, HistoryTypes, RecTypes
  <2>3. Fates'
    BY <2>1 DEF LedgerInvariant, Fates, OnePerSymbol, NewIsBlank, SettledIsOver, NewsIsTrue,
                AnswerIsTrue, Unfinished, Waiting
  <2>4. Sums'
    BY <2>1, QuietSums DEF LedgerInvariant
  <2>5. ArbitratedIsSettled'
    BY <2>1, StillSettled DEF LedgerInvariant
  <2> QED BY <2>2, <2>3, <2>4, <2>5 DEF LedgerInvariant
<1>2. ASSUME NEW o \in Orders, Arrive(o) PROVE LedgerInvariant'
  BY <1>2, ArriveKeeps
<1>3. ASSUME NEW o \in Orders, Execute(o) PROVE LedgerInvariant'
  BY <1>3, ExecuteKeeps
<1>4. ASSUME NEW o \in Orders, Kill(o) PROVE LedgerInvariant'
  BY <1>4, KillKeeps
<1>5. ASSUME NEW o \in Orders, Dispatch(o) PROVE LedgerInvariant'
  BY <1>5, DispatchKeeps
<1>6. CASE Drop \/ Reconnect
  BY <1>6, ConnectionKeeps
<1>7. CASE Hear
  BY <1>7, HearKeeps
<1>8. CASE Start
  BY <1>8, StartKeeps
<1>9. ASSUME NEW o \in Orders, ServeOrder(o) PROVE LedgerInvariant'
  BY <1>9, ServeOrderKeeps
<1>10. ASSUME NEW s \in Symbols, ServePosition(s) PROVE LedgerInvariant'
  BY <1>10, ServePositionKeeps
<1>11. CASE Answer
  BY <1>11, AnswerKeeps
<1>12. CASE QueryFails
  BY <1>12, QueryFailsKeeps
<1>13. CASE Arbitrate
  BY <1>13, ArbitrateKeeps
<1>14. CASE ArbitrationFails
  BY <1>14, ArbitrationFailsKeeps
<1>15. CASE Publish
  BY <1>15, PublishKeeps
<1> QED BY <1>1, <1>2, <1>3, <1>4, <1>5, <1>6, <1>7, <1>8, <1>9, <1>10, <1>11, <1>12, <1>13,
           <1>14, <1>15 DEF Next, Rest

(* The invariant holds in every state the system reaches.                  *)
THEOREM InvariantHolds ==
  Spec => []LedgerInvariant
BY InitHolds, NextKeeps, PTL DEF Spec

(* The ledger, the orders, the network and the reconciliation keep their   *)
(* types; in particular no order executes more than its quantity.          *)
THEOREM TypeCorrect ==
  Spec => []TypeOK
<1>1. LedgerInvariant => TypeOK
  <2> SUFFICES ASSUME LedgerInvariant PROVE TypeOK
    OBVIOUS
  <2>1. \A i \in DOMAIN news : news[i] \in [order: Orders, kind: {"fill", "end"}, qty: Nat]
    <3>1. news \in Seq(Events)
      BY DEF LedgerInvariant, Types, NetTypes
    <3>2. \A i \in DOMAIN news : news[i] \in Events
      BY <3>1, ElementOfSeq
    <3> QED BY <3>2 DEF Events
  <2>2. /\ rec.phase \in {"idle", "query", "arbitrate", "publish"} /\ rec.tries \in 0 .. MaxRetries - 1
        /\ rec.todo \subseteq Orders /\ rec.remaining \subseteq Orders /\ rec.symbols \subseteq Symbols
    <3>1. rec \in Reconciliations
      BY DEF LedgerInvariant, Types, RecTypes
    <3> QED BY <3>1, RecFields
  <2> QED BY <2>1, <2>2 DEF LedgerInvariant, Types, LedgerTypes, ExchangeTypes, NetTypes,
                            HistoryTypes, Statuses, TypeOK
<1> QED BY <1>1, InvariantHolds, PTL

(* A fill is counted once, however it is heard of and however often: no    *)
(* symbol is confirmed above what its BUY orders executed, but one whose   *)
(* short position was read without its sign.                               *)
THEOREM CountedOnce ==
  Spec => []ConfirmedIsExecuted
<1>1. LedgerInvariant => ConfirmedIsExecuted
  <2> SUFFICES ASSUME LedgerInvariant, NEW s \in Symbols \ short
               PROVE  ledger.confirmed[s] <= SumOf(exec, Bought(s))
    BY DEF ConfirmedIsExecuted, SumOf, Bought, Side
  <2>1. Types
    BY DEF LedgerInvariant
  <2>2. ledger.confirmed[s] <= SettledSum(s, "BUY")
    BY DEF LedgerInvariant, Sums, ConfirmedBelow
  <2> DEFINE open == Side(s, "BUY") \cap ledger.purgatory
  <2>3. /\ SumOf(exec, Bought(s)) = SettledSum(s, "BUY") + SumOf(exec, open)
        /\ SettledSum(s, "BUY") \in Nat /\ SumOf(exec, open) \in Nat
    BY <2>1, SidesAdd DEF Bought
  <2>4. ledger.confirmed[s] \in Nat
    BY <2>1, LedgerFields DEF Types, LedgerTypes
  <2> HIDE DEF open
  <2> QED BY <2>2, <2>3, <2>4
<1> QED BY <1>1, InvariantHolds, PTL

(* The shadow, confirmed and everything in purgatory, is never below the   *)
(* position at the exchange, unless an order of the symbol was settled for *)
(* less than it executed or while it still could.                          *)
THEOREM ShadowIsSafe ==
  Spec => []ShadowCoversExchange
<1>1. LedgerInvariant => ShadowCoversExchange
  <2> SUFFICES ASSUME LedgerInvariant, NEW s \in Symbols, Clean(s)
               PROVE  NetPosition(s) <= Shadow(ledger, s)
    BY DEF ShadowCoversExchange, Clean
  <2> DEFINE b == SettledSum(s, "BUY")
             d == SettledSum(s, "SELL")
             open == Side(s, "BUY") \cap ledger.purgatory
             sold == Side(s, "SELL") \cap ledger.purgatory
             mine == InPurgatory(ledger, s)
             c == ledger.confirmed[s]
  <2>1. Types /\ ledger.purgatory \in SUBSET Orders /\ c \in Nat
    BY LedgerFields DEF LedgerInvariant, Types, LedgerTypes
  <2>2. b - d <= c
    BY DEF LedgerInvariant, Sums, ConfirmedAbove
  <2>3. /\ SumOf(exec, Side(s, "BUY")) = b + SumOf(exec, open)
        /\ b \in Nat /\ SumOf(exec, open) \in Nat
    BY <2>1, SidesAdd
  <2>4. /\ SumOf(exec, Side(s, "SELL")) = d + SumOf(exec, sold)
        /\ d \in Nat /\ SumOf(exec, sold) \in Nat
    BY <2>1, SidesAdd
  <2>5. SumOf(exec, open) <= SumOf(QtyOf, mine) /\ SumOf(QtyOf, mine) \in Nat
    <3>1. mine \in SUBSET Orders /\ open = mine \cap Side(s, "BUY") /\ open \in SUBSET Orders
      BY <2>1 DEF InPurgatory, Side
    <3> HIDE DEF mine, open
    <3>2. \A D \in SUBSET Orders : IsFiniteSet(D)
      BY LedgerAssumption, FS_Subset
    <3>3. \A o \in Orders : QtyOf[o] \in Nat /\ exec[o] \in Nat /\ exec[o] <= QtyOf[o]
      BY <2>1, LedgerAssumption DEF Types, ExchangeTypes
    <3>4. SumOf(exec, open) <= SumOf(QtyOf, open)
      BY <3>1, <3>2, <3>3, SumGrows
    <3> DEFINE rest == mine \ Side(s, "BUY")
    <3>5. SumOf(QtyOf, mine) = SumOf(QtyOf, rest) + SumOf(QtyOf, open)
      BY <3>1, <3>2, <3>3, SumOfParts
    <3>6. rest \in SUBSET Orders
      BY <3>1
    <3> HIDE DEF rest
    <3>7. SumOf(QtyOf, rest) \in Nat
      BY <3>2, <3>3, <3>6, SumType
    <3>8. SumOf(QtyOf, open) \in Nat
      BY <3>1, <3>2, <3>3, SumType
    <3>9. SumOf(exec, open) \in Nat
      BY <3>1, <3>2, <3>3, SumType
    <3> QED BY <3>4, <3>5, <3>7, <3>8, <3>9
  <2>6. Shadow(ledger, s) = c + SumOf(QtyOf, mine)
    BY DEF Shadow, TotalQty, SumOf
  <2>7. NetPosition(s) = (b + SumOf(exec, open)) - (d + SumOf(exec, sold))
    BY <2>3, <2>4, NetIsSums
  <2> HIDE DEF b, d, open, sold, mine, c
  <2> QED BY <2>1, <2>2, <2>3, <2>4, <2>5, <2>6, <2>7
<1> QED BY <1>1, InvariantHolds, PTL

(* Arbitration settles every order it set out with, unless the position of *)
(* its symbol was not answered.                                            *)
THEOREM NothingLeftBehind ==
  Spec => []ArbitratedIsSettled
<1>1. LedgerInvariant => ArbitratedIsSettled
  BY DEF LedgerInvariant
<1> QED BY <1>1, InvariantHolds, PTL

=============================================================================
