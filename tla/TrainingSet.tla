---------------------------- MODULE TrainingSet ----------------------------
(***************************************************************************)
(* The training pipeline: trades make dollar bars, closed bars resolve the *)
(* open intents, each label goes to the feature record of its intent.  The *)
(* engine calls the labeler and the labeler the store inside ingest_trade; *)
(* features are appended by the caller that registered the intent, some    *)
(* time after.  The process may die anywhere; only the file remains.       *)
(***************************************************************************)
EXTENDS TripleBarrier, FeatureStore

CONSTANTS
  Trades,       \* pairs <<price, quantity>>
  Entry,        \* price of an intent
  MaxTrades, MaxIntents,   \* in one run of the process
  MaxLives      \* runs of the process

ASSUME TrainingAssumption ==
  /\ Trades \subseteq (Nat \ {0}) \X (Nat \ {0}) /\ Entry \in Nat
  /\ MaxTrades \in Nat /\ MaxIntents \in Nat /\ MaxLives \in Nat \ {0}

(* "K is bounded by exchange max_trade_size / threshold" (dollar_bars.py:  *)
(* 151): one trade closes fewer bars than the ring has slots.  If it       *)
(* closed as many, the labeler would read the row _close_bar has zeroed.   *)
ASSUME SmallTrades == \A t \in Trades : DollarValue(t[1], t[2]) <= (Slots - 1) * Threshold

VARIABLES
  life,      \* number of this run
  eng, lab,  \* the bar engine and the labeler
  store,     \* the feature store; store.wal is the file
  todo,      \* intents whose features are still to be appended
  tape,      \* the trades of this run
  results,   \* what the labeler resolved in this run
  evicted,   \* intents that lost their slot in this run
  strays     \* intents labelled when another record answered to their id

vars == <<life, eng, lab, store, todo, tape, results, evicted, strays>>

TypeOK ==
  /\ life \in 1..MaxLives
  /\ tape \in Seq(Trades)
  /\ store.entries = Len(store.wal) /\ store.entries <= MaxEntries
  /\ todo \subseteq {<<life, i>> : i \in 0..(lab.next - 1)}

Intent(i) == <<life, i>>

Init ==
  /\ life = 1 /\ eng = NewEngine /\ lab = NewLabeler /\ store = Empty
  /\ todo = {} /\ tape = <<>> /\ results = <<>> /\ evicted = {} /\ strays = {}

(* The labels of one call of on_bars_closed reach the store one by one.    *)
AllLabelled(st, labels) ==
  LET after[k \in 0..Len(labels)] ==
        IF k = 0 THEN st
        ELSE Labelled(after[k - 1], Intent(labels[k].intent.id), labels[k].label)
  IN after[Len(labels)]

(* The file has no record of the intent, but one of another with its id.   *)
LeadsAstray(st, intent) ==
  LET records == {st.wal[p].intent : p \in DOMAIN st.wal}
  IN intent \notin records /\ \E other \in records : IdOf(other) = IdOf(intent)

Trade(price, qty) ==
  LET closed == Closed(eng, price, qty)
      after == Ingested(eng, price, qty)
      scan == AfterBars(lab, after, eng.count, Cardinality(closed))
      intents == {Intent(scan.labels[k].intent.id) : k \in DOMAIN scan.labels}
  IN /\ Len(tape) < MaxTrades
     /\ tape' = Append(tape, <<price, qty>>)
     /\ eng' = after
     /\ lab' = scan.l
     /\ store' = AllLabelled(store, scan.labels)
     /\ results' = results \o scan.labels
     /\ strays' = strays \cup {i \in intents : LeadsAstray(store, i)}
     /\ UNCHANGED <<life, todo, evicted>>

(* An evicted intent is recorded as resolved, without the label callback.  *)
Register(side) ==
  /\ lab.next < MaxIntents
  /\ lab' = Registered(lab, eng, Entry, side)
  /\ evicted' = evicted \cup (IF Full(lab) THEN {Intent(lab.slots[OldestSlot(lab)].id)} ELSE {})
  /\ todo' = todo \cup {Intent(lab.next)}
  /\ UNCHANGED <<life, eng, store, tape, results, strays>>

AppendFeatures(intent) ==
  /\ intent \in todo
  /\ todo' = todo \ {intent}
  /\ store' = Appended(store, intent)
  /\ UNCHANGED <<life, eng, lab, tape, results, evicted, strays>>

Compact ==
  /\ store' = Compacted(store)
  /\ UNCHANGED <<life, eng, lab, todo, tape, results, evicted, strays>>

(* A new process over the file: ids start at 0 again.                      *)
RestartOver(wal) ==
  /\ life < MaxLives
  /\ life' = life + 1
  /\ store' = Rebuilt(wal)
  /\ eng' = NewEngine /\ lab' = NewLabeler
  /\ todo' = {} /\ tape' = <<>> /\ results' = <<>> /\ evicted' = {}
  /\ UNCHANGED strays

Crash == RestartOver(store.wal)
CrashInAppend(intent) ==
  intent \in todo /\ HasRoom(store) /\ RestartOver(TornAppend(store, intent))
CrashInCompaction(k) ==
  k \in 1..Len(Kept(store)) /\ Len(Kept(store)) < store.entries
    /\ RestartOver(TornCompaction(store, k))

Next ==
  \/ \E t \in Trades : Trade(t[1], t[2])
  \/ \E side \in {-1, 1} : Register(side)
  \/ \E intent \in todo : AppendFeatures(intent) \/ CrashInAppend(intent)
  \/ Compact
  \/ Crash
  \/ \E k \in 1..MaxEntries : CrashInCompaction(k)

Spec == Init /\ [][Next]_vars

(* What the trades of this run say, from their running dollar volume.  A   *)
(* trade worth less than one unit of it falls into no bar.                 *)
Volume(n) == SumFunctionOnSet([k \in 1..n |-> DollarValue(tape[k][1], tape[k][2])], 1..n)
TradesOf(bar) ==
  {n \in DOMAIN tape : /\ Volume(n - 1) < Volume(n)
                       /\ Volume(n - 1) < (bar + 1) * Threshold
                       /\ Volume(n) > bar * Threshold}
PricesOf(bar) == {tape[n][1] : n \in TradesOf(bar)}
LastOf(bar) == tape[CHOOSE n \in TradesOf(bar) : \A m \in TradesOf(bar) : m <= n][1]

(* A bar holds exactly Threshold of dollar volume: the bars closed and the *)
(* rest are the volume traded, and a row of the ring has the extremes and  *)
(* the close of the trades whose volume fell into its bar.  The oldest row *)
(* of a full ring is excepted: _close_bar has zeroed it, although          *)
(* get_bar_row still hands it out (dollar_bars.py:284, :302).              *)
BarsAreExact ==
  /\ Threshold * eng.count + eng.acc = Volume(Len(tape))
  /\ \A bar \in Available(eng) :
       \/ bar = eng.count - Slots
       \/ LET row == BarRow(eng, bar)
          IN /\ row.bar = bar
             /\ row.close = LastOf(bar)
             /\ row.high \in PricesOf(bar) /\ row.low \in PricesOf(bar)
             /\ \A p \in PricesOf(bar) : row.low <= p /\ p <= row.high

(* "Capital never hallucinated a win" (triple_barrier.py:249): by the      *)
(* trades themselves, a win saw no trade at its stop in any bar from the   *)
(* one open at its registration on; a loss is the first bar to touch its   *)
(* stop, a win the first to touch its target; an intent without either is  *)
(* resolved by the bar MaxBars after its own and no sooner.                *)
TouchesStop(s, bar) ==
  \E p \in PricesOf(bar) : IF s.side > 0 THEN p <= Stop(s.entry, 1) ELSE p >= Stop(s.entry, -1)
TouchesTarget(s, bar) ==
  \E p \in PricesOf(bar) : IF s.side > 0 THEN p >= Target(s.entry, 1) ELSE p <= Target(s.entry, -1)
LabelsArePessimistic ==
  \A k \in DOMAIN results :
    LET s == results[k].intent
        bar == results[k].bar
        before == s.entryBar..(bar - 1)
    IN /\ \A b \in before : ~TouchesStop(s, b) /\ ~TouchesTarget(s, b) /\ b < s.entryBar + MaxBars
       /\ CASE results[k].label = -1 -> TouchesStop(s, bar)
            [] results[k].label = 1 -> TouchesTarget(s, bar) /\ ~TouchesStop(s, bar)
            [] results[k].label = 0 -> /\ bar = s.entryBar + MaxBars
                                       /\ ~TouchesStop(s, bar) /\ ~TouchesTarget(s, bar)

(* A record of this run without a label is of an intent that is still open *)
(* or was evicted, or its label went to another record: neither a label    *)
(* that came before its features nor a compaction loses one.               *)
IsOpen(i) == \E k \in OpenSlots(lab) : lab.slots[k].id = i
UnlabelledIsOpenOrEvicted ==
  \A p \in DOMAIN store.wal :
    LET intent == store.wal[p].intent
    IN \/ intent[1] # life \/ IsLabelled(store.wal[p])
       \/ IsOpen(IdOf(intent)) \/ intent \in evicted \cup strays

(* A row exported for training has the features, all of them, and the      *)
(* label of one intent, through compactions, torn appends and restarts,    *)
(* except where an id of an earlier run was used again and resolved        *)
(* without features of its own in the index.                               *)
PairsMatch ==
  \A r \in Exported(store) : r.y.of \in strays \/ (r.y.of = r.intent /\ r.whole)
=============================================================================
