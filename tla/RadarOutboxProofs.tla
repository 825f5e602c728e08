--------------------------- MODULE RadarOutboxProofs ---------------------------
(***************************************************************************)
(* Theorems about the way of an alert, from the trades to the operator's   *)
(* chat: RadarFeed and OutboxRelay.                                        *)
(*                                                                         *)
(* RadarFeed, for any number of connections, symbols, trades and buffered  *)
(* messages.  A trade is in one of three places: in the bars already, in   *)
(* the message the reader of its connection works on, or in that           *)
(* connection's buffer.  The invariants say that, read in this order, the  *)
(* trades of one symbol ascend (Ascending), and that they ascend without a *)
(* hole up to the last trade the exchange has executed, unless the         *)
(* connection is down, when the open bar will be discarded before more is  *)
(* heard (Gapless).                                                        *)
(*                                                                         *)
(* OutboxRelay, for any set of alerts and any values of the bounds.  Type  *)
(* correctness and "never deleted unseen" hold for any number of relays;   *)
(* the others for at most one, which is what main.py starts; two relays    *)
(* can claim the same row, and then they fail.                             *)
(***************************************************************************)
EXTENDS RadarFeed, OutboxRelay, FiniteSetTheorems, TLAPS

-----------------------------------------------------------------------------
(* The inductive invariant.                                                *)

(* A message with trades to add up. *)
Real(m) == m.lo <= m.hi

(* The places of the buffer that hold trades of s, and what they hold. *)
Of(s) == {i \in DOMAIN inbox[ConnOf[s]] :
            inbox[ConnOf[s]][i].sym = s /\ Real(inbox[ConnOf[s]][i])}
In(s, i) == inbox[ConnOf[s]][i]

(* The reader of s works on trades of s. *)
Reading(s) == msg[ConnOf[s]].sym = s /\ Real(msg[ConnOf[s]])

(* A connection that is not up holds nothing of its last incarnation, and  *)
(* an alert is awaited only on behalf of a trade.                          *)
Quiet(c) ==
  /\ phase[c] \in {"dialing", "subscribing", "sleeping"} => inbox[c] = <<>> /\ at[c] = "waiting"
  /\ at[c] = "waiting" => msg[c] = Nothing
  /\ at[c] \in {"warning", "alerting"} => HasTrade(c)

(* Trades travel on the connection of their symbol, and are executed. *)
Routed(c) ==
  /\ \A i \in DOMAIN inbox[c] : Real(inbox[c][i]) =>
       /\ ConnOf[inbox[c][i].sym] = c
       /\ inbox[c][i].hi <= traded[inbox[c][i].sym]
  /\ msg[c].lo <= next[c]
  /\ Real(msg[c]) =>
       /\ ConnOf[msg[c].sym] = c
       /\ next[c] <= msg[c].hi + 1
       /\ msg[c].hi <= traded[msg[c].sym]

(* The messages with trades of s ascend. *)
Sequenced(s) ==
  /\ \A i, j \in Of(s) : i < j => In(s, i).hi < In(s, j).lo
  /\ Reading(s) => \A i \in Of(s) : msg[ConnOf[s]].hi < In(s, i).lo

(* The last closed bar of s is behind all that is still to be added. *)
Passed(s) ==
  /\ closed[s].last <= traded[s]
  /\ \A i \in Of(s) : closed[s].last < In(s, i).lo
  /\ Reading(s) => IF at[ConnOf[s]] = "alerting" THEN closed[s].last <= next[ConnOf[s]]
                                                 ELSE closed[s].last < next[ConnOf[s]]
  /\ bar[s].n > 0 => closed[s].last < bar[s].first

Ascending(s) == Sequenced(s) /\ Passed(s)

(* The open bar ends where the reader goes on. *)
InLine(s) ==
  bar[s].n > 0 /\ Reading(s) =>
    bar[s].last + 1 = next[ConnOf[s]] /\ at[ConnOf[s]] # "alerting"

(* Trade n continues what the reader has, or else the open bar. *)
Due(s, n) ==
  IF Reading(s) THEN n = msg[ConnOf[s]].hi + 1
                ELSE bar[s].n > 0 => n = bar[s].last + 1

(* Trade n continues what is buffered before place j. *)
After(s, j, n) ==
  IF \E i \in Of(s) : i < j
  THEN \E i \in Of(s) : i < j /\ In(s, i).hi + 1 = n
  ELSE Due(s, n)

Linked(s) == \A j \in Of(s) : After(s, j, In(s, j).lo)

Reaches(s) ==
  phase[ConnOf[s]] = "reading" => After(s, Len(inbox[ConnOf[s]]) + 1, traded[s] + 1)

Fresh(s) == phase[ConnOf[s]] = "subscribing" => bar[s].n = 0

Gapless(s) ==
  /\ InLine(s) /\ Linked(s) /\ Reaches(s) /\ Fresh(s)
  /\ Contiguous(bar[s]) /\ Contiguous(closed[s])

FeedInv ==
  /\ TypeOK
  /\ \A c \in Conns : Quiet(c) /\ Routed(c)
  /\ \A s \in Symbols : Ascending(s)
  /\ \A s \in Symbols \ garbled : Gapless(s)

-----------------------------------------------------------------------------
(* Types.                                                                  *)

LEMMA NothingIsEmpty == Nothing \in Messages /\ Nothing.lo = 1 /\ Nothing.hi = 0 /\ ~Real(Nothing)
<1>1. (CHOOSE s \in Symbols : TRUE) \in Symbols
  BY FeedAssumption
<1> QED
  BY <1>1 DEF Nothing, Message, Messages, Real

LEMMA NoBarIsBar == NoBar \in Bars /\ NoBar.n = 0 /\ NoBar.last = 0
BY DEF NoBar, Bars

LEMMA InitType == Init => TypeOK
BY NothingIsEmpty, NoBarIsBar, FeedAssumption DEF Init, TypeOK, NoBars

(* What taking up a trade does, the alert it may raise included. *)
LEMMA AggregateType ==
  ASSUME TypeOK, NEW c \in Conns, NEW busy \in SUBSET ({"VPIN", "LIQUIDITY"} \X Symbols),
         Aggregate(c, busy)
  PROVE  TypeOK'
<1> DEFINE s == msg[c].sym
<1>1. s \in Symbols /\ next[c] \in Nat /\ bar[s] \in Bars
  BY DEF TypeOK, Messages
<1>2. PICK usd \in Usd :
        LET b == Extended(bar[s], next[c], usd) IN
        /\ UNCHANGED <<net, msg, threshold, traded, garbled>>
        /\ \/ /\ ~Closes(b, s)
              /\ bar' = [bar EXCEPT ![s] = b]
              /\ cooling' = busy
              /\ at' = [at EXCEPT ![c] = "trades"]
              /\ NextTrade(c)
              /\ UNCHANGED closed
           \/ /\ Closes(b, s)
              /\ bar' = [bar EXCEPT ![s] = NoBar]
              /\ closed' = [closed EXCEPT ![s] = b]
              /\ \/ /\ cooling' = busy
                    /\ at' = [at EXCEPT ![c] = "trades"]
                    /\ NextTrade(c)
                 \/ /\ s \in Loud /\ <<"VPIN", s>> \notin busy
                    /\ cooling' = busy \cup {<<"VPIN", s>>}
                    /\ at' = [at EXCEPT ![c] = "alerting"]
                    /\ UNCHANGED next
  BY Zenon DEF Aggregate
<1> DEFINE b == Extended(bar[s], next[c], usd)
<1>3. b \in Bars
  BY <1>1, FeedAssumption DEF Extended, Bars
<1>4. bar' \in [Symbols -> Bars] /\ closed' \in [Symbols -> Bars]
  <2>1. bar' = [bar EXCEPT ![s] = b] \/ bar' = [bar EXCEPT ![s] = NoBar]
    BY <1>2
  <2>2. closed' = closed \/ closed' = [closed EXCEPT ![s] = b]
    BY <1>2
  <2> HIDE DEF b, s
  <2>3. bar \in [Symbols -> Bars] /\ closed \in [Symbols -> Bars]
    BY DEF TypeOK
  <2>4. bar' \in [Symbols -> Bars]
    BY <1>3, <2>1, <2>3, NoBarIsBar
  <2>5. closed' \in [Symbols -> Bars]
    BY <1>3, <2>2, <2>3
  <2> QED
    BY <2>4, <2>5
<1>5. next' \in [Conns -> Nat]
  <2>1. next' = next \/ next' = [next EXCEPT ![c] = next[c] + 1]
    BY <1>2 DEF NextTrade
  <2>2. next[c] + 1 \in Nat
    BY <1>1
  <2> QED
    BY <2>1, <2>2 DEF TypeOK
<1>6. cooling' \subseteq {"VPIN", "LIQUIDITY"} \X Symbols
  BY <1>1, <1>2
<1>7. at' \in [Conns -> {"waiting", "trades", "warning", "alerting"}]
  BY <1>2 DEF TypeOK
<1> QED
  BY <1>2, <1>4, <1>5, <1>6, <1>7 DEF TypeOK, net

LEMMA NextType == TypeOK /\ [Next]_vars => TypeOK'
<1> SUFFICES ASSUME TypeOK, [Next]_vars PROVE TypeOK'
  OBVIOUS
<1>n. \A c \in Conns : next[c] \in Nat /\ next[c] + 1 \in Nat
  BY DEF TypeOK
<1>t. \A s \in Symbols : traded[s] \in Nat /\ traded[s] + 1 \in Nat /\ MaxTrades[s] \in Nat
  BY FeedAssumption DEF TypeOK
<1>b. \A c \in Conns : (IF backoff[c] < BackoffCap THEN backoff[c] + 1 ELSE backoff[c]) \in 0 .. BackoffCap
  BY FeedAssumption DEF TypeOK
<1>z. 0 \in 0 .. BackoffCap
  BY FeedAssumption
<1>a. ASSUME NEW c \in Conns, NEW m \in Messages, Arrives(c, m),
             traded' \in [Symbols -> Nat], garbled' \subseteq Symbols
      PROVE  TypeOK'
  <2>1. Append(inbox[c], m) \in Seq(Messages)
    BY DEF TypeOK
  <2> QED
    BY <1>a, <2>1 DEF Arrives, task, radar, TypeOK
<1>1. ASSUME NEW c \in Conns, Line(c) PROVE TypeOK'
  <2>1. CASE Connect(c)
    <3>1. NoBars \in [Symbols -> Bars]
      BY NoBarIsBar DEF NoBars
    <3> QED
      BY <2>1, <3>1 DEF Connect, TypeOK, task, ghost
  <2>2. CASE Subscribe(c) \/ Refused(c) \/ Break(c)
    BY <2>2 DEF Subscribe, Refused, Break, TypeOK, task, radar, ghost
  <2> QED
    BY <1>1, <2>1, <2>2 DEF Line
<1>2. ASSUME NEW s \in Symbols, Miss(s) PROVE TypeOK'
  BY <1>2, <1>t DEF Miss, net, task, radar, TypeOK
<1>3. ASSUME NEW s \in Symbols, NEW hi \in 1 .. MaxTrades[s], Publish(s, hi) PROVE TypeOK'
  <2>1. hi \in Nat /\ ConnOf[s] \in Conns
    BY <1>t, FeedAssumption
  <2>2. Message(s, traded[s] + 1, hi, "end") \in Messages
    BY <1>t, <2>1 DEF Message, Messages
  <2>3. traded' \in [Symbols -> Nat] /\ garbled' \subseteq Symbols
    BY <1>3, <2>1 DEF Publish, TypeOK
  <2> QED
    BY <1>3, <2>1, <2>2, <2>3, <1>a DEF Publish
<1>4. ASSUME NEW s \in Symbols, NEW hi \in 1 .. MaxTrades[s], NEW k \in 0 .. hi,
             NEW tail \in {"end", "raise"}, PublishGarbled(s, hi, k, tail)
      PROVE  TypeOK'
  <2>1. hi \in Nat /\ k \in Nat /\ ConnOf[s] \in Conns
    BY <1>t, FeedAssumption
  <2>2. Message(s, traded[s] + 1, k, tail) \in Messages
    BY <1>t, <2>1 DEF Message, Messages
  <2>3. traded' \in [Symbols -> Nat] /\ garbled' \subseteq Symbols
    BY <1>4, <2>1 DEF PublishGarbled, TypeOK
  <2> QED
    BY <1>4, <2>1, <2>2, <2>3, <1>a DEF PublishGarbled
<1>5. ASSUME NEW c \in Conns, Chatter(c) PROVE TypeOK'
  BY <1>5, <1>a, NothingIsEmpty DEF Chatter, TypeOK
<1>6. ASSUME NEW c \in Conns, Read(c) PROVE TypeOK'
  <2>1. Head(inbox[c]) \in Messages /\ Tail(inbox[c]) \in Seq(Messages)
    BY <1>6 DEF Read, TypeOK
  <2>2. Head(inbox[c]).lo \in Nat
    BY <2>1 DEF Messages
  <2> QED
    BY <1>6, <2>1, <2>2 DEF Read, radar, ghost, TypeOK
<1>7. ASSUME NEW c \in Conns, Process(c) \/ Warned(c) PROVE TypeOK'
  <2>1. cooling \in SUBSET ({"VPIN", "LIQUIDITY"} \X Symbols)
    BY DEF TypeOK
  <2> QED
    BY <1>7, <2>1, AggregateType DEF Process, Warned
<1>8. ASSUME NEW c \in Conns, Detect(c) PROVE TypeOK'
  <2>1. <<"LIQUIDITY", msg[c].sym>> \in {"VPIN", "LIQUIDITY"} \X Symbols
    BY DEF Messages, TypeOK
  <2>2. cooling' \subseteq {"VPIN", "LIQUIDITY"} \X Symbols
    BY <1>8, <2>1 DEF Detect, TypeOK
  <2>3. at' \in [Conns -> {"waiting", "trades", "warning", "alerting"}]
    BY <1>8 DEF Detect, TypeOK
  <2> QED
    BY <1>8, <2>2, <2>3 DEF Detect, net, ghost, TypeOK
<1>9. ASSUME NEW c \in Conns, Alerted(c) PROVE TypeOK'
  BY <1>9, <1>n DEF Alerted, NextTrade, net, radar, ghost, TypeOK
<1>10. ASSUME NEW c \in Conns, FinishMessage(c) \/ MessageRaises(c) PROVE TypeOK'
  <2>0. Forget(c)
    BY <1>10 DEF FinishMessage, MessageRaises
  <2>1. /\ msg' \in [Conns -> Messages]
        /\ next' \in [Conns -> Nat]
        /\ at' \in [Conns -> {"waiting", "trades", "warning", "alerting"}]
    <3>1. msg' \in [Conns -> Messages]
      BY <2>0, NothingIsEmpty DEF Forget, TypeOK
    <3>2. next' \in [Conns -> Nat]
      BY <2>0 DEF Forget, TypeOK
    <3>3. at' \in [Conns -> {"waiting", "trades", "warning", "alerting"}]
      BY <2>0 DEF Forget, TypeOK
    <3> QED
      BY <3>1, <3>2, <3>3
  <2>2. CASE FinishMessage(c)
    <3>1. heard' \in [Conns -> BOOLEAN] /\ backoff' \in [Conns -> 0 .. BackoffCap]
      BY <2>2, <1>z DEF FinishMessage, TypeOK
    <3> QED
      BY <2>1, <2>2, <3>1 DEF FinishMessage, radar, ghost, TypeOK
  <2>3. CASE MessageRaises(c)
    <3>1. inbox' \in [Conns -> Seq(Messages)]
      BY <2>3 DEF MessageRaises, TypeOK
    <3> QED
      BY <2>1, <2>3, <3>1 DEF MessageRaises, radar, ghost, TypeOK
  <2> QED
    BY <1>10, <2>2, <2>3
<1>11. ASSUME NEW c \in Conns, Closed(c) \/ Redial(c) PROVE TypeOK'
  <2>1. CASE Closed(c)
    BY <2>1 DEF Closed, task, radar, ghost, TypeOK
  <2>2. CASE Redial(c)
    BY <2>2, <1>b DEF Redial, task, radar, ghost, TypeOK
  <2> QED
    BY <1>11, <2>1, <2>2
<1>12. ASSUME NEW key \in cooling, CoolDown(key) PROVE TypeOK'
  BY <1>12 DEF CoolDown, net, task, ghost, TypeOK
<1>13. ASSUME Refresh PROVE TypeOK'
  BY <1>13 DEF Refresh, net, task, ghost, TypeOK
<1>14. ASSUME UNCHANGED vars PROVE TypeOK'
  BY <1>14 DEF vars, net, task, radar, ghost, TypeOK
<1>15. CASE Exchange
  BY <1>15, <1>2, <1>3, <1>4, <1>5 DEF Exchange
<1>16. CASE \E c \in Conns : Reader(c) \/ Line(c)
  BY <1>16, <1>1, <1>6, <1>7, <1>8, <1>9, <1>10, <1>11 DEF Reader
<1> QED
  BY <1>12, <1>13, <1>14, <1>15, <1>16 DEF Next

(* The model is type correct. *)
THEOREM TypeCorrect == Spec => []TypeOK
BY InitType, NextType, PTL DEF Spec

-----------------------------------------------------------------------------
(* Steps, place by place.                                                  *)

(* What taking up a trade does, whatever its notional was: it joins the    *)
(* open bar, or completes it, and then the reader may have to wait.        *)
Joined(s, c, b) ==
  /\ b.first = IF bar[s].n = 0 THEN next[c] ELSE bar[s].first
  /\ b.last = next[c]
  /\ b.n = bar[s].n + 1

Added(c) ==
  LET s == msg[c].sym IN
  /\ phase' = phase /\ inbox' = inbox /\ msg' = msg /\ traded' = traded /\ garbled' = garbled
  /\ \A d \in Conns \ {c} : at'[d] = at[d] /\ next'[d] = next[d]
  /\ \A r \in Symbols \ {s} : bar'[r] = bar[r] /\ closed'[r] = closed[r]
  /\ \/ /\ Joined(s, c, bar'[s]) /\ closed'[s] = closed[s]
        /\ at'[c] = "trades" /\ next'[c] = next[c] + 1
     \/ /\ Joined(s, c, closed'[s]) /\ bar'[s] = NoBar
        /\ \/ at'[c] = "trades" /\ next'[c] = next[c] + 1
           \/ at'[c] = "alerting" /\ next'[c] = next[c]

LEMMA AggregateAdds ==
  ASSUME TypeOK, NEW c \in Conns, NEW busy, Aggregate(c, busy)
  PROVE  Added(c)
<1> DEFINE s == msg[c].sym
<1>1. s \in Symbols
  BY DEF TypeOK, Messages
<1>2. PICK usd \in Usd :
        LET b == Extended(bar[s], next[c], usd) IN
        /\ UNCHANGED <<net, msg, threshold, traded, garbled>>
        /\ \/ /\ bar' = [bar EXCEPT ![s] = b]
              /\ at' = [at EXCEPT ![c] = "trades"]
              /\ NextTrade(c)
              /\ UNCHANGED closed
           \/ /\ bar' = [bar EXCEPT ![s] = NoBar]
              /\ closed' = [closed EXCEPT ![s] = b]
              /\ \/ /\ at' = [at EXCEPT ![c] = "trades"]
                    /\ NextTrade(c)
                 \/ /\ at' = [at EXCEPT ![c] = "alerting"]
                    /\ UNCHANGED next
  BY Zenon DEF Aggregate
<1> DEFINE b == Extended(bar[s], next[c], usd)
<1>3. Joined(s, c, b)
  BY DEF Joined, Extended
<1>4. DOMAIN bar = Symbols /\ DOMAIN closed = Symbols /\ DOMAIN at = Conns /\ DOMAIN next = Conns
  BY DEF TypeOK
<1>5. UNCHANGED <<phase, inbox, msg, traded, garbled>>
  BY <1>2 DEF net
<1> HIDE DEF b, s
<1>6. CASE /\ bar' = [bar EXCEPT ![s] = b]
           /\ at' = [at EXCEPT ![c] = "trades"]
           /\ NextTrade(c)
           /\ UNCHANGED closed
  <2>1. /\ bar'[s] = b /\ closed' = closed
        /\ \A r \in Symbols \ {s} : bar'[r] = bar[r]
    BY <1>1, <1>4, <1>6
  <2>2. /\ at'[c] = "trades" /\ next'[c] = next[c] + 1
        /\ \A d \in Conns \ {c} : at'[d] = at[d] /\ next'[d] = next[d]
    BY <1>4, <1>6 DEF NextTrade
  <2> QED
    BY <1>3, <1>5, <2>1, <2>2 DEF Added, s
<1>7. CASE /\ bar' = [bar EXCEPT ![s] = NoBar]
           /\ closed' = [closed EXCEPT ![s] = b]
           /\ \/ /\ at' = [at EXCEPT ![c] = "trades"]
                 /\ NextTrade(c)
              \/ /\ at' = [at EXCEPT ![c] = "alerting"]
                 /\ UNCHANGED next
  <2>1. /\ bar'[s] = NoBar /\ closed'[s] = b
        /\ \A r \in Symbols \ {s} : bar'[r] = bar[r] /\ closed'[r] = closed[r]
    BY <1>1, <1>4, <1>7
  <2>2. /\ \/ at'[c] = "trades" /\ next'[c] = next[c] + 1
           \/ at'[c] = "alerting" /\ next'[c] = next[c]
        /\ \A d \in Conns \ {c} : at'[d] = at[d] /\ next'[d] = next[d]
    BY <1>4, <1>7 DEF NextTrade
  <2> QED
    BY <1>3, <1>5, <2>1, <2>2 DEF Added, s
<1> QED
  BY <1>2, <1>6, <1>7 DEF b

(* What the reader's message leaves behind when it is done with. *)
LEMMA ForgetsAll ==
  ASSUME TypeOK, NEW c \in Conns, Forget(c)
  PROVE  /\ at'[c] = "waiting" /\ msg'[c] = Nothing /\ next'[c] = 1
         /\ \A d \in Conns \ {c} : at'[d] = at[d] /\ msg'[d] = msg[d] /\ next'[d] = next[d]
BY DEF Forget, TypeOK

(* What the exchange sends goes on from the last trade executed; only what *)
(* is not readable to its end stops short of the new last one.             *)
Sends(c, m) ==
  /\ Arrives(c, m)
  /\ garbled \subseteq garbled'
  /\ Real(m) => /\ c = ConnOf[m.sym] /\ m.lo = traded[m.sym] + 1
                /\ m.hi <= traded'[m.sym]
  /\ \A s \in Symbols :
       /\ traded[s] <= traded'[s]
       /\ s \notin garbled' => IF Real(m) /\ m.sym = s THEN m.hi = traded'[s]
                                                      ELSE traded'[s] = traded[s]

LEMMA ExchangeSends ==
  ASSUME TypeOK, Exchange
  PROVE  \/ \E s \in Symbols : Miss(s)
         \/ \E c \in Conns : \E m \in Messages : Sends(c, m)
<1>t. \A s \in Symbols : /\ traded[s] \in Nat /\ traded[s] + 1 \in Nat
                         /\ MaxTrades[s] \in Nat /\ ConnOf[s] \in Conns
  BY FeedAssumption DEF TypeOK
<1>1. ASSUME NEW s \in Symbols, NEW hi \in 1 .. MaxTrades[s], Publish(s, hi)
      PROVE  \E c \in Conns : \E m \in Messages : Sends(c, m)
  <2> DEFINE m == Message(s, traded[s] + 1, hi, "end")
  <2>1. hi \in Nat /\ traded[s] + 1 <= hi
    BY <1>1, <1>t DEF Publish
  <2>2. m \in Messages /\ m.sym = s /\ m.lo = traded[s] + 1 /\ m.hi = hi
    BY <1>t, <2>1 DEF Message, Messages
  <2>3. traded'[s] = hi /\ \A r \in Symbols \ {s} : traded'[r] = traded[r]
    BY <1>1 DEF Publish, TypeOK
  <2>4. Arrives(ConnOf[s], m) /\ garbled' = garbled
    BY <1>1 DEF Publish
  <2> HIDE DEF m
  <2>5. Sends(ConnOf[s], m)
    BY <1>t, <2>1, <2>2, <2>3, <2>4 DEF Sends, Real
  <2> QED
    BY <1>t, <2>2, <2>5
<1>2. ASSUME NEW s \in Symbols, NEW hi \in 1 .. MaxTrades[s], NEW k \in 0 .. hi,
             NEW tail \in {"end", "raise"}, PublishGarbled(s, hi, k, tail)
      PROVE  \E c \in Conns : \E m \in Messages : Sends(c, m)
  <2> DEFINE m == Message(s, traded[s] + 1, k, tail)
  <2>1. hi \in Nat /\ k \in Nat /\ k <= hi /\ traded[s] + 1 <= hi
    BY <1>2, <1>t DEF PublishGarbled
  <2>2. m \in Messages /\ m.sym = s /\ m.lo = traded[s] + 1 /\ m.hi = k
    BY <1>t, <2>1 DEF Message, Messages
  <2>3. traded'[s] = hi /\ \A r \in Symbols \ {s} : traded'[r] = traded[r]
    BY <1>2 DEF PublishGarbled, TypeOK
  <2>4. Arrives(ConnOf[s], m) /\ garbled' = garbled \cup {s}
    BY <1>2 DEF PublishGarbled
  <2> HIDE DEF m
  <2>5. Sends(ConnOf[s], m)
    BY <1>t, <2>1, <2>2, <2>3, <2>4 DEF Sends, Real
  <2> QED
    BY <1>t, <2>2, <2>5
<1>3. ASSUME NEW c \in Conns, Chatter(c)
      PROVE  \E m \in Messages : Sends(c, m)
  <2>1. Arrives(c, Nothing) /\ traded' = traded /\ garbled' = garbled
    BY <1>3 DEF Chatter
  <2>2. Sends(c, Nothing)
    BY <1>t, <2>1, NothingIsEmpty DEF Sends
  <2> QED
    BY <2>2, NothingIsEmpty
<1> QED
  BY <1>1, <1>2, <1>3 DEF Exchange

(* The steps of a connection that only change its phase. *)
Turns(c) == Connect(c) \/ Subscribe(c) \/ Refused(c) \/ Break(c) \/ Closed(c) \/ Redial(c)

(* A step of the system, as the proofs go through them. *)
LEMMA StepCases ==
  ASSUME TypeOK, [Next]_vars
  PROVE  \/ \E s \in Symbols : Miss(s)
         \/ \E c \in Conns : \E m \in Messages : Sends(c, m)
         \/ \E c \in Conns : \/ Turns(c) \/ Read(c) \/ Detect(c) \/ Alerted(c)
                             \/ (Process(c) \/ Warned(c)) /\ Added(c)
                             \/ FinishMessage(c) \/ MessageRaises(c)
         \/ UNCHANGED <<net, task, bar, ghost>>
<1>1. CASE Exchange
  BY <1>1, ExchangeSends
<1>2. CASE \E c \in Conns : Reader(c) \/ Line(c)
  BY <1>2, AggregateAdds DEF Reader, Line, Turns, Process, Warned
<1>3. CASE \/ \E key \in cooling : CoolDown(key)
           \/ Refresh \/ UNCHANGED vars
  BY <1>3 DEF CoolDown, Refresh, vars, radar
<1> QED
  BY <1>1, <1>2, <1>3 DEF Next

-----------------------------------------------------------------------------
(* The connections.                                                        *)

LEMMA QuietNext ==
  ASSUME TypeOK, \A c \in Conns : Quiet(c), [Next]_vars, NEW d \in Conns
  PROVE  Quiet(d)'
<1>1. ASSUME NEW c \in Conns, Turns(c) PROVE Quiet(d)'
  BY <1>1 DEF Turns, Connect, Subscribe, Refused, Break, Closed, Redial, task, Quiet, HasTrade, TypeOK
<1>2. ASSUME NEW c \in Conns, NEW m \in Messages, Sends(c, m) PROVE Quiet(d)'
  BY <1>2 DEF Sends, Arrives, task, Quiet, HasTrade, TypeOK
<1>3. ASSUME NEW s \in Symbols, Miss(s) PROVE Quiet(d)'
  BY <1>3 DEF Miss, net, task, Quiet, HasTrade
<1>4. ASSUME NEW c \in Conns, Read(c) PROVE Quiet(d)'
  BY <1>4 DEF Read, Quiet, HasTrade, TypeOK
<1>5. ASSUME NEW c \in Conns, Process(c) \/ Warned(c), Added(c) PROVE Quiet(d)'
  <2>1. at[c] # "waiting"
    BY <1>5 DEF Process, Warned
  <2>2. HasTrade(c)
    BY <1>5 DEF Process, Warned, Quiet
  <2> QED
    BY <1>5, <2>1, <2>2 DEF Added, Quiet, HasTrade
<1>6. ASSUME NEW c \in Conns, Detect(c) PROVE Quiet(d)'
  BY <1>6 DEF Detect, net, Quiet, HasTrade, TypeOK
<1>7. ASSUME NEW c \in Conns, Alerted(c) PROVE Quiet(d)'
  BY <1>7 DEF Alerted, NextTrade, net, Quiet, HasTrade, TypeOK
<1>8. ASSUME NEW c \in Conns, FinishMessage(c) PROVE Quiet(d)'
  <2>1. Forget(c) /\ phase' = phase /\ inbox' = inbox
    BY <1>8 DEF FinishMessage
  <2>2. at[c] # "waiting"
    BY <1>8 DEF FinishMessage
  <2> QED
    BY <2>1, <2>2, ForgetsAll DEF Quiet, HasTrade
<1>9. ASSUME NEW c \in Conns, MessageRaises(c) PROVE Quiet(d)'
  <2>1. Forget(c)
    BY <1>9 DEF MessageRaises
  <2>2. /\ inbox'[c] = <<>> 
        /\ \A e \in Conns \ {c} : inbox'[e] = inbox[e] /\ phase'[e] = phase[e]
    BY <1>9 DEF MessageRaises, TypeOK
  <2> QED
    BY <2>1, <2>2, ForgetsAll DEF Quiet, HasTrade
<1>10. ASSUME UNCHANGED <<net, task>> PROVE Quiet(d)'
  BY <1>10 DEF net, task, Quiet, HasTrade
<1> QED
  BY <1>1, <1>2, <1>3, <1>4, <1>5, <1>6, <1>7, <1>8, <1>9, <1>10, StepCases

LEMMA RoutedNext ==
  ASSUME TypeOK, \A c \in Conns : Quiet(c) /\ Routed(c), [Next]_vars, NEW d \in Conns
  PROVE  Routed(d)'
<1>t. \A m \in Messages : m.sym \in Symbols /\ m.lo \in Nat /\ m.hi \in Nat
  BY DEF Messages
<1>q. /\ inbox \in [Conns -> Seq(Messages)] /\ msg \in [Conns -> Messages]
      /\ next \in [Conns -> Nat] /\ traded \in [Symbols -> Nat]
      /\ traded' \in [Symbols -> Nat]
  BY NextType DEF TypeOK
<1>m. ASSUME UNCHANGED <<inbox, msg, next>>, \A s \in Symbols : traded[s] <= traded'[s]
      PROVE  Routed(d)'
  BY <1>m, <1>t, <1>q DEF Routed, Real
<1>1. ASSUME NEW c \in Conns, Turns(c) PROVE Routed(d)'
  <2>1. UNCHANGED <<inbox, msg, next, traded>>
    BY <1>1 DEF Turns, Connect, Subscribe, Refused, Break, Closed, Redial, task, ghost
  <2> QED
    BY <2>1, <1>m, <1>q
<1>2. ASSUME NEW c \in Conns, NEW m \in Messages, Sends(c, m) PROVE Routed(d)'
  <2>1. UNCHANGED <<msg, next>> /\ \A s \in Symbols : traded[s] <= traded'[s]
    BY <1>2 DEF Sends, Arrives, task
  <2>2. ASSUME NEW i \in DOMAIN inbox'[d], Real(inbox'[d][i])
        PROVE  /\ ConnOf[inbox'[d][i].sym] = d
               /\ inbox'[d][i].hi <= traded'[inbox'[d][i].sym]
    <3>1. CASE d = c /\ i = Len(inbox[c]) + 1
      <4>1. inbox'[d][i] = m
        BY <1>2, <1>q, <3>1 DEF Sends, Arrives
      <4> QED
        BY <1>2, <2>2, <3>1, <4>1 DEF Sends
    <3>2. CASE i \in DOMAIN inbox[d] /\ inbox'[d][i] = inbox[d][i]
      <4>1. inbox[d][i] \in Messages
        BY <1>q, <3>2
      <4> QED
        BY <2>1, <2>2, <3>2, <4>1, <1>t, <1>q DEF Routed
    <3>3. inbox' = [inbox EXCEPT ![c] = Append(inbox[c], m)]
      BY <1>2 DEF Sends, Arrives
    <3> QED
      BY <1>q, <3>1, <3>2, <3>3
  <2> QED
    BY <2>1, <2>2, <1>t, <1>q DEF Routed, Real
<1>3. ASSUME NEW s \in Symbols, Miss(s) PROVE Routed(d)'
  BY <1>3, <1>m, <1>q DEF Miss, net, task
<1>4. ASSUME NEW c \in Conns, Read(c) PROVE Routed(d)'
  <2>1. traded' = traded
    BY <1>4 DEF Read, ghost
  <2>2. CASE d # c
    BY <1>4, <1>q, <2>1, <2>2 DEF Read, Routed
  <2>3. CASE d = c
    <3>1. /\ inbox'[c] = Tail(inbox[c]) /\ msg'[c] = inbox[c][1] /\ next'[c] = inbox[c][1].lo
          /\ 1 \in DOMAIN inbox[c]
          /\ inbox[c][1] \in Messages
      BY <1>4, <1>q DEF Read
    <3>2. \A i \in DOMAIN Tail(inbox[c]) :
            i + 1 \in DOMAIN inbox[c] /\ Tail(inbox[c])[i] = inbox[c][i + 1]
      BY <1>4, <1>q DEF Read
    <3>3. \A i \in DOMAIN inbox'[c] : Real(inbox'[c][i]) =>
            /\ ConnOf[inbox'[c][i].sym] = c
            /\ inbox'[c][i].hi <= traded'[inbox'[c][i].sym]
      BY <2>1, <3>1, <3>2 DEF Routed
    <3>4. Real(msg'[c]) =>
            /\ ConnOf[msg'[c].sym] = c
            /\ next'[c] <= msg'[c].hi + 1
            /\ msg'[c].hi <= traded'[msg'[c].sym]
      BY <2>1, <3>1, <1>t DEF Routed, Real
    <3>5. msg'[c].lo <= next'[c]
      BY <3>1, <1>t
    <3> QED
      BY <2>3, <3>3, <3>4, <3>5 DEF Routed
  <2> QED
    BY <2>2, <2>3
<1>5. ASSUME NEW c \in Conns, Process(c) \/ Warned(c), Added(c) PROVE Routed(d)'
  <2>1. HasTrade(c)
    BY <1>5 DEF Process, Warned, Quiet
  <2>2. /\ UNCHANGED <<inbox, msg, traded>>
        /\ next'[d] = next[d] \/ (d = c /\ next'[d] = next[d] + 1)
    BY <1>5 DEF Added
  <2> QED
    BY <2>1, <2>2, <1>t, <1>q DEF Routed, HasTrade, Real
<1>6. ASSUME NEW c \in Conns, Detect(c) PROVE Routed(d)'
  BY <1>6, <1>m, <1>q DEF Detect, net, ghost
<1>7. ASSUME NEW c \in Conns, Alerted(c) PROVE Routed(d)'
  <2>1. HasTrade(c)
    BY <1>7 DEF Alerted, Quiet
  <2>2. /\ UNCHANGED <<inbox, msg, traded>>
        /\ next'[d] = next[d] \/ (d = c /\ next'[d] = next[d] + 1)
    BY <1>7, <1>q DEF Alerted, NextTrade, net, ghost
  <2> QED
    BY <2>1, <2>2, <1>t, <1>q DEF Routed, HasTrade, Real
<1>8. ASSUME NEW c \in Conns, FinishMessage(c) \/ MessageRaises(c) PROVE Routed(d)'
  <2>1. Forget(c) /\ traded' = traded
    BY <1>8 DEF FinishMessage, MessageRaises, ghost
  <2>2. inbox'[d] = inbox[d] \/ inbox'[d] = <<>>
    BY <1>8, <1>q DEF FinishMessage, MessageRaises
  <2> QED
    BY <2>1, <2>2, ForgetsAll, NothingIsEmpty DEF Routed
<1>9. ASSUME UNCHANGED <<net, task, bar, ghost>> PROVE Routed(d)'
  BY <1>9, <1>m, <1>q DEF net, task, ghost
<1> QED
  BY <1>1, <1>2, <1>3, <1>4, <1>5, <1>6, <1>7, <1>8, <1>9, StepCases

-----------------------------------------------------------------------------
(* The symbols.                                                            *)

(* A step in which nothing happens to the trades of s that are buffered,   *)
(* worked on or closed; the open bar may be discarded.                     *)
Untouched(s) ==
  LET c == ConnOf[s] IN
  /\ Of(s)' = Of(s) /\ \A i \in Of(s) : In(s, i)' = In(s, i)
  /\ Len(inbox[c]) <= Len(inbox'[c])
  /\ Reading(s)' = Reading(s)
  /\ Reading(s) => /\ msg'[c] = msg[c] /\ next'[c] = next[c]
                   /\ at'[c] = "alerting" <=> at[c] = "alerting"
  /\ closed'[s] = closed[s]
  /\ bar'[s] \in {bar[s], NoBar}
  /\ traded[s] <= traded'[s]

(* Its connection does not begin to subscribe or read meanwhile, and no    *)
(* trade of s is executed while it reads.                                  *)
Steady(s) ==
  LET c == ConnOf[s] IN
  /\ phase'[c] = "reading" => phase[c] = "reading" /\ traded'[s] = traded[s]
  /\ phase'[c] = "subscribing" => phase[c] = "subscribing" \/ bar'[s] = NoBar

(* The types of what the invariants of one symbol talk about. *)
LEMMA TypesOf ==
  ASSUME TypeOK, NEW s \in Symbols
  PROVE  LET c == ConnOf[s] IN
         /\ c \in Conns
         /\ inbox[c] \in Seq(Messages) /\ Len(inbox[c]) \in Nat
         /\ DOMAIN inbox[c] = 1 .. Len(inbox[c])
         /\ \A i \in DOMAIN inbox[c] : /\ i \in Nat /\ inbox[c][i] \in Messages
                                       /\ inbox[c][i].sym \in Symbols
                                       /\ inbox[c][i].lo \in Nat /\ inbox[c][i].hi \in Nat
         /\ msg[c] \in Messages /\ msg[c].sym \in Symbols
         /\ msg[c].lo \in Nat /\ msg[c].hi \in Nat
         /\ next[c] \in Nat /\ traded[s] \in Nat
         /\ bar[s] \in Bars /\ bar[s].n \in Nat /\ bar[s].first \in Nat /\ bar[s].last \in Nat
         /\ closed[s] \in Bars
         /\ closed[s].n \in Nat /\ closed[s].first \in Nat /\ closed[s].last \in Nat
<1> DEFINE c == ConnOf[s]
<1>1. c \in Conns
  BY FeedAssumption
<1>2. inbox[c] \in Seq(Messages) /\ msg[c] \in Messages /\ next[c] \in Nat
  BY <1>1 DEF TypeOK
<1>3. bar[s] \in Bars /\ closed[s] \in Bars /\ traded[s] \in Nat
  BY DEF TypeOK
<1>4. \A m \in Messages : m.sym \in Symbols /\ m.lo \in Nat /\ m.hi \in Nat
  BY DEF Messages
<1>5. \A b \in Bars : b.n \in Nat /\ b.first \in Nat /\ b.last \in Nat
  BY DEF Bars
<1>6. Len(inbox[c]) \in Nat /\ DOMAIN inbox[c] = 1 .. Len(inbox[c])
  BY <1>2
<1>7. \A i \in DOMAIN inbox[c] : i \in Nat /\ inbox[c][i] \in Messages
  BY <1>2, <1>6
<1> QED
  BY <1>1, <1>2, <1>3, <1>4, <1>5, <1>6, <1>7

LEMMA StaysPut ==
  ASSUME NEW s, inbox'[ConnOf[s]] = inbox[ConnOf[s]], msg'[ConnOf[s]] = msg[ConnOf[s]]
  PROVE  /\ Of(s)' = Of(s) /\ \A i : In(s, i)' = In(s, i)
         /\ Reading(s)' = Reading(s)
BY DEF Of, In, Reading

(* Such a step keeps what is known of s. *)
LEMMA UntouchedAscends ==
  ASSUME TypeOK, TypeOK', NEW s \in Symbols, Ascending(s), Untouched(s)
  PROVE  Ascending(s)'
<1> DEFINE c == ConnOf[s]
<1>1. Of(s)' = Of(s) /\ \A i \in Of(s) : In(s, i)' = In(s, i)
  BY DEF Untouched
<1>2. Reading(s)' = Reading(s)
  BY DEF Untouched
<1>3. Reading(s) => msg'[c] = msg[c] /\ next'[c] = next[c]
  BY DEF Untouched
<1>4. Reading(s) => (at'[c] = "alerting" <=> at[c] = "alerting")
  BY DEF Untouched
<1>5. Sequenced(s) /\ Passed(s) /\ closed'[s] = closed[s]
  BY DEF Untouched, Ascending
<1>6. Sequenced(s)'
  <2>1. \A i, j \in Of(s)' : i < j => In(s, i)'.hi < In(s, j)'.lo
    BY <1>1, <1>5 DEF Sequenced
  <2>2. Reading(s)' => \A i \in Of(s)' : msg'[c].hi < In(s, i)'.lo
    BY <1>1, <1>2, <1>3, <1>5 DEF Sequenced
  <2> QED
    BY <2>1, <2>2 DEF Sequenced
<1>7. closed'[s].last <= traded'[s]
  <2>1. closed[s].last \in Nat /\ traded[s] \in Nat /\ traded'[s] \in Nat
    BY TypesOf DEF TypeOK
  <2> QED
    BY <1>5, <2>1 DEF Untouched, Passed
<1>8. bar'[s].n > 0 => closed'[s].last < bar'[s].first
  BY <1>5, NoBarIsBar DEF Untouched, Passed
<1>9. \A i \in Of(s)' : closed'[s].last < In(s, i)'.lo
  BY <1>1, <1>5 DEF Passed
<1>10. Reading(s)' => IF at'[c] = "alerting" THEN closed'[s].last <= next'[c]
                                            ELSE closed'[s].last < next'[c]
  BY <1>2, <1>3, <1>4, <1>5 DEF Passed
<1>11. Passed(s)'
  BY <1>7, <1>8, <1>9, <1>10 DEF Passed
<1> QED
  BY <1>6, <1>11 DEF Ascending

LEMMA UntouchedGapless ==
  ASSUME TypeOK, TypeOK', NEW s \in Symbols, Gapless(s), Untouched(s), Steady(s)
  PROVE  Gapless(s)'
<1> DEFINE c == ConnOf[s]
<1>1. Of(s)' = Of(s) /\ \A i \in Of(s) : In(s, i)' = In(s, i)
  BY DEF Untouched
<1>2. Reading(s)' = Reading(s)
  BY DEF Untouched
<1>3. Reading(s) => msg'[c] = msg[c] /\ next'[c] = next[c]
  BY DEF Untouched
<1>4. Reading(s) => (at'[c] = "alerting" <=> at[c] = "alerting")
  BY DEF Untouched
<1>5. bar'[s] = bar[s] \/ bar'[s] = NoBar
  BY DEF Untouched
<1>6. \A n : Due(s, n) => Due(s, n)'
  <2>1. ASSUME NEW n, Due(s, n) PROVE Due(s, n)'
    <3>1. CASE Reading(s)
      BY <1>2, <1>3, <2>1, <3>1 DEF Due
    <3>2. CASE ~Reading(s)
      BY <1>2, <1>5, <2>1, <3>2, NoBarIsBar DEF Due
    <3> QED
      BY <3>1, <3>2
  <2> QED
    BY <2>1
<1>7. Linked(s)'
  <2>1. \A j, n : After(s, j, n) => After(s, j, n)'
    BY <1>1, <1>6 DEF After
  <2> QED
    BY <1>1, <2>1 DEF Gapless, Linked
<1>8. Reaches(s)'
  <2>1. Len(inbox'[c]) \in Nat /\ Len(inbox[c]) \in Nat /\ Len(inbox[c]) <= Len(inbox'[c])
    <3>1. c \in Conns
      BY FeedAssumption
    <3>2. inbox'[c] \in Seq(Messages) /\ inbox[c] \in Seq(Messages)
      BY <3>1 DEF TypeOK
    <3>3. Len(inbox[c]) <= Len(inbox'[c])
      BY DEF Untouched
    <3> HIDE DEF c
    <3> QED
      BY <3>2, <3>3
  <2>2. \A i \in Of(s) : i < Len(inbox[c]) + 1 /\ i < Len(inbox'[c]) + 1
    BY <2>1, TypesOf DEF Of
  <2>3. ASSUME phase'[c] = "reading" PROVE After(s, Len(inbox[c]) + 1, traded[s] + 1)'
    <3>1. phase[c] = "reading" /\ traded'[s] = traded[s]
      BY <2>3 DEF Steady
    <3> DEFINE j == Len(inbox[c]) + 1
               k == Len(inbox'[c]) + 1
               n == traded[s] + 1
    <3>2. After(s, j, n)
      BY <3>1 DEF Gapless, Reaches
    <3>3. \A i \in Of(s) : i < j /\ i < k
      BY <2>2
    <3> HIDE DEF j, k, n
    <3>4. CASE \E i \in Of(s) : TRUE
      <4>1. \E i \in Of(s) : i < j /\ In(s, i).hi + 1 = n
        BY <3>2, <3>3, <3>4 DEF After
      <4>2. \E i \in Of(s)' : i < k /\ In(s, i)'.hi + 1 = n
        BY <1>1, <3>3, <4>1
      <4> QED
        BY <3>1, <4>2 DEF After, k, n
    <3>5. CASE Of(s) = {}
      <4>1. Due(s, n)
        BY <3>2, <3>5 DEF After
      <4>2. CASE Reading(s)
        BY <1>1, <1>2, <1>3, <3>1, <3>5, <4>1, <4>2 DEF After, Due, n
      <4>3. CASE ~Reading(s)
        BY <1>1, <1>2, <1>5, <3>1, <3>5, <4>1, <4>3, NoBarIsBar DEF After, Due, n
      <4> QED
        BY <4>2, <4>3
    <3> QED
      BY <3>4, <3>5
  <2> QED
    BY <2>3 DEF Reaches
<1>9. InLine(s)'
  BY <1>2, <1>3, <1>4, <1>5, NoBarIsBar DEF Gapless, InLine
<1>10. Fresh(s)' /\ Contiguous(bar[s])' /\ Contiguous(closed[s])'
  BY NoBarIsBar DEF Untouched, Steady, Gapless, Fresh, Contiguous
<1> QED
  BY <1>7, <1>8, <1>9, <1>10 DEF Gapless

(* The line turns: a new connection begins with an empty buffer and, as    *)
(* all open bars are discarded when it is made, nothing to go on from.     *)
LEMMA TurnsKeep ==
  ASSUME TypeOK, TypeOK', NEW s \in Symbols, NEW c \in Conns, Quiet(c), Turns(c)
  PROVE  /\ Ascending(s) => Ascending(s)'
         /\ Gapless(s) => Gapless(s)'
<1>t. DOMAIN phase = Conns /\ ConnOf[s] \in Conns
  BY FeedAssumption DEF TypeOK
<1>1. UNCHANGED <<inbox, msg, at, next, traded, closed>>
  BY DEF Turns, Connect, Subscribe, Refused, Break, Closed, Redial, task, ghost
<1>2. bar'[s] \in {bar[s], NoBar} /\ (Connect(c) => bar'[s] = NoBar)
  BY DEF Turns, Connect, Subscribe, Refused, Break, Closed, Redial, radar, NoBars
<1>3. Untouched(s)
  <2>1. Len(inbox[ConnOf[s]]) \in Nat /\ traded[s] \in Nat
    BY TypesOf
  <2> QED
    BY <1>1, <1>2, <2>1, StaysPut DEF Untouched
<1>4. CASE Subscribe(c) /\ ConnOf[s] = c
  <2>1. Of(s)' = {} /\ ~Reading(s)'
    <3>1. inbox'[c] = <<>> /\ msg'[c] = Nothing
      BY <1>1, <1>4 DEF Subscribe, Quiet
    <3> QED
      BY <1>4, <3>1, NothingIsEmpty DEF Of, Reading
  <2>2. phase'[c] = "reading" /\ bar' = bar
    BY <1>4, <1>t DEF Subscribe, radar
  <2>3. Gapless(s) => bar[s].n = 0
    BY <1>4 DEF Subscribe, Gapless, Fresh
  <2>4. ASSUME Gapless(s) PROVE Gapless(s)'
    <3>1. InLine(s)' /\ Linked(s)'
      BY <2>1 DEF InLine, Linked
    <3>2. Reaches(s)'
      BY <2>1, <2>2, <2>3, <2>4 DEF Reaches, After, Due
    <3> QED
      BY <1>1, <1>4, <2>2, <2>4, <3>1, <3>2 DEF Gapless, Fresh
  <2> QED
    BY <1>3, <2>4, UntouchedAscends
<1>5. CASE ~(Subscribe(c) /\ ConnOf[s] = c)
  <2>1. Steady(s)
    <3>1. CASE Connect(c)
      BY <1>1, <1>2, <1>t, <3>1 DEF Connect, Steady
    <3>2. CASE ~Connect(c)
      BY <1>1, <1>5, <1>t, <3>2 DEF Turns, Subscribe, Refused, Break, Closed, Redial, Steady
    <3> QED
      BY <3>1, <3>2
  <2> QED
    BY <1>3, <2>1, UntouchedAscends, UntouchedGapless
<1> QED
  BY <1>4, <1>5

(* Trades nobody listens to. *)
LEMMA MissKeeps ==
  ASSUME TypeOK, TypeOK', NEW s \in Symbols, NEW r \in Symbols, Miss(r)
  PROVE  /\ Ascending(s) => Ascending(s)'
         /\ Gapless(s) => Gapless(s)'
<1>1. UNCHANGED <<phase, inbox, msg, at, next, bar, closed>>
  BY DEF Miss, net, task, radar
<1>2. traded[s] <= traded'[s] /\ (phase[ConnOf[s]] = "reading" => traded'[s] = traded[s])
  <2>1. traded[s] \in Nat /\ traded'[s] = IF s = r THEN traded[s] + 1 ELSE traded[s]
    BY DEF Miss, TypeOK
  <2> QED
    BY <2>1 DEF Miss
<1>3. Len(inbox[ConnOf[s]]) \in Nat
  BY TypesOf
<1>4. Untouched(s) /\ Steady(s)
  BY <1>1, <1>2, <1>3, StaysPut DEF Untouched, Steady
<1> QED
  BY <1>4, UntouchedAscends, UntouchedGapless

(* A message is sent.  It goes on where the buffer ends. *)
LEMMA SendsKeeps ==
  ASSUME TypeOK, TypeOK', NEW s \in Symbols, NEW c \in Conns, NEW m \in Messages,
         Routed(ConnOf[s]), Sends(c, m)
  PROVE  /\ Ascending(s) => Ascending(s)'
         /\ s \notin garbled' /\ Gapless(s) => Gapless(s)'
<1> DEFINE q == inbox[ConnOf[s]]
<1>0. PICK L \in Nat : L = Len(q)
  BY TypesOf
<1>1. UNCHANGED <<phase, at, msg, next, bar, closed>> /\ phase[c] = "reading"
  BY DEF Sends, Arrives, task, radar
<1>2. Reading(s)' = Reading(s)
  BY <1>1 DEF Reading
<1>3. L \in Nat /\ Of(s) \subseteq 1 .. L /\ traded[s] \in Nat /\ traded'[s] \in Nat
  BY <1>0, TypesOf DEF Of, TypeOK
<1>4. m.sym \in Symbols /\ m.lo \in Nat /\ m.hi \in Nat
  BY DEF Messages
<1>5. inbox'[ConnOf[s]] = IF ConnOf[s] = c THEN Append(q, m) ELSE q
  BY FeedAssumption DEF Sends, Arrives, TypeOK
<1>6. q \in Seq(Messages)
  BY TypesOf
<1>7. traded[s] <= traded'[s]
  BY DEF Sends
<1>8. CASE ~(Real(m) /\ m.sym = s)
  <2>1. Of(s)' = Of(s) /\ \A i \in Of(s) : In(s, i)' = In(s, i)
    <3>1. CASE ConnOf[s] = c
      <4>1. /\ DOMAIN inbox'[ConnOf[s]] = 1 .. L + 1 /\ inbox'[ConnOf[s]][L + 1] = m
            /\ \A i \in 1 .. L : inbox'[ConnOf[s]][i] = q[i]
        BY <1>5, <1>6, <1>0, <3>1
      <4>2. DOMAIN q = 1 .. L
        BY <1>6, <1>0
      <4>3. \A i : i \in Of(s)' <=> i \in Of(s)
        BY <1>3, <1>8, <4>1, <4>2 DEF Of
      <4> QED
        BY <1>3, <4>1, <4>3 DEF In
    <3>2. CASE ConnOf[s] # c
      BY <1>5, <3>2 DEF Of, In
    <3> QED
      BY <3>1, <3>2
  <2>2. L <= Len(inbox'[ConnOf[s]])
    BY <1>3, <1>5, <1>6, <1>0
  <2>3. Untouched(s)
    BY <1>0, <1>1, <1>2, <1>7, <2>1, <2>2 DEF Untouched
  <2>4. s \notin garbled' => Steady(s)
    BY <1>1, <1>8 DEF Sends, Steady
  <2> QED
    BY <2>3, <2>4, UntouchedAscends, UntouchedGapless
<1>9. CASE Real(m) /\ m.sym = s
  <2>1. c = ConnOf[s] /\ m.lo = traded[s] + 1 /\ m.hi <= traded'[s]
    BY <1>9 DEF Sends
  <2>2. /\ DOMAIN inbox'[c] = 1 .. L + 1 /\ inbox'[c][L + 1] = m
        /\ \A i \in 1 .. L : inbox'[c][i] = q[i]
        /\ Len(inbox'[c]) = L + 1
    BY <1>5, <1>6, <1>0, <2>1
  <2>3. DOMAIN q = 1 .. L
    BY <1>6, <1>0
  <2>4. /\ Of(s)' = Of(s) \cup {L + 1}
        /\ \A i \in Of(s) : In(s, i)' = In(s, i) /\ i < L + 1 /\ i \in Nat
        /\ In(s, L + 1)' = m
    <3>1. \A i : i \in Of(s)' <=> i \in Of(s) \/ i = L + 1
      BY <1>3, <1>9, <2>1, <2>2, <2>3 DEF Of
    <3>2. \A i \in Of(s) : In(s, i)' = In(s, i)
      BY <1>3, <2>1, <2>2 DEF In
    <3>3. In(s, L + 1)' = m
      BY <2>1, <2>2 DEF In
    <3>4. \A i \in Of(s) : i < L + 1 /\ i \in Nat
      BY <1>3
    <3> QED
      BY <3>1, <3>2, <3>3, <3>4
  <2>5. \A i \in Of(s) : In(s, i).hi < m.lo /\ In(s, i).hi \in Nat
    <3>1. \A i \in Of(s) : In(s, i).hi \in Nat /\ In(s, i).hi <= traded[s]
      BY TypesOf DEF Routed, Of, In
    <3> QED
      BY <1>3, <2>1, <3>1
  <2>6. Reading(s) => msg[c].hi < m.lo
    <3>1. Reading(s) => msg[c].hi \in Nat /\ msg[c].hi <= traded[s]
      BY <2>1, TypesOf DEF Routed, Reading
    <3> QED
      BY <1>3, <2>1, <3>1
  <2> HIDE DEF q
  <2>7. ASSUME Ascending(s) PROVE Ascending(s)'
    <3>1. \A i, j \in Of(s)' : i < j => In(s, i)'.hi < In(s, j)'.lo
      BY <1>3, <2>4, <2>5, <2>7 DEF Ascending, Sequenced
    <3>2. Reading(s)' => \A i \in Of(s)' : msg'[c].hi < In(s, i)'.lo
      BY <1>1, <1>2, <2>1, <2>4, <2>6, <2>7 DEF Ascending, Sequenced
    <3>3. closed[s].last \in Nat
      BY TypesOf
    <3>4. closed'[s].last <= traded'[s] /\ closed[s].last < m.lo
      BY <1>1, <1>3, <1>7, <2>1, <2>7, <3>3 DEF Ascending, Passed
    <3>5. \A i \in Of(s)' : closed'[s].last < In(s, i)'.lo
      BY <1>1, <2>4, <2>7, <3>4 DEF Ascending, Passed
    <3>6. /\ Reading(s)' => IF at'[c] = "alerting" THEN closed'[s].last <= next'[c]
                                                  ELSE closed'[s].last < next'[c]
          /\ bar'[s].n > 0 => closed'[s].last < bar'[s].first
      BY <1>1, <1>2, <2>1, <2>7 DEF Ascending, Passed
    <3> QED
      BY <2>1, <3>1, <3>2, <3>4, <3>5, <3>6 DEF Ascending, Sequenced, Passed
  <2>8. ASSUME s \notin garbled', Gapless(s) PROVE Gapless(s)'
    <3>1. m.hi = traded'[s]
      BY <1>9, <2>8 DEF Sends
    <3>2. \A n : Due(s, n)' <=> Due(s, n)
      BY <1>1, <1>2 DEF Due
    <3>3. Linked(s)'
      <4>1. \A j : j \in Of(s) \/ j = L + 1 => ~(L + 1 < j)
        BY <1>3, <2>4
      <4>2. After(s, L + 1, traded[s] + 1)
        BY <1>1, <1>0, <2>1, <2>8 DEF Gapless, Reaches, q
      <4>3. ASSUME NEW j \in Of(s)' PROVE After(s, j, In(s, j).lo)'
        <5>1. CASE j \in Of(s)
          <6>1. After(s, j, In(s, j).lo)
            BY <2>8, <5>1 DEF Gapless, Linked
          <6> DEFINE n == In(s, j).lo
          <6>2. n = In(s, j)'.lo
            BY <2>4, <5>1
          <6> HIDE DEF n
          <6> QED
            BY <2>4, <3>2, <4>1, <5>1, <6>1, <6>2 DEF After, n
        <5>2. CASE j = L + 1
          <6> QED
            BY <2>1, <2>4, <3>2, <4>2, <5>2 DEF After
        <5> QED
          BY <2>4, <5>1, <5>2
      <4> QED
        BY <4>3 DEF Linked
    <3>4. Reaches(s)'
      <4>1. L + 1 \in Of(s)' /\ L + 1 < Len(inbox'[c]) + 1
        BY <1>3, <2>2, <2>4
      <4>2. In(s, L + 1)'.hi + 1 = traded'[s] + 1
        BY <2>4, <3>1
      <4> QED
        BY <2>1, <4>1, <4>2 DEF Reaches, After
    <3>5. InLine(s)' /\ Fresh(s)' /\ Contiguous(bar[s])' /\ Contiguous(closed[s])'
      BY <1>1, <1>2, <2>8 DEF Gapless, InLine, Fresh, Contiguous
    <3> QED
      BY <3>3, <3>4, <3>5 DEF Gapless
  <2> QED
    BY <2>7, <2>8
<1> QED
  BY <1>8, <1>9

(* The reader takes the head of the buffer, which goes on where the reader *)
(* or the open bar ended. *)
LEMMA ReadKeeps ==
  ASSUME TypeOK, TypeOK', NEW s \in Symbols, NEW c \in Conns, Read(c),
         Quiet(c), Routed(c), Ascending(s)
  PROVE  /\ Ascending(s)'
         /\ Gapless(s) => Gapless(s)'
<1>1. UNCHANGED <<phase, bar, traded, closed>>
  BY DEF Read, radar, ghost
<1>2. CASE ConnOf[s] # c
  <2>1. /\ inbox'[ConnOf[s]] = inbox[ConnOf[s]] /\ msg'[ConnOf[s]] = msg[ConnOf[s]]
        /\ next'[ConnOf[s]] = next[ConnOf[s]] /\ at'[ConnOf[s]] = at[ConnOf[s]]
    BY <1>2, FeedAssumption DEF Read, TypeOK
  <2>2. Len(inbox[ConnOf[s]]) \in Nat /\ traded[s] \in Nat
    BY TypesOf
  <2>3. Untouched(s) /\ Steady(s)
    BY <1>1, <2>1, <2>2, StaysPut DEF Untouched, Steady
  <2> QED
    BY <2>3, UntouchedAscends, UntouchedGapless
<1>3. CASE ConnOf[s] = c
  <2> DEFINE q == inbox[c]
  <2>0. PICK L \in Nat : L = Len(q)
    BY <1>3, TypesOf
  <2>1. q \in Seq(Messages) /\ q # <<>> /\ DOMAIN q = 1 .. L
    BY <1>3, <2>0, TypesOf DEF Read
  <2>2. /\ inbox'[c] = Tail(q) /\ msg'[c] = q[1] /\ next'[c] = q[1].lo /\ at'[c] = "trades"
    BY <1>3, <2>1 DEF Read, TypeOK
  <2>3. /\ Len(Tail(q)) = L - 1 /\ DOMAIN Tail(q) = 1 .. L - 1
        /\ \A i \in 1 .. L - 1 : Tail(q)[i] = q[i + 1]
        /\ 1 \in 1 .. L
    BY <2>0, <2>1
  <2>4. Of(s) \subseteq 1 .. L
    BY <1>3, <2>1 DEF Of
  <2>5. \A i \in Of(s)' : i \in Nat /\ i > 0 /\ i + 1 \in Of(s) /\ In(s, i)' = In(s, i + 1)
    BY <1>3, <2>0, <2>1, <2>2, <2>3 DEF Of, In
  <2>6. \A i \in Of(s) : i \in Nat /\ (i > 1 => i - 1 \in Of(s)')
    BY <1>3, <2>0, <2>1, <2>2, <2>3 DEF Of
  <2>7. ~Reading(s) /\ (Reading(s)' <=> 1 \in Of(s))
    <3>1. ~Real(msg[c])
      BY NothingIsEmpty DEF Read, Quiet
    <3> QED
      BY <1>3, <2>1, <2>2, <2>3, <3>1 DEF Reading, Of
  <2>8. 1 \in Of(s) => msg'[c] = In(s, 1) /\ next'[c] = In(s, 1).lo
    BY <1>3, <2>2 DEF In
  <2>9. \A i \in Of(s) : /\ In(s, i).lo \in Nat /\ In(s, i).hi \in Nat
                         /\ In(s, i).lo <= In(s, i).hi /\ In(s, i).hi <= traded[s]
    BY <1>3, TypesOf DEF Routed, Of, In, Real
  <2>10. \A i, j \in Of(s) : i < j => In(s, i).hi < In(s, j).lo
    BY DEF Ascending, Sequenced
  <2>11. Ascending(s)'
    <3>1. \A i, j \in Of(s)' : i < j => In(s, i)'.hi < In(s, j)'.lo
      BY <2>5, <2>10
    <3>2. Reading(s)' => \A i \in Of(s)' : msg'[c].hi < In(s, i)'.lo
      BY <2>5, <2>7, <2>8, <2>10
    <3>3. \A i \in Of(s)' : closed'[s].last < In(s, i)'.lo
      BY <1>1, <2>5 DEF Ascending, Passed
    <3>4. Reading(s)' => closed'[s].last < next'[c]
      BY <1>1, <2>7, <2>8 DEF Ascending, Passed
    <3>5. closed'[s].last <= traded'[s] /\ (bar'[s].n > 0 => closed'[s].last < bar'[s].first)
      BY <1>1 DEF Ascending, Passed
    <3>6. at'[c] # "alerting"
      BY <2>2
    <3> QED
      BY <1>3, <3>1, <3>2, <3>3, <3>4, <3>5, <3>6 DEF Ascending, Sequenced, Passed
  <2> HIDE DEF q
  <2>12. ASSUME NEW j \in Nat \ {0}, NEW n \in Nat, After(s, j + 1, n),
                \A i \in Of(s) : i < j + 1 => In(s, i).hi < n
         PROVE  After(s, j, n)'
    <3>1. CASE \E i \in Of(s) : i < j + 1 /\ i > 1
      <4>1. PICK k \in Of(s) : k < j + 1 /\ In(s, k).hi + 1 = n
        BY <2>12, <3>1 DEF After
      <4>2. PICK i \in Of(s) : i < j + 1 /\ i > 1
        BY <3>1
      <4>3. k # 1
        <5>1. k = 1 => In(s, k).hi + 1 <= In(s, i).lo
          BY <2>9, <2>10, <4>2
        <5> QED
          BY <2>9, <2>12, <4>1, <4>2, <5>1
      <4>4. k \in Nat /\ k > 1 /\ k - 1 \in Of(s)' /\ k - 1 < j
        <5>1. k > 1
          BY <2>4, <4>3
        <5> QED
          BY <2>6, <4>1, <5>1
      <4>5. In(s, k - 1)' = In(s, k)
        BY <2>5, <4>4
      <4> QED
        BY <4>1, <4>4, <4>5 DEF After
    <3>2. CASE ~\E i \in Of(s) : i < j + 1 /\ i > 1
      <4>1. ~\E i \in Of(s)' : i < j
        BY <2>5, <3>2
      <4>2. Due(s, n)'
        <5>1. CASE 1 \in Of(s)
          <6>1. \E k \in Of(s) : k < j + 1 /\ In(s, k).hi + 1 = n
            BY <2>12, <5>1 DEF After
          <6>2. In(s, 1).hi + 1 = n
            BY <2>4, <3>2, <6>1
          <6> QED
            BY <1>3, <2>7, <2>8, <5>1, <6>2 DEF Due
        <5>2. CASE 1 \notin Of(s)
          <6>1. Due(s, n)
            <7>1. ~\E i \in Of(s) : i < j + 1
              BY <2>4, <3>2, <5>2
            <7> QED
              BY <2>12, <7>1 DEF After
          <6> QED
            BY <1>1, <2>7, <5>2, <6>1 DEF Due
        <5> QED
          BY <5>1, <5>2
      <4> QED
        BY <4>1, <4>2 DEF After
    <3> QED
      BY <3>1, <3>2
  <2>13. ASSUME Gapless(s) PROVE Gapless(s)'
    <3>1. Linked(s)'
      <4>1. ASSUME NEW j \in Of(s)' PROVE After(s, j, In(s, j).lo)'
        <5>1. /\ j \in Nat \ {0} /\ j + 1 \in Of(s) /\ In(s, j)' = In(s, j + 1)
          BY <2>5
        <5>2. PICK n \in Nat : n = In(s, j + 1).lo
          BY <2>9, <5>1
        <5>3. After(s, j + 1, n)
          BY <2>13, <5>1, <5>2 DEF Gapless, Linked
        <5>4. \A i \in Of(s) : i < j + 1 => In(s, i).hi < n
          BY <2>10, <5>1, <5>2
        <5>5. After(s, j, n)'
          BY <2>12, <5>1, <5>3, <5>4
        <5> QED
          BY <5>1, <5>2, <5>5
      <4> QED
        BY <4>1 DEF Linked
    <3>2. Reaches(s)'
      <4>1. ASSUME phase'[c] = "reading"
            PROVE  After(s, Len(inbox[c]) + 1, traded[s] + 1)'
        <5>1. PICK n \in Nat : n = traded[s] + 1
          BY TypesOf
        <5>2. After(s, L + 1, n)
          BY <1>1, <1>3, <2>0, <2>13, <4>1, <5>1 DEF Gapless, Reaches, q
        <5>3. \A i \in Of(s) : i < L + 1 => In(s, i).hi < n
          BY <2>9, <5>1, TypesOf
        <5>4. L \in Nat \ {0}
          BY <2>3
        <5>5. After(s, L, n)'
          BY <2>12, <5>2, <5>3, <5>4
        <5>6. Len(inbox'[c]) + 1 = L /\ traded'[s] + 1 = n
          BY <1>1, <2>2, <2>3, <5>1
        <5> QED
          BY <5>5, <5>6
      <4> QED
        BY <1>3, <4>1 DEF Reaches
    <3>3. InLine(s)'
      <4>1. 1 \in Of(s) /\ bar[s].n > 0 => In(s, 1).lo = bar[s].last + 1
        <5>1. 1 \in Of(s) => After(s, 1, In(s, 1).lo) /\ ~\E i \in Of(s) : i < 1
          BY <2>4, <2>13 DEF Gapless, Linked
        <5> QED
          BY <2>7, <5>1 DEF After, Due
      <4> QED
        BY <1>1, <1>3, <2>2, <2>7, <2>8, <4>1 DEF InLine
    <3>4. Fresh(s)' /\ Contiguous(bar[s])' /\ Contiguous(closed[s])'
      BY <1>1, <2>13 DEF Gapless, Fresh, Contiguous
    <3> QED
      BY <3>1, <3>2, <3>3, <3>4 DEF Gapless
  <2> QED
    BY <2>11, <2>13
<1> QED
  BY <1>2, <1>3

(* A trade of the reader's message joins the open bar of its symbol, which *)
(* ends right before it, and completes it or not. *)
LEMMA AddedKeeps ==
  ASSUME TypeOK, TypeOK', NEW s \in Symbols, NEW c \in Conns,
         Added(c), at[c] \in {"trades", "warning"}, HasTrade(c),
         Quiet(c), Routed(c), Ascending(s)
  PROVE  /\ Ascending(s)'
         /\ Gapless(s) => Gapless(s)'
<1>1. UNCHANGED <<phase, inbox, msg, traded>>
  BY DEF Added
<1>2. /\ Of(s)' = Of(s) /\ \A i : In(s, i)' = In(s, i)
      /\ Reading(s)' = Reading(s)
  BY <1>1 DEF Of, In, Reading
<1>3. Real(msg[c]) /\ next[c] <= msg[c].hi /\ ConnOf[msg[c].sym] = c
  <2>1. msg[c].lo \in Nat /\ msg[c].hi \in Nat /\ next[c] \in Nat
    BY DEF TypeOK, Messages
  <2> QED
    BY <2>1 DEF HasTrade, Routed, Real
<1>4. CASE s # msg[c].sym
  <2>1. bar'[s] = bar[s] /\ closed'[s] = closed[s]
    BY <1>4 DEF Added
  <2>2. Reading(s) => at'[ConnOf[s]] = at[ConnOf[s]] /\ next'[ConnOf[s]] = next[ConnOf[s]]
    BY <1>4, FeedAssumption DEF Added, Reading
  <2>3. Len(inbox[ConnOf[s]]) \in Nat /\ traded[s] \in Nat
    BY TypesOf
  <2>4. Untouched(s) /\ Steady(s)
    BY <1>1, <1>2, <2>1, <2>2, <2>3 DEF Untouched, Steady
  <2> QED
    BY <2>4, UntouchedAscends, UntouchedGapless
<1>5. CASE s = msg[c].sym
  <2>1. ConnOf[s] = c /\ Reading(s) /\ Reading(s)'
    BY <1>2, <1>3, <1>5 DEF Reading
  <2>2. \/ /\ Joined(s, c, bar'[s]) /\ closed'[s] = closed[s]
           /\ at'[c] = "trades" /\ next'[c] = next[c] + 1
        \/ /\ Joined(s, c, closed'[s]) /\ bar'[s] = NoBar
           /\ \/ at'[c] = "trades" /\ next'[c] = next[c] + 1
              \/ at'[c] = "alerting" /\ next'[c] = next[c]
    BY <1>5 DEF Added
  <2>3. /\ next[c] \in Nat /\ msg[c].hi \in Nat /\ traded[s] \in Nat /\ msg[c].hi <= traded[s]
        /\ bar[s].n \in Nat /\ bar[s].first \in Nat /\ bar[s].last \in Nat
        /\ closed[s].last \in Nat
    BY <1>3, <1>5, <2>1, TypesOf DEF Routed
  <2>4. closed[s].last < next[c]
    BY <2>1 DEF Ascending, Passed
  <2>5. \A i \in Of(s) : msg[c].hi < In(s, i).lo /\ closed[s].last < In(s, i).lo
                         /\ In(s, i).lo \in Nat
    BY <2>1, TypesOf DEF Ascending, Sequenced, Passed, Of, In
  <2>6. Sequenced(s)'
    BY <1>1, <1>2 DEF Ascending, Sequenced
  <2>7. closed'[s].last \in {closed[s].last, next[c]}
    BY <2>2 DEF Joined
  <2>8. closed'[s].last <= traded'[s] /\ \A i \in Of(s)' : closed'[s].last < In(s, i)'.lo
    BY <1>1, <1>2, <1>3, <2>3, <2>4, <2>5, <2>7
  <2>9. IF at'[c] = "alerting" THEN closed'[s].last <= next'[c]
                               ELSE closed'[s].last < next'[c]
    BY <2>2, <2>3, <2>4, <2>7
  <2>10. bar'[s].n > 0 => closed'[s].last < bar'[s].first
    <3>1. CASE bar'[s] = NoBar
      BY <3>1, NoBarIsBar
    <3>2. CASE Joined(s, c, bar'[s]) /\ closed'[s] = closed[s]
      BY <2>3, <2>4, <3>2 DEF Joined, Ascending, Passed
    <3> QED
      BY <2>2, <3>1, <3>2
  <2>11. Ascending(s)'
    BY <2>1, <2>6, <2>8, <2>9, <2>10 DEF Ascending, Passed
  <2>12. ASSUME Gapless(s) PROVE Gapless(s)'
    <3>1. \A j, n : After(s, j, n)' <=> After(s, j, n)
      BY <1>1, <1>2, <2>1 DEF After, Due
    <3>2. Linked(s)' /\ Reaches(s)'
      <4>1. Linked(s)'
        BY <1>2, <2>12, <3>1 DEF Gapless, Linked
      <4>2. Reaches(s)'
        BY <1>1, <1>2, <2>1, <2>12 DEF Gapless, Reaches, After, Due
      <4> QED
        BY <4>1, <4>2
    <3>3. bar[s].n > 0 => bar[s].last + 1 = next[c] /\ bar[s].n = bar[s].last - bar[s].first + 1
      BY <2>1, <2>12 DEF Gapless, InLine, Contiguous
    <3>4. \A b : Joined(s, c, b) => Contiguous(b) /\ b.last + 1 = next[c] + 1
      BY <2>3, <3>3 DEF Joined, Contiguous
    <3>5. Contiguous(bar'[s]) /\ Contiguous(closed'[s])
      <4>1. Contiguous(NoBar)
        BY NoBarIsBar DEF Contiguous
      <4>2. Contiguous(closed[s])
        BY <2>12 DEF Gapless
      <4> QED
        BY <2>2, <3>4, <4>1, <4>2
    <3>6. InLine(s)'
      BY <2>1, <2>2, <3>4, NoBarIsBar DEF InLine
    <3>7. Fresh(s)'
      BY <1>1, <2>1 DEF Quiet, Fresh
    <3> QED
      BY <3>2, <3>5, <3>6, <3>7 DEF Gapless, Contiguous
  <2> QED
    BY <2>11, <2>12
<1> QED
  BY <1>4, <1>5

(* A detector's alert is about to be awaited: the trade is not in a bar yet. *)
LEMMA DetectKeeps ==
  ASSUME TypeOK, TypeOK', NEW s \in Symbols, NEW c \in Conns, Detect(c), Ascending(s)
  PROVE  /\ Ascending(s)'
         /\ Gapless(s) => Gapless(s)'
<1>1. UNCHANGED <<phase, inbox, msg, next, bar, traded, closed>>
  BY DEF Detect, net, ghost
<1>2. at'[ConnOf[s]] = "alerting" <=> at[ConnOf[s]] = "alerting"
  BY FeedAssumption DEF Detect, TypeOK
<1>3. Len(inbox[ConnOf[s]]) \in Nat /\ traded[s] \in Nat
  BY TypesOf
<1>4. Untouched(s) /\ Steady(s)
  BY <1>1, <1>2, <1>3, StaysPut DEF Untouched, Steady
<1> QED
  BY <1>4, UntouchedAscends, UntouchedGapless

(* The alert on a closed bar has been answered: on to the next trade.      *)
LEMMA AlertedKeeps ==
  ASSUME TypeOK, TypeOK', NEW s \in Symbols, NEW c \in Conns, Alerted(c), Ascending(s)
  PROVE  /\ Ascending(s)'
         /\ Gapless(s) => Gapless(s)'
<1>1. UNCHANGED <<phase, inbox, msg, bar, traded, closed>>
  BY DEF Alerted, net, radar, ghost
<1>2. /\ Of(s)' = Of(s) /\ \A i : In(s, i)' = In(s, i)
      /\ Reading(s)' = Reading(s)
  BY <1>1 DEF Of, In, Reading
<1>3. CASE ConnOf[s] # c
  <2>1. at'[ConnOf[s]] = at[ConnOf[s]] /\ next'[ConnOf[s]] = next[ConnOf[s]]
    BY <1>3, FeedAssumption DEF Alerted, NextTrade, TypeOK
  <2>2. Len(inbox[ConnOf[s]]) \in Nat /\ traded[s] \in Nat
    BY TypesOf
  <2>3. Untouched(s) /\ Steady(s)
    BY <1>1, <1>2, <2>1, <2>2 DEF Untouched, Steady
  <2> QED
    BY <2>3, UntouchedAscends, UntouchedGapless
<1>4. CASE ConnOf[s] = c
  <2>1. at[c] = "alerting" /\ at'[c] = "trades" /\ next'[c] = next[c] + 1
    BY DEF Alerted, NextTrade, TypeOK
  <2>2. next[c] \in Nat /\ closed[s].last \in Nat
    BY <1>4, TypesOf
  <2>3. Reading(s) => closed'[s].last < next'[c]
    BY <1>1, <1>4, <2>1, <2>2 DEF Ascending, Passed
  <2>4. Sequenced(s)'
    BY <1>1, <1>2 DEF Ascending, Sequenced
  <2>5. /\ closed'[s].last <= traded'[s]
        /\ \A i \in Of(s)' : closed'[s].last < In(s, i)'.lo
        /\ bar'[s].n > 0 => closed'[s].last < bar'[s].first
    BY <1>1, <1>2 DEF Ascending, Passed
  <2>6. Ascending(s)'
    BY <1>2, <1>4, <2>1, <2>3, <2>4, <2>5 DEF Ascending, Passed
  <2>7. ASSUME Gapless(s) PROVE Gapless(s)'
    <3>1. InLine(s)'
      BY <1>1, <1>2, <1>4, <2>1, <2>7 DEF Gapless, InLine
    <3>2. Linked(s)'
      BY <1>1, <1>2, <2>7 DEF Gapless, Linked, After, Due
    <3>3. Reaches(s)'
      BY <1>1, <1>2, <2>7 DEF Gapless, Reaches, After, Due
    <3>4. Fresh(s)' /\ Contiguous(bar[s])' /\ Contiguous(closed[s])'
      BY <1>1, <2>7 DEF Gapless, Fresh, Contiguous
    <3> QED
      BY <3>1, <3>2, <3>3, <3>4 DEF Gapless
  <2> QED
    BY <2>6, <2>7
<1> QED
  BY <1>3, <1>4

(* The message is done: what it brought up to its end is in the bars. *)
LEMMA FinishKeeps ==
  ASSUME TypeOK, TypeOK', NEW s \in Symbols, NEW c \in Conns, FinishMessage(c),
         Quiet(c), Routed(c), Ascending(s)
  PROVE  /\ Ascending(s)'
         /\ Gapless(s) => Gapless(s)'
<1>1. UNCHANGED <<phase, inbox, bar, traded, closed>> /\ Forget(c)
  BY DEF FinishMessage, radar, ghost
<1>2. /\ Of(s)' = Of(s) /\ \A i : In(s, i)' = In(s, i)
  BY <1>1 DEF Of, In
<1>3. /\ at'[c] = "waiting" /\ msg'[c] = Nothing
      /\ \A d \in Conns \ {c} : at'[d] = at[d] /\ msg'[d] = msg[d] /\ next'[d] = next[d]
  BY <1>1, ForgetsAll
<1>4. CASE ConnOf[s] # c \/ ~Reading(s)
  <2>1. ConnOf[s] # c => UNCHANGED <<at[ConnOf[s]], msg[ConnOf[s]], next[ConnOf[s]]>>
    BY <1>3, FeedAssumption
  <2>2. Reading(s)' = Reading(s)
    BY <1>3, <1>4, <2>1, NothingIsEmpty DEF Reading
  <2>3. Len(inbox[ConnOf[s]]) \in Nat /\ traded[s] \in Nat
    BY TypesOf
  <2>4. Untouched(s) /\ Steady(s)
    BY <1>1, <1>2, <1>4, <2>1, <2>2, <2>3 DEF Untouched, Steady
  <2> QED
    BY <2>4, UntouchedAscends, UntouchedGapless
<1>5. CASE ConnOf[s] = c /\ Reading(s)
  <2>1. ~Reading(s)'
    BY <1>3, <1>5, NothingIsEmpty DEF Reading
  <2>2. next[c] = msg[c].hi + 1
    <3>1. msg[c].hi \in Nat /\ next[c] \in Nat
      BY DEF TypeOK, Messages
    <3>2. ~(next[c] <= msg[c].hi) /\ next[c] <= msg[c].hi + 1
      BY <1>5 DEF FinishMessage, HasTrade, Routed, Reading
    <3> QED
      BY <3>1, <3>2
  <2>3. Sequenced(s)'
    BY <1>2, <2>1 DEF Ascending, Sequenced
  <2>4. Passed(s)'
    BY <1>1, <1>2, <2>1 DEF Ascending, Passed
  <2>5. ASSUME Gapless(s) PROVE Gapless(s)'
    <3>1. \A n : Due(s, n) => (bar[s].n > 0 => n = bar[s].last + 1)
      BY <1>5, <2>2, <2>5 DEF Gapless, InLine, Due
    <3>2. \A n : (bar[s].n > 0 => n = bar[s].last + 1) => Due(s, n)'
      BY <1>1, <2>1 DEF Due
    <3>3. \A j, n : After(s, j, n) => After(s, j, n)'
      BY <1>2, <3>1, <3>2 DEF After
    <3>4. Linked(s)'
      BY <1>2, <2>5, <3>3 DEF Gapless, Linked
    <3>5. Reaches(s)'
      <4>1. PICK j, n : j = Len(inbox[c]) + 1 /\ n = traded[s] + 1
        OBVIOUS
      <4>2. phase[c] = "reading" => After(s, j, n)'
        BY <1>5, <2>5, <3>3, <4>1 DEF Gapless, Reaches
      <4>3. Len(inbox'[c]) + 1 = j /\ traded'[s] + 1 = n
        BY <1>1, <4>1
      <4> QED
        BY <1>1, <1>5, <4>2, <4>3 DEF Reaches
    <3>6. InLine(s)'
      BY <2>1 DEF InLine
    <3>7. Fresh(s)' /\ Contiguous(bar[s])' /\ Contiguous(closed[s])'
      BY <1>1, <2>5 DEF Gapless, Fresh, Contiguous
    <3> QED
      BY <3>4, <3>5, <3>6, <3>7 DEF Gapless
  <2> QED
    BY <2>3, <2>4, <2>5 DEF Ascending
<1> QED
  BY <1>4, <1>5

(* The message raises: the connection ends, and its buffer with it. *)
LEMMA RaisesKeeps ==
  ASSUME TypeOK, TypeOK', NEW s \in Symbols, NEW c \in Conns, MessageRaises(c), Ascending(s)
  PROVE  /\ Ascending(s)'
         /\ Gapless(s) => Gapless(s)'
<1>1. UNCHANGED <<bar, traded, closed>> /\ Forget(c)
  BY DEF MessageRaises, radar, ghost
<1>2. /\ at'[c] = "waiting" /\ msg'[c] = Nothing
      /\ \A d \in Conns \ {c} : at'[d] = at[d] /\ msg'[d] = msg[d] /\ next'[d] = next[d]
  BY <1>1, ForgetsAll
<1>3. /\ inbox'[c] = <<>> /\ phase'[c] = "sleeping"
      /\ \A d \in Conns \ {c} : inbox'[d] = inbox[d] /\ phase'[d] = phase[d]
  BY DEF MessageRaises, TypeOK
<1>4. CASE ConnOf[s] # c
  <2>1. UNCHANGED <<at[ConnOf[s]], msg[ConnOf[s]], next[ConnOf[s]],
                    inbox[ConnOf[s]], phase[ConnOf[s]]>>
    BY <1>2, <1>3, <1>4, FeedAssumption
  <2>2. Len(inbox[ConnOf[s]]) \in Nat /\ traded[s] \in Nat
    BY TypesOf
  <2>3. Untouched(s) /\ Steady(s)
    BY <1>1, <2>1, <2>2, StaysPut DEF Untouched, Steady
  <2> QED
    BY <2>3, UntouchedAscends, UntouchedGapless
<1>5. CASE ConnOf[s] = c
  <2>1. Of(s)' = {} /\ ~Reading(s)'
    BY <1>2, <1>3, <1>5, NothingIsEmpty DEF Of, Reading
  <2>2. Ascending(s)'
    BY <1>1, <2>1 DEF Ascending, Sequenced, Passed
  <2>3. Gapless(s) => Gapless(s)'
    BY <1>1, <1>3, <1>5, <2>1 DEF Gapless, InLine, Linked, Reaches, Fresh, Contiguous
  <2> QED
    BY <2>2, <2>3
<1> QED
  BY <1>4, <1>5

-----------------------------------------------------------------------------
(* The theorems.                                                           *)

LEMMA InitFeed == Init => FeedInv
<1> SUFFICES ASSUME Init PROVE FeedInv
  OBVIOUS
<1>1. TypeOK
  BY InitType
<1>2. ASSUME NEW c \in Conns
      PROVE  Quiet(c) /\ Routed(c)
  <2>1. inbox[c] = <<>> /\ at[c] = "waiting" /\ msg[c] = Nothing /\ next[c] = 1
    BY DEF Init
  <2> QED
    BY <2>1, NothingIsEmpty DEF Quiet, Routed
<1>3. ASSUME NEW s \in Symbols
      PROVE  Ascending(s) /\ Gapless(s)
  <2>1. /\ inbox[ConnOf[s]] = <<>> /\ msg[ConnOf[s]] = Nothing /\ traded[s] = 0
        /\ bar[s] = NoBar /\ closed[s] = NoBar /\ phase[ConnOf[s]] = "dialing"
    BY FeedAssumption DEF Init, NoBars
  <2>2. Of(s) = {} /\ ~Reading(s)
    BY <2>1, NothingIsEmpty DEF Of, Reading
  <2>3. Ascending(s)
    BY <2>1, <2>2, NoBarIsBar DEF Ascending, Sequenced, Passed
  <2>4. Gapless(s)
    BY <2>1, <2>2, NoBarIsBar DEF Gapless, InLine, Linked, Reaches, Fresh, Contiguous
  <2> QED
    BY <2>3, <2>4
<1> QED
  BY <1>1, <1>2, <1>3 DEF FeedInv

(* One step, for one symbol. *)
LEMMA SymbolNext ==
  ASSUME FeedInv, [Next]_vars, NEW s \in Symbols
  PROVE  /\ Ascending(s)'
         /\ s \notin garbled' => s \notin garbled
         /\ s \notin garbled' /\ Gapless(s) => Gapless(s)'
<1>1. /\ TypeOK /\ TypeOK' /\ Ascending(s)
      /\ \A c \in Conns : Quiet(c) /\ Routed(c)
      /\ ConnOf[s] \in Conns
  BY NextType, FeedAssumption DEF FeedInv
<1>2. ASSUME NEW r \in Symbols, Miss(r)
      PROVE  Ascending(s)' /\ garbled' = garbled /\ (Gapless(s) => Gapless(s)')
  BY <1>1, <1>2, MissKeeps DEF Miss
<1>3. ASSUME NEW c \in Conns, NEW m \in Messages, Sends(c, m)
      PROVE  /\ Ascending(s)' /\ garbled \subseteq garbled'
             /\ s \notin garbled' /\ Gapless(s) => Gapless(s)'
  BY <1>1, <1>3, SendsKeeps DEF Sends
<1>4. ASSUME NEW c \in Conns,
             \/ Turns(c) \/ Read(c) \/ Detect(c) \/ Alerted(c)
             \/ (Process(c) \/ Warned(c)) /\ Added(c)
             \/ FinishMessage(c) \/ MessageRaises(c)
      PROVE  Ascending(s)' /\ garbled' = garbled /\ (Gapless(s) => Gapless(s)')
  <2>1. CASE Turns(c)
    BY <1>1, <2>1, TurnsKeep
       DEF Turns, Connect, Subscribe, Refused, Break, Closed, Redial, ghost
  <2>2. CASE Read(c)
    BY <1>1, <2>2, ReadKeeps DEF Read, ghost
  <2>3. CASE Detect(c)
    BY <1>1, <2>3, DetectKeeps DEF Detect, ghost
  <2>4. CASE Alerted(c)
    BY <1>1, <2>4, AlertedKeeps DEF Alerted, ghost
  <2>5. CASE (Process(c) \/ Warned(c)) /\ Added(c)
    <3>1. at[c] \in {"trades", "warning"} /\ HasTrade(c)
      BY <1>1, <2>5 DEF Process, Warned, Quiet
    <3> QED
      BY <1>1, <2>5, <3>1, AddedKeeps DEF Added
  <2>6. CASE FinishMessage(c)
    BY <1>1, <2>6, FinishKeeps DEF FinishMessage, ghost
  <2>7. CASE MessageRaises(c)
    BY <1>1, <2>7, RaisesKeeps DEF MessageRaises, ghost
  <2> QED
    BY <1>4, <2>1, <2>2, <2>3, <2>4, <2>5, <2>6, <2>7
<1>5. ASSUME UNCHANGED <<net, task, bar, ghost>>
      PROVE  Ascending(s)' /\ garbled' = garbled /\ (Gapless(s) => Gapless(s)')
  <2>1. UNCHANGED <<phase, inbox, at, msg, next, bar, traded, closed, garbled>>
    BY <1>5 DEF net, task, ghost
  <2>2. Len(inbox[ConnOf[s]]) \in Nat /\ traded[s] \in Nat
    BY <1>1, TypesOf
  <2>3. Untouched(s) /\ Steady(s)
    BY <2>1, <2>2, StaysPut DEF Untouched, Steady
  <2> QED
    BY <1>1, <2>1, <2>3, UntouchedAscends, UntouchedGapless
<1> QED
  BY <1>1, <1>2, <1>3, <1>4, <1>5, StepCases

LEMMA NextFeed == FeedInv /\ [Next]_vars => FeedInv'
<1> SUFFICES ASSUME FeedInv, [Next]_vars PROVE FeedInv'
  OBVIOUS
<1>1. TypeOK' /\ garbled' \subseteq Symbols
  BY NextType DEF FeedInv, TypeOK
<1>2. \A c \in Conns : Quiet(c)' /\ Routed(c)'
  BY QuietNext, RoutedNext DEF FeedInv
<1>3. \A s \in Symbols : Ascending(s)'
  BY SymbolNext
<1>4. \A s \in Symbols \ garbled' : Gapless(s)'
  BY SymbolNext DEF FeedInv
<1> QED
  BY <1>1, <1>2, <1>3, <1>4 DEF FeedInv

(* The inductive invariant of bars, lines and connections holds.           *)
THEOREM FeedInvariant == Spec => []FeedInv
BY InitFeed, NextFeed, PTL DEF Spec

(* No bar, open or closed, bridges a gap of the feed, whichever            *)
(* connection breaks and comes back, and whoever resets the shared engine. *)
THEOREM NoGapBridged == Spec => []NoGapInBar
<1>1. FeedInv => NoGapInBar
  BY DEF FeedInv, Gapless, NoGapInBar
<1> QED
  BY <1>1, FeedInvariant, PTL

(* The bars of a symbol follow each other: none is handed on twice, none   *)
(* after a later one, and no trade is in two.                              *)
LEMMA BarsAdvance ==
  ASSUME FeedInv, [Next]_vars, NEW s \in Symbols, closed'[s] # closed[s]
  PROVE  closed'[s].first > closed[s].last
<1>1. TypeOK /\ Ascending(s) /\ \A c \in Conns : Quiet(c) /\ Routed(c)
  BY DEF FeedInv
<1>2. PICK c \in Conns : (Process(c) \/ Warned(c)) /\ Added(c)
  <2>1. CASE \E r \in Symbols : Miss(r)
    BY <2>1 DEF Miss
  <2>2. CASE \E c \in Conns : \E m \in Messages : Sends(c, m)
    BY <2>2 DEF Sends, Arrives
  <2>3. ASSUME NEW c \in Conns, \/ Turns(c) \/ Read(c) \/ Detect(c) \/ Alerted(c)
                                \/ FinishMessage(c) \/ MessageRaises(c)
        PROVE  FALSE
    BY <2>3 DEF Turns, Connect, Subscribe, Refused, Break, Closed, Redial,
                Read, Detect, Alerted, FinishMessage, MessageRaises, ghost
  <2>4. CASE UNCHANGED <<net, task, bar, ghost>>
    BY <2>4 DEF ghost
  <2> QED
    BY <1>1, <2>1, <2>2, <2>3, <2>4, StepCases
<1>3. s = msg[c].sym /\ Joined(s, c, closed'[s])
  BY <1>2 DEF Added
<1>4. HasTrade(c) /\ at[c] # "alerting"
  BY <1>1, <1>2 DEF Process, Warned, Quiet
<1>5. ConnOf[s] = c /\ Reading(s)
  <2>1. msg[c].lo \in Nat /\ msg[c].hi \in Nat /\ next[c] \in Nat
    BY <1>1 DEF TypeOK, Messages
  <2> QED
    BY <1>1, <1>3, <1>4, <2>1 DEF HasTrade, Routed, Real, Reading
<1>6. closed[s].last < next[c] /\ (bar[s].n > 0 => closed[s].last < bar[s].first)
  BY <1>1, <1>4, <1>5 DEF Ascending, Passed
<1>7. /\ closed[s].last \in Nat /\ next[c] \in Nat
      /\ bar[s].n \in Nat /\ bar[s].first \in Nat
  BY <1>1, <1>5, TypesOf
<1> QED
  BY <1>3, <1>6, <1>7 DEF Joined

(* Bars of a symbol are handed on in the order of their trades, and no     *)
(* trade is in two of them (DollarBarEngine.process_tick).                 *)
THEOREM ClosedInOrder == Spec => BarsInOrder
<1>1. FeedInv /\ [Next]_vars
        => [\A s \in Symbols : closed'[s] # closed[s] => closed'[s].first > closed[s].last]_vars
  BY BarsAdvance
<1> QED
  BY <1>1, FeedInvariant, PTL DEF Spec, BarsInOrder

-----------------------------------------------------------------------------
(* OutboxRelay.                                                            *)

(* At most one process polls the table. *)
OneRelay == \A v, w \in Relays : v = w

-----------------------------------------------------------------------------
(* Type correctness: every step leaves every variable in its set.          *)

LEMMA TypeInit == RelayInit => RelayTypeOK
<1> SUFFICES ASSUME RelayInit PROVE RelayTypeOK
  OBVIOUS
<1>1. running \in [Relays -> BOOLEAN] /\ disturbed \in BOOLEAN
  BY Zenon DEF RelayInit
<1>2. seen \in [Relays -> SUBSET Alerts] /\ held \in [Relays -> SUBSET Alerts]
  BY Zenon DEF RelayInit
<1> QED BY <1>1, <1>2 DEF RelayInit, RelayTypeOK, RowStatus, WorkerPc

LEMMA ClaimedType ==
  ASSUME RelayTypeOK, NEW w \in Relays
  PROVE  Claimed(w) \in [Alerts -> RowStatus]
  BY DEF RelayTypeOK, Claimed, RowStatus

LEMMA WriterTypes ==
  ASSUME RelayTypeOK, Writers
  PROVE  RelayTypeOK'
<1> PICK a \in Alerts : StampAlert(a) \/ InsertRow(a) \/ InsertFails(a) \/ FallDue(a)
  BY DEF Writers
<1> USE DEF RelayTypeOK, RowStatus, WorkerPc, table, worker, history
<1>1. CASE StampAlert(a)
  BY <1>1 DEF StampAlert
<1>2. CASE InsertRow(a)
  BY <1>2 DEF InsertRow
<1>3. CASE InsertFails(a)
  BY <1>3, OutboxAssumption DEF InsertFails
<1>4. CASE FallDue(a)
  BY <1>4 DEF FallDue
<1> QED BY <1>1, <1>2, <1>3, <1>4

LEMMA WorkTypes ==
  ASSUME RelayTypeOK, NEW w \in Relays, Work(w)
  PROVE  RelayTypeOK'
<1> USE DEF RelayTypeOK, RowStatus, WorkerPc, table, worker, history
<1>1. CASE Select(w)
  BY <1>1 DEF Select, Claimable
<1>2. CASE Claim(w)
  BY <1>2, ClaimedType DEF Claim
<1>3. CASE Leave(w)
  BY <1>3 DEF Leave, GoDown
<1>4. ASSUME NEW a \in Alerts, Handle(w, a)
      PROVE  RelayTypeOK'
  <2>1. CASE SendOk(w, a)
    BY <2>1 DEF SendOk, Goto
  <2>2. CASE SendRefused(w, a)
    BY <2>2 DEF SendRefused, Goto
  <2>3. CASE SendErrs(w, a)
    BY <2>3 DEF SendErrs, Goto
  <2>4. CASE FormatFails(w, a)
    BY <2>4 DEF FormatFails, Goto
  <2>5. CASE MarkDelivered(w, a)
    BY <2>5 DEF MarkDelivered, Advance, Deleted
  <2>6. CASE MarkFailed(w, a)
    BY <2>6 DEF MarkFailed, Advance, Requeued
  <2> QED BY <1>4, <2>1, <2>2, <2>3, <2>4, <2>5, <2>6 DEF Handle
<1> QED BY <1>1, <1>2, <1>3, <1>4 DEF Work

LEMMA FaultTypes ==
  ASSUME RelayTypeOK, NEW w \in Relays, Fault(w)
  PROVE  RelayTypeOK'
<1> USE OutboxAssumption DEF RelayTypeOK, RowStatus, WorkerPc, table, worker, history
<1>1. CASE FetchFails(w)
  BY <1>1, ClaimedType DEF FetchFails, GoDown, DbFault
<1>2. CASE Stop(w)
  BY <1>2 DEF Stop
<1>3. CASE Interrupt(w)
  BY <1>3 DEF Interrupt, GoDown
<1>4. CASE Restart(w)
  BY <1>4 DEF Restart
<1>5. ASSUME NEW a \in Alerts, MarkDeliveredFails(w, a)
      PROVE  RelayTypeOK'
  BY <1>5 DEF MarkDeliveredFails, Goto, DbFault, Deleted
<1>6. ASSUME NEW a \in Alerts, MarkFailedFails(w, a)
      PROVE  RelayTypeOK'
  BY <1>6 DEF MarkFailedFails, Goto, GoDown, DbFault, Requeued
<1> QED BY <1>1, <1>2, <1>3, <1>4, <1>5, <1>6 DEF Fault

LEMMA TypeStep == RelayTypeOK /\ [RelayNext]_relayVars => RelayTypeOK'
<1>1. CASE UNCHANGED relayVars
  BY <1>1 DEF RelayTypeOK, relayVars, table, worker, history
<1>2. CASE RelayNext
  BY <1>2, WriterTypes, WorkTypes, FaultTypes DEF RelayNext
<1> QED BY <1>1, <1>2

(* Every variable of the relay keeps its type. *)
THEOREM RelayTypeCorrect == RelaySpec => []RelayTypeOK
  BY TypeInit, TypeStep, PTL DEF RelaySpec

-----------------------------------------------------------------------------
(* No row is deleted before its alert was shown, for any number of relays. *)
(* The induction carries what a relay knows of the rows it has read: they  *)
(* were inserted, and the one it is about to delete was shown.             *)

KnownRows ==
  \A w \in Relays : \A a \in seen[w] \cup held[w] :
    status[a] \in {"PENDING", "PROCESSING", "deleted"}

ShownBeforeDelete ==
  \A w \in Relays, a \in Alerts : pc[w] = "delete" /\ Current(w, a) => copies[a] > 0

UnseenInv == RelayTypeOK /\ NeverDeletedUnseen /\ KnownRows /\ ShownBeforeDelete

LEMMA BeforeAsym ==
  ASSUME RelayTypeOK, NEW a \in Alerts, NEW b \in Alerts, Before(a, b)
  PROVE  ~Before(b, a)
  BY DEF RelayTypeOK, Before

LEMMA CurrentUnique ==
  ASSUME RelayTypeOK, NEW w \in Relays, NEW a \in Alerts, NEW b \in Alerts,
         Current(w, a), Current(w, b)
  PROVE  a = b
  BY BeforeAsym DEF Current

(* Stamping one alert does not reorder a batch that does not hold it. *)
LEMMA CurrentStable ==
  ASSUME RelayTypeOK, RelayTypeOK', NEW w \in Relays, NEW a \in Alerts, held'[w] = held[w],
         \A b \in held[w] : stamp'[b] = stamp[b], Current(w, a)'
  PROVE  Current(w, a)
  BY DEF RelayTypeOK, Current, Before

LEMMA UnseenInit == RelayInit => UnseenInv
  BY TypeInit DEF RelayInit, UnseenInv, NeverDeletedUnseen, KnownRows, ShownBeforeDelete

LEMMA UnseenWriters ==
  ASSUME UnseenInv, Writers
  PROVE  UnseenInv'
<1>1. RelayTypeOK'
  BY WriterTypes DEF UnseenInv
<1> PICK a \in Alerts : StampAlert(a) \/ InsertRow(a) \/ InsertFails(a) \/ FallDue(a)
  BY DEF Writers
<1> USE DEF UnseenInv, RelayTypeOK, table, worker, history
<1>2. /\ UNCHANGED <<pc, seen, held, copies>>
      /\ status[a] \notin {"PROCESSING", "deleted"} /\ status'[a] # "deleted"
      /\ status[a] = "PENDING" => status'[a] = "PENDING"
      /\ \A b \in Alerts \ {a} : status'[b] = status[b] /\ stamp'[b] = stamp[b]
      /\ status[a] = "unborn" \/ UNCHANGED stamp
  BY DEF StampAlert, InsertRow, InsertFails, FallDue
<1>3. NeverDeletedUnseen'
  BY <1>2 DEF NeverDeletedUnseen
<1>4. KnownRows'
  BY <1>2 DEF KnownRows
<1>5. ShownBeforeDelete'
  <2> SUFFICES ASSUME NEW w \in Relays, NEW b \in Alerts,
                      pc'[w] = "delete", Current(w, b)'
               PROVE  copies'[b] > 0
    BY DEF ShownBeforeDelete
  <2>1. \A c \in held[w] : stamp'[c] = stamp[c]
    BY <1>2 DEF KnownRows
  <2>2. Current(w, b)
    BY <1>1, <1>2, <2>1, CurrentStable
  <2> QED BY <1>2, <2>2 DEF ShownBeforeDelete
<1> QED BY <1>1, <1>3, <1>4, <1>5

(* What a step of relay w may do to the shared state without endangering   *)
(* the invariant.                                                          *)
LEMMA UnseenStep ==
  ASSUME UnseenInv, RelayTypeOK', NEW w \in Relays, UNCHANGED stamp,
         \A a \in Alerts : copies'[a] >= copies[a],
         \A a \in Alerts : status'[a] # status[a] =>
           /\ status[a] \in {"PENDING", "PROCESSING", "deleted"}
           /\ status'[a] \in {"PENDING", "PROCESSING", "deleted"}
           /\ status'[a] = "deleted" => copies[a] > 0,
         \A v \in Relays \ {w} : pc'[v] = pc[v] /\ seen'[v] = seen[v] /\ held'[v] = held[v],
         \A a \in seen'[w] \cup held'[w] :
           a \in seen[w] \cup held[w] \/ status[a] = "PENDING",
         \A a \in Alerts : pc'[w] = "delete" /\ Current(w, a)' => copies'[a] > 0
  PROVE  UnseenInv'
<1> USE DEF UnseenInv
<1>1. NeverDeletedUnseen'
  BY DEF NeverDeletedUnseen, RelayTypeOK
<1>2. KnownRows'
  <2> SUFFICES ASSUME NEW v \in Relays, NEW a \in (seen[v] \cup held[v])'
               PROVE  status'[a] \in {"PENDING", "PROCESSING", "deleted"}
    BY DEF KnownRows
  <2>1. a \in Alerts
    BY DEF RelayTypeOK
  <2>2. status[a] \in {"PENDING", "PROCESSING", "deleted"}
    BY DEF KnownRows, RelayTypeOK
  <2> QED BY <2>1, <2>2
<1>3. ShownBeforeDelete'
  <2> SUFFICES ASSUME NEW v \in Relays, NEW a \in Alerts,
                      pc'[v] = "delete", Current(v, a)'
               PROVE  copies'[a] > 0
    BY DEF ShownBeforeDelete
  <2>1. CASE v = w
    BY <2>1
  <2>2. CASE v # w
    <3>1. Current(v, a) /\ pc[v] = "delete"
      BY <2>2, CurrentStable
    <3> QED BY <3>1 DEF ShownBeforeDelete, RelayTypeOK
  <2> QED BY <2>1, <2>2
<1> QED BY <1>1, <1>2, <1>3

LEMMA UnseenWork ==
  ASSUME UnseenInv, NEW w \in Relays, Work(w)
  PROVE  UnseenInv'
<1>1. RelayTypeOK'
  BY WorkTypes DEF UnseenInv
<1> USE DEF UnseenInv, RelayTypeOK, table, worker, history
<1>2. CASE Select(w)
  BY <1>1, <1>2, UnseenStep DEF Select, Claimable
<1>3. CASE Claim(w)
  <2>1. \A a \in Alerts : status'[a] # status[a] =>
           status[a] = "PENDING" /\ status'[a] = "PROCESSING"
    BY <1>3 DEF Claim, Claimed, Transitioned
  <2>2. /\ UNCHANGED <<stamp, copies>> /\ pc'[w] # "delete"
        /\ seen'[w] \cup held'[w] \subseteq seen[w] \cup held[w]
        /\ \A v \in Relays \ {w} : pc'[v] = pc[v] /\ seen'[v] = seen[v] /\ held'[v] = held[v]
    BY <1>3 DEF Claim, Leading
  <2> QED BY <1>1, <2>1, <2>2, UnseenStep
<1>4. CASE Leave(w)
  BY <1>1, <1>4, UnseenStep DEF Leave, GoDown
<1>5. ASSUME NEW a \in Alerts, Handle(w, a)
      PROVE  UnseenInv'
  <2>1. CASE SendOk(w, a)
    <3>1. \A b \in Alerts : Current(w, b)' => b = a
      BY <1>1, <2>1, CurrentStable, CurrentUnique DEF SendOk, Sending, Goto
    <3> QED BY <1>1, <2>1, <3>1, UnseenStep DEF SendOk, Goto
  <2>2. CASE SendRefused(w, a)
    BY <1>1, <2>2, UnseenStep DEF SendRefused, Goto
  <2>3. CASE SendErrs(w, a)
    BY <1>1, <2>3, UnseenStep DEF SendErrs, Goto, Sending
  <2>4. CASE FormatFails(w, a)
    BY <1>1, <2>4, UnseenStep DEF FormatFails, Goto
  <2>5. CASE MarkDelivered(w, a)
    <3>1. copies[a] > 0 /\ a \in held[w]
      BY <2>5 DEF MarkDelivered, ShownBeforeDelete, Current
    <3>2. status[a] \in {"PENDING", "PROCESSING", "deleted"}
      BY <3>1 DEF KnownRows
    <3> QED BY <1>1, <2>5, <3>1, <3>2, UnseenStep DEF MarkDelivered, Advance, Deleted
  <2>6. CASE MarkFailed(w, a)
    <3>1. status[a] \in {"PENDING", "PROCESSING", "deleted"}
      BY <2>6 DEF MarkFailed, Current, KnownRows
    <3> QED BY <1>1, <2>6, <3>1, UnseenStep DEF MarkFailed, Advance, Requeued
  <2> QED BY <1>5, <2>1, <2>2, <2>3, <2>4, <2>5, <2>6 DEF Handle
<1> QED BY <1>2, <1>3, <1>4, <1>5 DEF Work

LEMMA UnseenFault ==
  ASSUME UnseenInv, NEW w \in Relays, Fault(w)
  PROVE  UnseenInv'
<1>1. RelayTypeOK'
  BY FaultTypes DEF UnseenInv
<1> USE DEF UnseenInv, RelayTypeOK, table, worker, history
<1>2. CASE FetchFails(w)
  <2>1. \A a \in Alerts : status'[a] # status[a] =>
           status[a] = "PENDING" /\ status'[a] = "PROCESSING"
    BY <1>2 DEF FetchFails, Claimed, Transitioned
  <2> QED BY <1>1, <1>2, <2>1, UnseenStep DEF FetchFails, GoDown
<1>3. CASE Stop(w)
  <2>1. \A a \in Alerts : Current(w, a)' => Current(w, a)
    BY <1>1, <1>3, CurrentStable DEF Stop
  <2> QED BY <1>1, <1>3, <2>1, UnseenStep DEF Stop, ShownBeforeDelete
<1>4. CASE Interrupt(w)
  BY <1>1, <1>4, UnseenStep DEF Interrupt, GoDown
<1>5. CASE Restart(w)
  BY <1>1, <1>5, UnseenStep DEF Restart
<1>6. ASSUME NEW a \in Alerts, MarkDeliveredFails(w, a)
      PROVE  UnseenInv'
  <2>1. copies[a] > 0 /\ a \in held[w]
    BY <1>6 DEF MarkDeliveredFails, ShownBeforeDelete, Current
  <2>2. status[a] \in {"PENDING", "PROCESSING", "deleted"}
    BY <2>1 DEF KnownRows
  <2> QED BY <1>1, <1>6, <2>1, <2>2, UnseenStep DEF MarkDeliveredFails, Goto, Deleted
<1>7. ASSUME NEW a \in Alerts, MarkFailedFails(w, a)
      PROVE  UnseenInv'
  <2>1. status[a] \in {"PENDING", "PROCESSING", "deleted"}
    BY <1>7 DEF MarkFailedFails, Current, KnownRows
  <2> QED BY <1>1, <1>7, <2>1, UnseenStep DEF MarkFailedFails, Goto, GoDown, Requeued
<1> QED BY <1>2, <1>3, <1>4, <1>5, <1>6, <1>7 DEF Fault

LEMMA UnseenNext == UnseenInv /\ [RelayNext]_relayVars => UnseenInv'
<1>1. CASE UNCHANGED relayVars
  BY <1>1 DEF UnseenInv, RelayTypeOK, NeverDeletedUnseen, KnownRows, ShownBeforeDelete,
              Current, Before, relayVars, table, worker, history
<1>2. CASE RelayNext
  BY <1>2, UnseenWriters, UnseenWork, UnseenFault DEF RelayNext
<1> QED BY <1>1, <1>2

(* A row is deleted only after its alert was shown to the operator,        *)
(* whatever fails and however many relays race.                            *)
THEOREM DeletionSafe == RelaySpec => []NeverDeletedUnseen
<1>1. UnseenInv => NeverDeletedUnseen
  BY DEF UnseenInv
<1> QED BY <1>1, UnseenInit, UnseenNext, PTL DEF RelaySpec

-----------------------------------------------------------------------------
(* One relay: its memory and the table agree.                              *)

Idle == \A w \in Relays :
  /\ pc[w] \in {"fetch", "claim", "down"} => held[w] = {}
  /\ pc[w] # "claim" => seen[w] = {}

SeenPending == \A w \in Relays : \A a \in seen[w] : status[a] = "PENDING"

HeldClaimed == \A w \in Relays : \A a \in held[w] :
  status[a] = "PROCESSING" \/ (pc[w] = "requeue" /\ Current(w, a))

(* One copy more than the losses explain is shown by a send whose DELETE is *)
(* next, or was the last thing that happened to the row.                    *)
CopiesAccounted == \A a \in Alerts :
  \/ copies[a] <= losses[a]
  \/ /\ copies[a] = losses[a] + 1
     /\ status[a] = "deleted" \/ \E w \in Relays : pc[w] = "delete" /\ Current(w, a)

FiniteBatch == IsFiniteSet(due) /\ \A w \in Relays : IsFiniteSet(seen[w])

BatchInv == /\ UnseenInv /\ Idle /\ SeenPending /\ HeldClaimed
            /\ CopiesAccounted /\ StrandedOnlyByFailure /\ FiniteBatch

LEMMA DueFinite ==
  ASSUME IsFiniteSet(due), NEW a \in Alerts,
         due' = due \/ due' = due \cup {a} \/ due' = due \ {a}
  PROVE  IsFiniteSet(due')
<1>1. IsFiniteSet(due \cup {a}) /\ IsFiniteSet(due \ {a})
  BY FS_AddElement, FS_RemoveElement
<1> QED BY <1>1

LEMMA BatchInit == RelayInit => BatchInv
<1> SUFFICES ASSUME RelayInit PROVE BatchInv
  OBVIOUS
<1>1. Idle /\ SeenPending /\ HeldClaimed
  BY DEF RelayInit, Idle, SeenPending, HeldClaimed
<1>2. CopiesAccounted /\ StrandedOnlyByFailure
  BY DEF RelayInit, CopiesAccounted, StrandedOnlyByFailure
<1>3. FiniteBatch
  BY FS_EmptySet DEF RelayInit, FiniteBatch
<1> QED BY <1>1, <1>2, <1>3, UnseenInit DEF BatchInv

LEMMA BatchWriters ==
  ASSUME BatchInv, Writers
  PROVE  BatchInv'
<1>1. UnseenInv'
  BY UnseenWriters DEF BatchInv
<1> PICK a \in Alerts : StampAlert(a) \/ InsertRow(a) \/ InsertFails(a) \/ FallDue(a)
  BY DEF Writers
<1> USE DEF BatchInv, UnseenInv, RelayTypeOK, table, worker, history
<1>2. /\ UNCHANGED <<pc, seen, held, copies, losses, disturbed>>
      /\ status[a] \notin {"PROCESSING", "deleted"}
      /\ status'[a] \notin {"PROCESSING", "deleted"}
      /\ status[a] = "PENDING" => status'[a] = "PENDING"
      /\ \A b \in Alerts \ {a} : status'[b] = status[b] /\ stamp'[b] = stamp[b]
      /\ status[a] = "unborn" \/ UNCHANGED stamp
      /\ due' = due \/ due' = due \cup {a}
  BY DEF StampAlert, InsertRow, InsertFails, FallDue
<1>3. ASSUME NEW w \in Relays, NEW b \in Alerts
      PROVE  Current(w, b)' <=> Current(w, b)
  <2>1. \A c \in held[w] : stamp'[c] = stamp[c]
    BY <1>2 DEF KnownRows
  <2> QED BY <1>2, <2>1 DEF Current, Before
<1>4. Idle' /\ SeenPending'
  BY <1>2 DEF Idle, SeenPending
<1>5. HeldClaimed'
  BY <1>1, <1>2, <1>3 DEF HeldClaimed
<1>6. CopiesAccounted'
  BY <1>1, <1>2, <1>3 DEF CopiesAccounted
<1>7. StrandedOnlyByFailure'
  BY <1>2 DEF StrandedOnlyByFailure
<1>8. FiniteBatch'
  <2>a. IsFiniteSet(due)
    BY DEF FiniteBatch
  <2>b. IsFiniteSet(due')
    BY <2>a, <1>2, DueFinite
  <2> QED BY <2>b, <1>2 DEF FiniteBatch
<1> QED BY <1>1, <1>4, <1>5, <1>6, <1>7, <1>8

(* The claim of the only relay takes all it selected. *)
LEMMA ClaimTakesAll ==
  ASSUME BatchInv, NEW w \in Relays, NEW S \in SUBSET seen[w],
         Leading(S, seen[w], Cardinality(Transitioned(w)))
  PROVE  S = seen[w] /\ Transitioned(w) = seen[w]
<1>1. Transitioned(w) = seen[w]
  BY DEF BatchInv, SeenPending, Transitioned
<1>2. IsFiniteSet(seen[w]) /\ Cardinality(seen[w]) \in Nat
  BY FS_CardinalityType DEF BatchInv, FiniteBatch
<1>3. Cardinality(S) = Cardinality(seen[w])
  BY <1>1, <1>2 DEF Leading
<1> QED BY <1>1, <1>2, <1>3, FS_Subset

LEMMA BatchWork ==
  ASSUME OneRelay, BatchInv, NEW w \in Relays, Work(w)
  PROVE  BatchInv'
<1>1. UnseenInv' /\ \A v \in Relays : v = w
  BY UnseenWork DEF BatchInv, OneRelay
<1> USE DEF BatchInv, UnseenInv, RelayTypeOK, table, worker, history
<1>2. CASE Select(w)
  <2>1. /\ UNCHANGED <<status, stamp, due, held, copies, losses, disturbed>>
        /\ pc[w] = "fetch" /\ pc'[w] = "claim" /\ held[w] = {}
        /\ seen'[w] \subseteq Claimable
    BY <1>2 DEF Select, Leading, Idle
  <2>2. IsFiniteSet(seen'[w])
    BY <2>1, FS_Subset DEF Claimable, FiniteBatch
  <2>3. Idle' /\ SeenPending' /\ HeldClaimed' /\ FiniteBatch'
    BY <1>1, <2>1, <2>2 DEF Idle, SeenPending, HeldClaimed, FiniteBatch, Claimable
  <2>4. CopiesAccounted' /\ StrandedOnlyByFailure'
    BY <1>1, <2>1 DEF CopiesAccounted, StrandedOnlyByFailure, Current
  <2> QED BY <1>1, <2>3, <2>4
<1>3. CASE Claim(w)
  <2>1. /\ UNCHANGED <<stamp, due, copies, losses, disturbed>>
        /\ pc[w] = "claim" /\ pc'[w] = IF held'[w] = {} THEN "fetch" ELSE "send"
        /\ held'[w] = seen[w] /\ seen'[w] = {} /\ held[w] = {}
        /\ status' = [a \in Alerts |-> IF a \in seen[w] THEN "PROCESSING" ELSE status[a]]
    BY <1>3, ClaimTakesAll DEF Claim, Claimed, Idle
  <2>2. Idle' /\ SeenPending' /\ HeldClaimed' /\ FiniteBatch'
    BY <1>1, <2>1, FS_EmptySet DEF Idle, SeenPending, HeldClaimed, FiniteBatch
  <2>3. CopiesAccounted' /\ StrandedOnlyByFailure'
    BY <1>1, <2>1 DEF CopiesAccounted, StrandedOnlyByFailure, Current, SeenPending
  <2> QED BY <1>1, <2>2, <2>3
<1>4. CASE Leave(w)
  BY <1>1, <1>4, FS_EmptySet
  DEF Leave, GoDown, Idle, SeenPending, HeldClaimed, CopiesAccounted,
      StrandedOnlyByFailure, FiniteBatch, Current
<1>5. ASSUME NEW a \in Alerts, Handle(w, a)
      PROVE  BatchInv'
  <2>1. Current(w, a) /\ pc[w] \in {"send", "delete", "defer", "requeue"}
    BY <1>5 DEF Handle, SendOk, SendRefused, SendErrs, FormatFails, MarkDelivered,
                MarkFailed, Sending
  <2>2. a \in held[w] /\ \A b \in Alerts : Current(w, b) => b = a
    BY <2>1, CurrentUnique DEF Current
  <2>3. CASE held' = held /\ UNCHANGED <<status, stamp, due, seen, disturbed>>
    <3>1. \A b \in Alerts : Current(w, b)' <=> Current(w, b)
      BY <2>3 DEF Current, Before
    <3>2. pc[w] = "send" /\ pc'[w] \in {"send", "delete", "defer", "requeue"}
      BY <1>5, <2>1, <2>2, <2>3
      DEF Handle, SendOk, SendRefused, SendErrs, FormatFails, MarkDelivered,
          MarkFailed, Advance, Goto, Sending
    <3>3. Idle' /\ SeenPending' /\ HeldClaimed' /\ FiniteBatch' /\ StrandedOnlyByFailure'
      BY <1>1, <2>2, <2>3, <3>1, <3>2
      DEF Idle, SeenPending, HeldClaimed, FiniteBatch, StrandedOnlyByFailure
    <3>4. status[a] = "PROCESSING" /\ copies[a] <= losses[a]
      BY <1>1, <2>2, <3>2 DEF HeldClaimed, CopiesAccounted
    <3>5. /\ \A b \in Alerts \ {a} : copies'[b] = copies[b] /\ losses'[b] = losses[b]
          /\ \/ copies'[a] - copies[a] = losses'[a] - losses[a]
             \/ copies'[a] = copies[a] + 1 /\ losses'[a] = losses[a] /\ pc'[w] = "delete"
      BY <1>5, <3>2 DEF Handle, SendOk, SendRefused, SendErrs, FormatFails, MarkDelivered,
                        MarkFailed, Goto
    <3>6. CopiesAccounted'
      BY <1>1, <2>1, <2>2, <2>3, <3>1, <3>2, <3>4, <3>5 DEF CopiesAccounted
    <3> QED BY <1>1, <3>3, <3>6
  <2>4. CASE MarkDelivered(w, a) \/ MarkFailed(w, a)
    <3>1. /\ UNCHANGED <<stamp, seen, copies, losses, disturbed>>
          /\ held'[w] = held[w] \ {a}
          /\ pc'[w] = IF held[w] = {a} THEN "fetch" ELSE "send"
          /\ due' = due \/ due' = due \ {a}
          /\ \A b \in Alerts \ {a} : status'[b] = status[b]
          /\ status'[a] \in {"PENDING", "deleted"}
          /\ status'[a] = "deleted" => status[a] = "deleted" \/ pc[w] = "delete"
          /\ status[a] = "deleted" => status'[a] = "deleted"
      BY <2>2, <2>4 DEF MarkDelivered, MarkFailed, Advance, Deleted, Requeued, KnownRows
    <3>2. Idle' /\ SeenPending' /\ HeldClaimed'
      BY <1>1, <2>1, <2>2, <3>1 DEF Idle, SeenPending, HeldClaimed
    <3>3. FiniteBatch'
      <4>a. IsFiniteSet(due)
        BY DEF FiniteBatch
      <4>b. IsFiniteSet(due')
        BY <4>a, <1>1, <3>1, DueFinite
      <4> QED BY <4>b, <1>1, <3>1 DEF FiniteBatch
    <3>4. StrandedOnlyByFailure'
      BY <1>1, <3>1 DEF StrandedOnlyByFailure
    <3>5. pc[w] = "delete" => status'[a] = "deleted"
      BY <2>4 DEF MarkDelivered, MarkFailed, Deleted
    <3>6. CopiesAccounted'
      BY <1>1, <2>2, <3>1, <3>5 DEF CopiesAccounted
    <3> QED BY <1>1, <3>2, <3>3, <3>4, <3>6
  <2> QED BY <1>5, <2>3, <2>4 DEF Handle, SendOk, SendRefused, SendErrs, FormatFails, Goto
<1> QED BY <1>2, <1>3, <1>4, <1>5 DEF Work

LEMMA BatchFault ==
  ASSUME OneRelay, BatchInv, NEW w \in Relays, Fault(w)
  PROVE  BatchInv'
<1>1. UnseenInv' /\ \A v \in Relays : v = w
  BY UnseenFault DEF BatchInv, OneRelay
<1> USE DEF BatchInv, UnseenInv, RelayTypeOK, table, worker, history
(* A step after which the worker is down. *)
<1>2. ASSUME GoDown(w), disturbed', UNCHANGED <<stamp, due>> \/ IsFiniteSet(due'),
             \A a \in Alerts :
               \/ UNCHANGED <<copies[a], losses[a]>> /\ pc[w] # "delete"
               \/ copies'[a] = copies[a] /\ losses'[a] = losses[a] /\ ~Current(w, a)
               \/ copies'[a] = copies[a] /\ losses'[a] = losses[a] + 1
               \/ /\ copies'[a] = copies[a] + 1 /\ losses'[a] = losses[a] + 1
                  /\ pc[w] = "send" /\ Current(w, a),
             \A a \in Alerts : status[a] = "deleted" => status'[a] = "deleted"
      PROVE  BatchInv'
  <2>1. Idle' /\ SeenPending' /\ HeldClaimed' /\ StrandedOnlyByFailure'
    BY <1>1, <1>2 DEF GoDown, Idle, SeenPending, HeldClaimed, StrandedOnlyByFailure
  <2>2. FiniteBatch'
    BY <1>1, <1>2, FS_EmptySet DEF GoDown, FiniteBatch
  <2>3. CopiesAccounted'
    BY <1>1, <1>2 DEF CopiesAccounted
  <2> QED BY <1>1, <2>1, <2>2, <2>3
<1>3. CASE FetchFails(w)
  <2>1. \A a \in Alerts : status[a] = "deleted" => status'[a] = "deleted"
    BY <1>3 DEF FetchFails, Claimed, Transitioned
  <2> QED BY <1>2, <1>3, <2>1 DEF FetchFails, DbFault
<1>4. CASE Stop(w)
  <2>1. \A a \in Alerts : Current(w, a)' <=> Current(w, a)
    BY <1>4 DEF Stop, Current, Before
  <2> QED BY <1>1, <1>4, <2>1
          DEF Stop, Idle, SeenPending, HeldClaimed, CopiesAccounted,
              StrandedOnlyByFailure, FiniteBatch
<1>5. CASE Interrupt(w)
  <2>1. \A a, b \in Alerts : Current(w, a) /\ Current(w, b) => a = b
    BY CurrentUnique
  <2>2. \A a \in Alerts :
          \/ UNCHANGED <<copies[a], losses[a]>> /\ pc[w] # "delete"
          \/ copies'[a] = copies[a] /\ losses'[a] = losses[a] /\ ~Current(w, a)
          \/ copies'[a] = copies[a] /\ losses'[a] = losses[a] + 1
          \/ /\ copies'[a] = copies[a] + 1 /\ losses'[a] = losses[a] + 1
             /\ pc[w] = "send" /\ Current(w, a)
    BY <1>5, <2>1 DEF Interrupt, Sending
  <2> QED BY <1>2, <1>5, <2>2 DEF Interrupt
<1>6. CASE Restart(w)
  <2>1. \A a \in Alerts : Current(w, a)' <=> Current(w, a)
    BY <1>6 DEF Restart, Current, Before
  <2> QED BY <1>1, <1>6, <2>1
          DEF Restart, Idle, SeenPending, HeldClaimed, CopiesAccounted,
              StrandedOnlyByFailure, FiniteBatch
<1>7. ASSUME NEW a \in Alerts, MarkDeliveredFails(w, a) \/ MarkFailedFails(w, a),
             pc'[w] = "requeue"
      PROVE  BatchInv'
  <2>1. /\ Current(w, a) /\ a \in held[w] /\ held' = held /\ seen' = seen /\ stamp' = stamp
        /\ pc[w] \in {"delete", "defer"} /\ disturbed' /\ UNCHANGED copies
    BY <1>7 DEF MarkDeliveredFails, MarkFailedFails, Goto, GoDown, DbFault, Current
  <2>2. \A b \in Alerts : (Current(w, b)' <=> Current(w, b)) /\ (Current(w, b) => b = a)
    BY <2>1, CurrentUnique DEF Current, Before
  <2>3. /\ \A b \in Alerts \ {a} : status'[b] = status[b] /\ losses'[b] = losses[b]
        /\ status[a] = "deleted" => status'[a] = "deleted"
        /\ losses'[a] \in {losses[a], losses[a] + 1}
        /\ pc[w] = "delete" => status'[a] = "deleted" \/ losses'[a] = losses[a] + 1
        /\ due' = due \/ due' = due \ {a}
    BY <1>7, <2>1 DEF MarkDeliveredFails, MarkFailedFails, Deleted, Requeued
  <2>4. Idle' /\ SeenPending' /\ HeldClaimed' /\ StrandedOnlyByFailure'
    BY <1>1, <1>7, <2>1, <2>2, <2>3
    DEF Idle, SeenPending, HeldClaimed, StrandedOnlyByFailure
  <2>5. FiniteBatch'
    <3>a. IsFiniteSet(due)
      BY DEF FiniteBatch
    <3>b. IsFiniteSet(due')
      BY <3>a, <2>1, <2>3, DueFinite
    <3> QED BY <3>b, <2>1, <2>3 DEF FiniteBatch
  <2>6. CopiesAccounted'
    BY <1>1, <2>1, <2>2, <2>3 DEF CopiesAccounted
  <2> QED BY <1>1, <2>4, <2>5, <2>6
<1>8. ASSUME NEW a \in Alerts, MarkFailedFails(w, a), pc'[w] = "down"
      PROVE  BatchInv'
  <2>1. /\ GoDown(w) /\ disturbed' /\ UNCHANGED <<copies, losses>> /\ pc[w] # "delete"
        /\ due' = due \/ due' = due \ {a}
        /\ \A b \in Alerts : status[b] = "deleted" => status'[b] = "deleted"
    BY <1>8 DEF MarkFailedFails, DbFault, Requeued, Goto
  <2>2. IsFiniteSet(due')
    <3>a. IsFiniteSet(due)
      BY DEF FiniteBatch
    <3>b. IsFiniteSet(due')
      BY <3>a, <2>1, DueFinite
    <3> QED BY <3>b, <2>1 DEF FiniteBatch
  <2> QED BY <1>2, <2>1, <2>2
<1>9. \A a \in Alerts :
        /\ MarkDeliveredFails(w, a) => pc'[w] = "requeue"
        /\ MarkFailedFails(w, a) => pc'[w] \in {"requeue", "down"}
  BY DEF MarkDeliveredFails, MarkFailedFails, Goto, GoDown
<1> QED BY <1>3, <1>4, <1>5, <1>6, <1>7, <1>8, <1>9 DEF Fault

LEMMA BatchNext ==
  ASSUME OneRelay
  PROVE  BatchInv /\ [RelayNext]_relayVars => BatchInv'
<1> SUFFICES ASSUME BatchInv, [RelayNext]_relayVars PROVE BatchInv'
  OBVIOUS
<1>1. CASE UNCHANGED relayVars
  <2>1. UnseenInv'
    BY <1>1, UnseenNext DEF BatchInv
  <2>2. \A w \in Relays, a \in Alerts : Current(w, a)' <=> Current(w, a)
    BY <1>1 DEF Current, Before, relayVars, table, worker
  <2>3. UNCHANGED <<status, due, pc, seen, held, copies, losses, disturbed>>
    BY <1>1 DEF relayVars, table, worker, history
  <2>4. Idle' /\ SeenPending' /\ HeldClaimed'
    BY <2>2, <2>3 DEF BatchInv, UnseenInv, RelayTypeOK, Idle, SeenPending, HeldClaimed
  <2>5. CopiesAccounted'
    BY <2>2, <2>3 DEF BatchInv, CopiesAccounted
  <2>6. StrandedOnlyByFailure' /\ FiniteBatch'
    BY <2>3 DEF BatchInv, StrandedOnlyByFailure, FiniteBatch
  <2> QED BY <2>1, <2>4, <2>5, <2>6 DEF BatchInv
<1>2. CASE RelayNext
  BY <1>2, BatchWriters, BatchWork, BatchFault DEF RelayNext
<1> QED BY <1>1, <1>2

LEMMA BatchAlways ==
  ASSUME OneRelay
  PROVE  RelaySpec => []BatchInv
<1>1. BatchInv /\ [RelayNext]_relayVars => BatchInv'
  BY BatchNext
<1> QED BY <1>1, BatchInit, PTL DEF RelaySpec

(* With one relay, copies beyond the first are each explained by an answer *)
(* of Telegram that was lost or by a failure between the send and the      *)
(* DELETE: retries and requeues alone never repeat an alert.               *)
THEOREM DuplicatesExplained == OneRelay => (RelaySpec => []NoUnexplainedDuplicate)
<1> SUFFICES ASSUME OneRelay PROVE RelaySpec => []NoUnexplainedDuplicate
  OBVIOUS
<1>1. BatchInv => NoUnexplainedDuplicate
  BY DEF BatchInv, UnseenInv, RelayTypeOK, CopiesAccounted, NoUnexplainedDuplicate
<1> QED BY <1>1, BatchAlways, PTL

(* With one relay, only a crash, a cancellation or a database error leaves *)
(* a row in PROCESSING that nobody holds.                                  *)
THEOREM StrandingExplained == OneRelay => (RelaySpec => []StrandedOnlyByFailure)
<1> SUFFICES ASSUME OneRelay PROVE RelaySpec => []StrandedOnlyByFailure
  OBVIOUS
<1>1. BatchInv => StrandedOnlyByFailure
  BY DEF BatchInv
<1> QED BY <1>1, BatchAlways, PTL

(* With one relay, every row about to be sent is still claimed.            *)
THEOREM SendsClaimed == OneRelay => (RelaySpec => []SendsOnlyClaimedRows)
<1> SUFFICES ASSUME OneRelay PROVE RelaySpec => []SendsOnlyClaimedRows
  OBVIOUS
<1>1. BatchInv => SendsOnlyClaimedRows
  BY DEF BatchInv, HeldClaimed, SendsOnlyClaimedRows
<1> QED BY <1>1, BatchAlways, PTL

-----------------------------------------------------------------------------
(* Refinement: the relay's steps are steps of AlertDelivery, or stutter.   *)

LEMMA DeliveryInit == RelayInit => Delivery!Init
  BY DEF RelayInit, Delivery!Init, Stage

(* What the rows of a step must satisfy to be a stutter of Delivery ...    *)
LEMMA DeliveryStutters ==
  ASSUME RelayTypeOK, \A a \in Alerts : Stage(a)' = Stage(a), UNCHANGED copies
  PROVE  UNCHANGED Delivery!vars
  BY DEF Delivery!vars

(* ... or a step of it for alert a.                                        *)
LEMMA DeliverySteps ==
  ASSUME RelayTypeOK, NEW a \in Alerts, \A b \in Alerts \ {a} : Stage(b)' = Stage(b),
         \/ UNCHANGED copies /\ Stage(a)' = Stage(a)
         \/ /\ UNCHANGED copies
            /\ Stage(a) = "new" /\ Stage(a)' \in {"owed", "refused"}
         \/ /\ copies' = [copies EXCEPT ![a] = @ + 1]
            /\ Stage(a) = "owed" /\ Stage(a)' = "owed"
         \/ /\ UNCHANGED copies /\ copies[a] > 0
            /\ Stage(a) = "owed" /\ Stage(a)' = "settled"
  PROVE  [Delivery!Next]_(Delivery!vars)
<1> DEFINE stage == [b \in Alerts |-> Stage(b)]
<1>1. CASE UNCHANGED copies /\ Stage(a)' = Stage(a)
  BY <1>1, DeliveryStutters
<1>2. CASE Stage(a)' # Stage(a) /\ UNCHANGED copies
  <2>1. stage' = [stage EXCEPT ![a] = Stage(a)']
    OBVIOUS
  <2>2. stage[a] = Stage(a)
    OBVIOUS
  <2> QED BY <1>2, <2>1, <2>2 DEF Delivery!Next, Delivery!Accept, Delivery!Refuse, Delivery!Settle
<1>3. CASE Stage(a) = "owed" /\ Stage(a)' = "owed" /\ copies' = [copies EXCEPT ![a] = @ + 1]
  <2>1. stage' = stage /\ stage[a] = "owed"
    BY <1>3
  <2> QED BY <1>3, <2>1 DEF Delivery!Next, Delivery!Show
<1> QED BY <1>1, <1>2, <1>3

LEMMA DeliveryWriters ==
  ASSUME BatchInv, Writers
  PROVE  [Delivery!Next]_(Delivery!vars)
<1> USE DEF BatchInv, UnseenInv, worker, history
<1> PICK a \in Alerts : StampAlert(a) \/ InsertRow(a) \/ InsertFails(a) \/ FallDue(a)
  BY DEF Writers
<1>1. /\ UNCHANGED copies
      /\ \A b \in Alerts \ {a} : status'[b] = status[b]
      /\ \/ status[a] \in {"unborn", "inserting"}
            /\ status'[a] \in {"inserting", "PENDING", "refused"}
         \/ status'[a] = status[a]
  BY DEF StampAlert, InsertRow, InsertFails, FallDue, RelayTypeOK
<1> QED BY <1>1, DeliverySteps DEF Stage

LEMMA DeliveryRelay ==
  ASSUME OneRelay, BatchInv, NEW w \in Relays, Work(w) \/ Fault(w)
  PROVE  [Delivery!Next]_(Delivery!vars)
<1> USE DEF BatchInv, UnseenInv, RelayTypeOK, table, worker, history
<1>1. CASE \A a \in Alerts : status'[a] # status[a] =>
              status[a] = "PENDING" /\ status'[a] = "PROCESSING"
  <2>1. \A a \in Alerts : Stage(a)' = Stage(a)
    BY <1>1 DEF Stage
  <2>2. CASE UNCHANGED copies
    BY <2>1, <2>2, DeliveryStutters
  <2>3. ASSUME NEW a \in Alerts, Sending(w, a), copies' = [copies EXCEPT ![a] = @ + 1]
        PROVE  [Delivery!Next]_(Delivery!vars)
    <3>1. status[a] = "PROCESSING"
      BY <2>3 DEF Sending, Current, HeldClaimed
    <3>2. Stage(a) = "owed"
      BY <3>1 DEF Stage
    <3>3. RelayTypeOK
      OBVIOUS
    <3> HIDE DEF BatchInv, UnseenInv, RelayTypeOK, table, worker, history
    <3> QED BY <2>1, <2>3, <3>2, <3>3, DeliverySteps
  <2>4. UNCHANGED copies \/ \E a \in Alerts :
          Sending(w, a) /\ copies' = [copies EXCEPT ![a] = @ + 1]
    BY DEF Work, Fault, Handle, Select, Claim, Leave, SendOk, SendRefused, SendErrs,
           FormatFails, MarkDelivered, MarkFailed, FetchFails, Stop, Interrupt, Restart,
           MarkDeliveredFails, MarkFailedFails
  <2> QED BY <2>2, <2>3, <2>4
<1>2. ASSUME NEW a \in Alerts, Current(w, a), UNCHANGED copies,
             \A b \in Alerts \ {a} : status'[b] = status[b],
             \/ status'[a] = "PENDING" /\ status[a] # "deleted"
             \/ status'[a] = "deleted" /\ copies[a] > 0
             \/ status'[a] = status[a]
      PROVE  [Delivery!Next]_(Delivery!vars)
  <2>1. status[a] \in {"PENDING", "PROCESSING", "deleted"}
    BY <1>2 DEF Current, KnownRows
  <2> QED BY <1>2, <2>1, DeliverySteps DEF Stage
<1>3. ASSUME NEW a \in Alerts,
             \/ MarkDelivered(w, a) \/ MarkDeliveredFails(w, a)
             \/ MarkFailed(w, a) \/ MarkFailedFails(w, a)
      PROVE  [Delivery!Next]_(Delivery!vars)
  BY <1>2, <1>3 DEF MarkDelivered, MarkDeliveredFails, MarkFailed, MarkFailedFails,
                    Deleted, Requeued, ShownBeforeDelete
<1>4. CASE Claim(w) \/ FetchFails(w)
  BY <1>1, <1>4 DEF Claim, FetchFails, Claimed, Transitioned
<1>5. CASE UNCHANGED table
  BY <1>1, <1>5
<1> QED BY <1>3, <1>4, <1>5
        DEF Work, Fault, Handle, Select, Leave, SendOk, SendRefused, SendErrs,
            FormatFails, Stop, Interrupt, Restart

LEMMA DeliveryNext ==
  ASSUME OneRelay
  PROVE  BatchInv /\ [RelayNext]_relayVars => [Delivery!Next]_(Delivery!vars)
<1> SUFFICES ASSUME BatchInv, [RelayNext]_relayVars PROVE [Delivery!Next]_(Delivery!vars)
  OBVIOUS
<1>1. CASE UNCHANGED relayVars
  <2>1. UNCHANGED status /\ UNCHANGED copies
    BY <1>1 DEF relayVars, table, history
  <2> QED BY <2>1, DeliveryStutters DEF BatchInv, UnseenInv, Stage
<1>2. CASE RelayNext
  BY <1>2, DeliveryWriters, DeliveryRelay DEF RelayNext
<1> QED BY <1>1, <1>2

(* One relay, its table and its faults implement AlertDelivery: an alert   *)
(* is shown only while it is owed and settled only after it was shown.     *)
THEOREM RelayImplementsDelivery == OneRelay => (RelaySpec => ImplementsDelivery)
<1> SUFFICES ASSUME OneRelay PROVE RelaySpec => Delivery!Spec
  BY DEF ImplementsDelivery
<1>1. BatchInv /\ [RelayNext]_relayVars => [Delivery!Next]_(Delivery!vars)
  BY DeliveryNext
<1> QED BY <1>1, DeliveryInit, BatchAlways, PTL DEF RelaySpec, Delivery!Spec
=============================================================================
