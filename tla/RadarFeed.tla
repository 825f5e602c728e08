------------------------------ MODULE RadarFeed ------------------------------
(***************************************************************************)
(* From the exchange to the alert sink: the reader tasks of                *)
(* BybitWSIngestion (one per WebSocket connection, each with its share of  *)
(* the symbols), the one DollarBarEngine they all feed, the rate limiter   *)
(* and the two dispatchers of RadarPipeline, and the adaptive thresholds.  *)
(*                                                                         *)
(* A reader gives up the event loop only where it dials, subscribes, waits *)
(* for a message, sleeps, or awaits the alert sink; between those points   *)
(* its steps are atomic, and at them every other task may run.             *)
(*                                                                         *)
(* The trades of a symbol are numbered by the exchange, and a message      *)
(* carries an interval of them.  The verdict of the detectors and of the   *)
(* VPIN engine is left open (VpinEngine models the latter).                *)
(***************************************************************************)
EXTENDS Integers, Sequences

CONSTANTS
  Symbols, Conns,
  ConnOf,       \* the connection each symbol is subscribed on
  Usd,          \* the notionals a trade may have
  Thresholds,   \* the dollar thresholds the provider may hand out
  BackoffCap,   \* backoff 1.7^BackoffCap is the cap of 60 s (8 in the code)
  MaxTrades,    \* bound: the number of trades of each symbol
  MaxInbox,     \* bound: messages buffered per connection
  Garblable,    \* bound: the symbols of which a message may be unreadable
  Loud          \* bound: the symbols alerts may be raised for

ASSUME FeedAssumption ==
  /\ ConnOf \in [Symbols -> Conns]
  /\ Usd \subseteq Nat \ {0}
  /\ Thresholds \subseteq Nat \ {0}
  /\ Symbols # {} /\ MaxTrades \in [Symbols -> Nat]
  /\ BackoffCap \in Nat /\ MaxInbox \in Nat /\ Garblable \subseteq Symbols
  /\ Loud \subseteq Symbols

VARIABLES
  phase,      \* where run() of each connection is
  backoff,    \* exponent of the connection's backoff
  heard,      \* first_tick_seen
  inbox,      \* messages received and not read yet
  at,         \* what the reader does with the message it took
  msg,        \* that message
  next,       \* the number of its next trade
  bar,        \* the open bar of each symbol
  threshold,  \* the provider's cache
  cooling,    \* keys of the rate limiter whose cooldown runs
  \* observation only
  traded,     \* trades of each symbol the exchange has executed
  closed,     \* the last closed bar of each symbol
  garbled     \* symbols of which a message was unreadable

net   == <<phase, backoff, heard, inbox>>
task  == <<at, msg, next>>
radar == <<bar, threshold, cooling>>
ghost == <<traded, closed, garbled>>
vars  == <<net, task, radar, ghost>>

(* A bar of the trades first..last; n of them were added up. *)
NoBar == [usd |-> 0, first |-> 0, last |-> 0, n |-> 0]

NoBars == [s \in Symbols |-> NoBar]

(* A message: trades lo..hi of sym, and what reading past them does.  The  *)
(* acknowledgement of a subscription and a pong carry no trade.            *)
Message(s, lo, hi, tail) == [sym |-> s, lo |-> lo, hi |-> hi, tail |-> tail]
Nothing == Message(CHOOSE s \in Symbols : TRUE, 1, 0, "end")

Init ==
  /\ phase = [c \in Conns |-> "dialing"]
  /\ backoff = [c \in Conns |-> 0]
  /\ heard = [c \in Conns |-> FALSE]
  /\ inbox = [c \in Conns |-> <<>>]
  /\ at = [c \in Conns |-> "waiting"]
  /\ msg = [c \in Conns |-> Nothing]
  /\ next = [c \in Conns |-> 1]
  /\ bar = NoBars
  /\ threshold \in [Symbols -> Thresholds]
  /\ cooling = {}
  /\ traded = [s \in Symbols |-> 0]
  /\ closed = [s \in Symbols |-> NoBar]
  /\ garbled = {}

-----------------------------------------------------------------------------
(* The connection.                                                         *)

(* Mutant: the reconnect leaves the shared engine alone. *)
ConnectKeepsBars(c) ==
  /\ phase[c] = "dialing"
  /\ phase' = [phase EXCEPT ![c] = "subscribing"]
  /\ heard' = [heard EXCEPT ![c] = FALSE]
  /\ UNCHANGED <<backoff, inbox, task, radar, ghost>>

(* ws_connect succeeds: every open bar is discarded, those of the other    *)
(* connections too, before this connection subscribes.                     *)
Connect(c) ==
  /\ phase[c] = "dialing"
  /\ phase' = [phase EXCEPT ![c] = "subscribing"]
  /\ heard' = [heard EXCEPT ![c] = FALSE]
  /\ bar' = NoBars
  /\ UNCHANGED <<backoff, inbox, task, threshold, cooling, ghost>>

Subscribe(c) ==
  /\ phase[c] = "subscribing"
  /\ phase' = [phase EXCEPT ![c] = "reading"]
  /\ UNCHANGED <<backoff, heard, inbox, task, radar, ghost>>

(* Dialing or subscribing fails. *)
Refused(c) ==
  /\ phase[c] \in {"dialing", "subscribing"}
  /\ phase' = [phase EXCEPT ![c] = "sleeping"]
  /\ UNCHANGED <<backoff, heard, inbox, task, radar, ghost>>

(* The socket breaks.  What was received before is still read. *)
Break(c) ==
  /\ phase[c] = "reading"
  /\ phase' = [phase EXCEPT ![c] = "closing"]
  /\ UNCHANGED <<backoff, heard, inbox, task, radar, ghost>>

Closed(c) ==
  /\ phase[c] = "closing"
  /\ at[c] = "waiting"
  /\ inbox[c] = <<>>
  /\ phase' = [phase EXCEPT ![c] = "sleeping"]
  /\ UNCHANGED <<backoff, heard, inbox, task, radar, ghost>>

Redial(c) ==
  /\ phase[c] = "sleeping"
  /\ phase' = [phase EXCEPT ![c] = "dialing"]
  /\ backoff' = [backoff EXCEPT ![c] = IF @ < BackoffCap THEN @ + 1 ELSE @]
  /\ UNCHANGED <<heard, inbox, task, radar, ghost>>

-----------------------------------------------------------------------------
(* The exchange.                                                           *)

Arrives(c, m) ==
  /\ phase[c] = "reading"
  /\ Len(inbox[c]) < MaxInbox
  /\ inbox' = [inbox EXCEPT ![c] = Append(@, m)]
  /\ UNCHANGED <<phase, backoff, heard, task, radar, closed>>

(* Trades of s up to number hi are executed and sent. *)
Publish(s, hi) ==
  /\ hi \in traded[s] + 1 .. MaxTrades[s]
  /\ Arrives(ConnOf[s], Message(s, traded[s] + 1, hi, "end"))
  /\ traded' = [traded EXCEPT ![s] = hi]
  /\ UNCHANGED garbled

(* They are sent, and the message is unreadable after the first k of them: *)
(* a key is missing and the rest is skipped, or a number is no number and  *)
(* the exception breaks the connection.                                    *)
PublishGarbled(s, hi, k, tail) ==
  /\ s \in Garblable \ garbled
  /\ hi \in traded[s] + 1 .. MaxTrades[s]
  /\ k \in traded[s] .. hi - 1
  /\ tail \in {"end", "raise"}
  /\ Arrives(ConnOf[s], Message(s, traded[s] + 1, k, tail))
  /\ traded' = [traded EXCEPT ![s] = hi]
  /\ garbled' = garbled \cup {s}

(* They are executed while nobody listens. *)
Miss(s) ==
  /\ traded[s] < MaxTrades[s]
  /\ phase[ConnOf[s]] # "reading"
  /\ traded' = [traded EXCEPT ![s] = @ + 1]
  /\ UNCHANGED <<net, task, radar, closed, garbled>>

(* An acknowledgement or a pong. *)
Chatter(c) ==
  /\ Arrives(c, Nothing)
  /\ UNCHANGED <<traded, garbled>>

-----------------------------------------------------------------------------
(* The reader.                                                             *)

(* Mutant: the message stays in the buffer. *)
ReadPeeks(c) ==
  /\ phase[c] \in {"reading", "closing"}
  /\ at[c] = "waiting"
  /\ inbox[c] # <<>>
  /\ msg' = [msg EXCEPT ![c] = Head(inbox[c])]
  /\ next' = [next EXCEPT ![c] = Head(inbox[c]).lo]
  /\ at' = [at EXCEPT ![c] = "trades"]
  /\ UNCHANGED <<net, radar, ghost>>

Read(c) ==
  /\ phase[c] \in {"reading", "closing"}
  /\ at[c] = "waiting"
  /\ inbox[c] # <<>>
  /\ msg' = [msg EXCEPT ![c] = Head(inbox[c])]
  /\ next' = [next EXCEPT ![c] = Head(inbox[c]).lo]
  /\ inbox' = [inbox EXCEPT ![c] = Tail(@)]
  /\ at' = [at EXCEPT ![c] = "trades"]
  /\ UNCHANGED <<phase, backoff, heard, radar, ghost>>

HasTrade(c) == next[c] <= msg[c].hi

NextTrade(c) == next' = [next EXCEPT ![c] = @ + 1]

Extended(b, n, usd) ==
  [usd |-> b.usd + usd, first |-> IF b.n = 0 THEN n ELSE b.first, last |-> n, n |-> b.n + 1]

(* A bar closes when it reaches its threshold, and is gone from the engine *)
(* before the callback runs.                                               *)
Closes(b, s) == b.usd >= threshold[s]

(* The trade is added to its bar.  A closed bar may be an anomaly, and if  *)
(* the limiter lets it pass the reader awaits the alert sink.              *)
Aggregate(c, busy) ==
  LET s == msg[c].sym IN
  \E usd \in Usd :
    LET b == Extended(bar[s], next[c], usd) IN
    /\ UNCHANGED <<net, msg, threshold, traded, garbled>>
    /\ \/ /\ ~Closes(b, s)
          /\ bar' = [bar EXCEPT ![s] = b]
          /\ cooling' = busy
          /\ at' = [at EXCEPT ![c] = "trades"]
          /\ NextTrade(c)
          /\ UNCHANGED closed
       \/ /\ Closes(b, s)
          /\ bar' = [bar EXCEPT ![s] = NoBar]
          /\ closed' = [closed EXCEPT ![s] = b]
          /\ \/ /\ cooling' = busy
                /\ at' = [at EXCEPT ![c] = "trades"]
                /\ NextTrade(c)
             \/ /\ s \in Loud /\ <<"VPIN", s>> \notin busy
                /\ cooling' = busy \cup {<<"VPIN", s>>}
                /\ at' = [at EXCEPT ![c] = "alerting"]
                /\ UNCHANGED next

(* No detector fires on the trade, or the limiter holds its alert back. *)
Process(c) ==
  /\ at[c] = "trades"
  /\ HasTrade(c)
  /\ Aggregate(c, cooling)

(* A detector fires: its alert is awaited before the bar sees the trade. *)
Detect(c) ==
  /\ at[c] = "trades"
  /\ HasTrade(c)
  /\ msg[c].sym \in Loud /\ <<"LIQUIDITY", msg[c].sym>> \notin cooling
  /\ cooling' = cooling \cup {<<"LIQUIDITY", msg[c].sym>>}
  /\ at' = [at EXCEPT ![c] = "warning"]
  /\ UNCHANGED <<net, msg, next, bar, threshold, ghost>>

(* The sink has answered or raised, which the dispatcher swallows. *)
Warned(c) ==
  /\ at[c] = "warning"
  /\ Aggregate(c, cooling)

Alerted(c) ==
  /\ at[c] = "alerting"
  /\ at' = [at EXCEPT ![c] = "trades"]
  /\ NextTrade(c)
  /\ UNCHANGED <<net, msg, radar, ghost>>

(* The reader's locals are gone. *)
Forget(c) == /\ at' = [at EXCEPT ![c] = "waiting"]
             /\ msg' = [msg EXCEPT ![c] = Nothing]
             /\ next' = [next EXCEPT ![c] = 1]

(* The message is done.  The first one since the connection was made, of   *)
(* whatever content, resets the backoff.                                   *)
FinishMessage(c) ==
  /\ at[c] = "trades"
  /\ ~HasTrade(c)
  /\ msg[c].tail = "end"
  /\ Forget(c)
  /\ heard' = [heard EXCEPT ![c] = TRUE]
  /\ backoff' = [backoff EXCEPT ![c] = IF heard[c] THEN @ ELSE 0]
  /\ UNCHANGED <<phase, inbox, radar, ghost>>

(* The message raises: the socket is left with all that it still buffers. *)
MessageRaises(c) ==
  /\ at[c] = "trades"
  /\ ~HasTrade(c)
  /\ msg[c].tail = "raise"
  /\ Forget(c)
  /\ phase' = [phase EXCEPT ![c] = "sleeping"]
  /\ inbox' = [inbox EXCEPT ![c] = <<>>]
  /\ UNCHANGED <<backoff, heard, radar, ghost>>

-----------------------------------------------------------------------------
(* The clock and the threshold provider.                                   *)

CoolDown(key) ==
  /\ key \in cooling
  /\ cooling' = cooling \ {key}
  /\ UNCHANGED <<net, task, bar, threshold, ghost>>

(* A refresh replaces the whole cache at once, or leaves it alone. *)
Refresh ==
  /\ \E t \in [Symbols -> Thresholds] : threshold' = t
  /\ UNCHANGED <<net, task, bar, cooling, ghost>>

-----------------------------------------------------------------------------

Exchange == \/ \E s \in Symbols : Miss(s)
            \/ \E s \in Symbols : \E hi \in 1 .. MaxTrades[s] :
                  \/ Publish(s, hi)
                  \/ \E k \in 0 .. hi, tail \in {"end", "raise"} :
                       PublishGarbled(s, hi, k, tail)
            \/ \E c \in Conns : Chatter(c)

Reader(c) == \/ Read(c) \/ Process(c) \/ Detect(c) \/ Warned(c) \/ Alerted(c)
             \/ FinishMessage(c) \/ MessageRaises(c) \/ Closed(c) \/ Redial(c)

Line(c) == Connect(c) \/ Subscribe(c) \/ Refused(c) \/ Break(c)

Next == \/ Exchange
        \/ \E c \in Conns : Reader(c) \/ Line(c)
        \/ \E key \in cooling : CoolDown(key)
        \/ Refresh

Spec == Init /\ [][Next]_vars

-----------------------------------------------------------------------------
(* Properties.                                                             *)

Bars == [usd : Nat, first : Nat, last : Nat, n : Nat]
Messages == [sym : Symbols, lo : Nat, hi : Nat, tail : {"end", "raise"}]

TypeOK ==
  /\ phase \in [Conns -> {"dialing", "subscribing", "reading", "closing", "sleeping"}]
  /\ backoff \in [Conns -> 0 .. BackoffCap]
  /\ heard \in [Conns -> BOOLEAN]
  /\ inbox \in [Conns -> Seq(Messages)]
  /\ at \in [Conns -> {"waiting", "trades", "warning", "alerting"}]
  /\ msg \in [Conns -> Messages]
  /\ next \in [Conns -> Nat]
  /\ bar \in [Symbols -> Bars]
  /\ threshold \in [Symbols -> Thresholds]
  /\ cooling \subseteq {"VPIN", "LIQUIDITY"} \X Symbols
  /\ traded \in [Symbols -> Nat]
  /\ closed \in [Symbols -> Bars]
  /\ garbled \subseteq Symbols

Contiguous(b) == b.n > 0 => b.n = b.last - b.first + 1

(* No bar, open or closed, bridges a gap of the feed: however connections  *)
(* break and come back, and whoever resets the shared engine meanwhile, a  *)
(* bar adds up consecutive trades of its symbol.  Only a message that      *)
(* could not be parsed leaves a hole.                                      *)
NoGapInBar ==
  \A s \in Symbols \ garbled : Contiguous(bar[s]) /\ Contiguous(closed[s])

(* Bars of a symbol follow each other: no trade is in two of them, and a   *)
(* bar is never handed on after a later one.                               *)
BarsInOrder ==
  [][\A s \in Symbols : closed'[s] # closed[s] => closed'[s].first > closed[s].last]_vars
=============================================================================
