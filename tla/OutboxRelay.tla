----------------------------- MODULE OutboxRelay -----------------------------
(***************************************************************************)
(* The transactional outbox between the radar and Telegram: the table      *)
(* outbox_events, the two writers of rows (OutboxAlertSink and             *)
(* OutboxRepository.save_alert_atomically), the TelegramRelayWorker        *)
(* processes that claim, send and delete rows, and the three HTTP attempts *)
(* of TelegramRadarNotifier.notify.  One relay per process.                *)
(*                                                                         *)
(* Every await of the worker is a point where the other processes step,    *)
(* where the process may die, and where the database or Telegram may fail. *)
(* A row's created_at is taken before the INSERT is awaited, so rows need  *)
(* not be committed in the order of their timestamps.                      *)
(***************************************************************************)
EXTENDS Naturals, FiniteSets

CONSTANTS
  Alerts,        \* the alerts that may ever be raised
  Urgent,        \* those written by OutboxAlertSink (priority 1; the others have 2)
  Poison,        \* those whose payload makes the formatter raise
  Relays,        \* relay processes
  BatchSize,     \* LIMIT of the SELECT (5 in the code)
  Attempts,      \* HTTP attempts of one notify (3 in the code)
  MaxDbFaults,   \* bound: database errors in a behaviour
  MaxInterrupts, \* bound: crashes and cancellations in a behaviour
  MaxLostAcks    \* bound: answers of Telegram lost per alert

ASSUME OutboxAssumption ==
  /\ Urgent \subseteq Alerts /\ Poison \subseteq Alerts
  /\ BatchSize \in Nat \ {0}
  /\ Attempts \in Nat \ {0}
  /\ MaxDbFaults \in Nat /\ MaxInterrupts \in Nat /\ MaxLostAcks \in Nat

VARIABLES
  status,     \* status column of each row; "unborn" before, "deleted" after
  stamp,      \* created_at of each row, as a logical time
  due,        \* rows whose execute_after has passed
  clock,      \* the next timestamp
  pc,         \* where each worker is in run()
  running,    \* the worker's _running flag
  seen,       \* the rows its SELECT returned
  held,       \* the messages of its batch not handled yet
  attempt,    \* attempts of _send_text_with_retry used on the current message
  \* observation only: no action of the code depends on what follows
  copies,     \* copies of the alert that reached the operator's chat
  losses,     \* copies the worker did not learn of or could not record
  disturbed,  \* a crash, a cancellation or a database error has happened
  dbFaults, interrupts

table     == <<status, stamp, due, clock>>
worker    == <<pc, running, seen, held, attempt>>
history   == <<copies, losses, disturbed, dbFaults, interrupts>>
relayVars == <<table, worker, history>>

RowStatus == {"unborn", "inserting", "refused", "PENDING", "PROCESSING", "deleted"}
WorkerPc  == {"fetch", "claim", "send", "delete", "defer", "requeue", "down"}

RelayInit ==
  /\ status = [a \in Alerts |-> "unborn"]
  /\ stamp = [a \in Alerts |-> 0]
  /\ due = {}
  /\ clock = 1
  /\ pc = [w \in Relays |-> "fetch"]
  /\ running = [w \in Relays |-> TRUE]
  /\ seen = [w \in Relays |-> {}]
  /\ held = [w \in Relays |-> {}]
  /\ attempt = [w \in Relays |-> 0]
  /\ copies = [a \in Alerts |-> 0]
  /\ losses = [a \in Alerts |-> 0]
  /\ disturbed = FALSE
  /\ dbFaults = 0
  /\ interrupts = 0

-----------------------------------------------------------------------------
(* The writers.  The pipeline swallows a failed INSERT: the alert is gone. *)

StampAlert(a) ==
  /\ status[a] = "unborn"
  /\ status' = [status EXCEPT ![a] = "inserting"]
  /\ stamp' = [stamp EXCEPT ![a] = clock]
  /\ clock' = clock + 1
  /\ UNCHANGED <<due, worker, history>>

InsertRow(a) ==
  /\ status[a] = "inserting"
  /\ status' = [status EXCEPT ![a] = "PENDING"]
  /\ due' = due \cup {a}
  /\ UNCHANGED <<stamp, clock, worker, history>>

InsertFails(a) ==
  /\ status[a] = "inserting"
  /\ dbFaults < MaxDbFaults
  /\ status' = [status EXCEPT ![a] = "refused"]
  /\ dbFaults' = dbFaults + 1
  /\ UNCHANGED <<stamp, due, clock, worker, copies, losses, disturbed, interrupts>>

(* Time passes a row's execute_after. *)
FallDue(a) ==
  /\ status[a] = "PENDING"
  /\ a \notin due
  /\ due' = due \cup {a}
  /\ UNCHANGED <<status, stamp, clock, worker, history>>

-----------------------------------------------------------------------------
(* fetch_pending: SELECT ... ORDER BY priority, created_at LIMIT n, then   *)
(* UPDATE ... WHERE id IN (...) AND status = 'PENDING'.                    *)

Claimable == {a \in due : status[a] = "PENDING"}

Before(a, b) == \/ a \in Urgent /\ b \notin Urgent
                \/ (a \in Urgent <=> b \in Urgent) /\ stamp[a] < stamp[b]

(* S is what the first n rows of T in the order of the SELECT are. *)
Leading(S, T, n) ==
  /\ S \subseteq T
  /\ \A a \in S, b \in T \ S : Before(a, b)
  /\ Cardinality(S) = IF Cardinality(T) < n THEN Cardinality(T) ELSE n

Select(w) ==
  /\ pc[w] = "fetch"
  /\ running[w]
  /\ Claimable # {}
  /\ \E S \in SUBSET Claimable :
       /\ Leading(S, Claimable, BatchSize)
       /\ seen' = [seen EXCEPT ![w] = S]
  /\ pc' = [pc EXCEPT ![w] = "claim"]
  /\ UNCHANGED <<table, running, held, attempt, history>>

Transitioned(w) == {a \in seen[w] : status[a] = "PENDING"}

(* Mutants: an UPDATE that is not committed, and a claim that pops the row. *)
ClaimedUncommitted(w) == status
ClaimedByDelete(w) == [a \in Alerts |-> IF a \in Transitioned(w) THEN "deleted" ELSE status[a]]

Claimed(w) == [a \in Alerts |-> IF a \in Transitioned(w) THEN "PROCESSING" ELSE status[a]]

(* The messages returned are rows[:claimed_count], the leading ones of the *)
(* SELECT, and not the rows the UPDATE transitioned.                       *)
Claim(w) ==
  /\ pc[w] = "claim"
  /\ status' = Claimed(w)
  /\ \E S \in SUBSET seen[w] :
       /\ Leading(S, seen[w], Cardinality(Transitioned(w)))
       /\ held' = [held EXCEPT ![w] = S]
       /\ pc' = [pc EXCEPT ![w] = IF S = {} THEN "fetch" ELSE "send"]
  /\ seen' = [seen EXCEPT ![w] = {}]
  /\ UNCHANGED <<stamp, due, clock, running, attempt, history>>

(* The message the loop over the batch is at. *)
Current(w, a) == /\ a \in held[w]
                 /\ \A b \in held[w] \ {a} : Before(a, b)

(* The loop goes on with the rest of the batch, or polls again. *)
Advance(w, a) ==
  /\ held' = [held EXCEPT ![w] = @ \ {a}]
  /\ pc' = [pc EXCEPT ![w] = IF held[w] = {a} THEN "fetch" ELSE "send"]
  /\ attempt' = [attempt EXCEPT ![w] = 0]
  /\ UNCHANGED <<running, seen>>

Goto(w, label) ==
  /\ pc' = [pc EXCEPT ![w] = label]
  /\ attempt' = [attempt EXCEPT ![w] = 0]
  /\ UNCHANGED <<running, seen, held>>

(* The worker's task ends and with it everything it held in memory. *)
GoDown(w) ==
  /\ pc' = [pc EXCEPT ![w] = "down"]
  /\ seen' = [seen EXCEPT ![w] = {}]
  /\ held' = [held EXCEPT ![w] = {}]
  /\ attempt' = [attempt EXCEPT ![w] = 0]
  /\ UNCHANGED running

DbFault == /\ dbFaults < MaxDbFaults
           /\ dbFaults' = dbFaults + 1
           /\ disturbed' = TRUE
           /\ UNCHANGED interrupts

(* An exception in fetch_pending leaves run(): main only logs it and the   *)
(* relay stays down.  An error of the commit may hide a committed UPDATE.  *)
FetchFails(w) ==
  /\ pc[w] = "claim" \/ (pc[w] = "fetch" /\ running[w])
  /\ status' \in {status, Claimed(w)}
  /\ GoDown(w)
  /\ DbFault
  /\ UNCHANGED <<stamp, due, clock, copies, losses>>

-----------------------------------------------------------------------------
(* notify: up to Attempts HTTP posts, once the payload is formatted.       *)

Sending(w, a) == /\ pc[w] = "send"
                 /\ Current(w, a)
                 /\ a \notin Poison

(* Mutants: notify forgets to return True; the worker ignores a False. *)
SendOkUnreported(w, a) ==
  /\ Sending(w, a)
  /\ copies' = [copies EXCEPT ![a] = @ + 1]
  /\ Goto(w, "defer")
  /\ UNCHANGED <<table, losses, disturbed, dbFaults, interrupts>>
SendRefusedIgnored(w, a) == Sending(w, a) /\ Goto(w, "delete") /\ UNCHANGED <<table, history>>

(* 200: notify returns True. *)
SendOk(w, a) ==
  /\ Sending(w, a)
  /\ copies' = [copies EXCEPT ![a] = @ + 1]
  /\ Goto(w, "delete")
  /\ UNCHANGED <<table, losses, disturbed, dbFaults, interrupts>>

(* 429 or an unreachable proxy: notify returns False at once. *)
SendRefused(w, a) ==
  /\ Sending(w, a)
  /\ Goto(w, "defer")
  /\ UNCHANGED <<table, history>>

(* Another HTTP status or an exception: the next attempt, False after the  *)
(* last.  An exception may hide a message that did reach the chat.         *)
SendErrs(w, a) ==
  /\ Sending(w, a)
  /\ IF attempt[w] + 1 < Attempts
       THEN /\ attempt' = [attempt EXCEPT ![w] = @ + 1]
            /\ UNCHANGED <<pc, running, seen, held>>
       ELSE Goto(w, "defer")
  /\ \/ UNCHANGED <<copies, losses>>
     \/ /\ losses[a] < MaxLostAcks
        /\ copies' = [copies EXCEPT ![a] = @ + 1]
        /\ losses' = [losses EXCEPT ![a] = @ + 1]
  /\ UNCHANGED <<table, disturbed, dbFaults, interrupts>>

(* The formatter raises before anything is sent. *)
FormatFails(w, a) ==
  /\ pc[w] = "send"
  /\ Current(w, a)
  /\ a \in Poison
  /\ Goto(w, "requeue")
  /\ UNCHANGED <<table, history>>

-----------------------------------------------------------------------------
(* Recording the outcome.                                                  *)

Deleted(a) == [status EXCEPT ![a] = "deleted"]

MarkDelivered(w, a) ==
  /\ pc[w] = "delete"
  /\ Current(w, a)
  /\ status' = Deleted(a)
  /\ Advance(w, a)
  /\ UNCHANGED <<stamp, due, clock, history>>

(* The DELETE fails after the message was sent: the handler of run() puts  *)
(* the row back for another delivery, unless the DELETE did commit.        *)
MarkDeliveredFails(w, a) ==
  /\ pc[w] = "delete"
  /\ Current(w, a)
  /\ \/ UNCHANGED status /\ losses' = [losses EXCEPT ![a] = @ + 1]
     \/ status' = Deleted(a) /\ UNCHANGED losses
  /\ Goto(w, "requeue")
  /\ DbFault
  /\ UNCHANGED <<stamp, due, clock, copies>>

(* Mutant: a retry that forgets the status. *)
RequeuedKeepsStatus(a) == status

(* mark_failed_for_retry: UPDATE by id, whatever the status of the row. *)
Requeued(a) == [status EXCEPT ![a] = IF @ = "deleted" THEN @ ELSE "PENDING"]

MarkFailed(w, a) ==
  /\ pc[w] \in {"defer", "requeue"}
  /\ Current(w, a)
  /\ status' = Requeued(a)
  /\ due' = due \ {a}
  /\ Advance(w, a)
  /\ UNCHANGED <<stamp, clock, history>>

(* A failure in the try block is handled by a second UPDATE; a failure in  *)
(* the handler itself leaves run().                                        *)
MarkFailedFails(w, a) ==
  /\ pc[w] \in {"defer", "requeue"}
  /\ Current(w, a)
  /\ \/ UNCHANGED <<status, due>>
     \/ status' = Requeued(a) /\ due' = due \ {a}
  /\ IF pc[w] = "defer" THEN Goto(w, "requeue") ELSE GoDown(w)
  /\ DbFault
  /\ UNCHANGED <<stamp, clock, copies, losses>>

-----------------------------------------------------------------------------
(* Lifecycle.  stop() is only looked at between two batches; shutdown then *)
(* cancels the task wherever it is, which is a crash as far as the table   *)
(* is concerned.                                                           *)

Stop(w) ==
  /\ pc[w] # "down"
  /\ running[w]
  /\ running' = [running EXCEPT ![w] = FALSE]
  /\ UNCHANGED <<table, pc, seen, held, attempt, history>>

Leave(w) ==
  /\ pc[w] = "fetch"
  /\ ~running[w]
  /\ GoDown(w)
  /\ UNCHANGED <<table, history>>

(* The process dies or its tasks are cancelled.  A request in flight may   *)
(* have reached Telegram; a sent message is no longer recorded as such.    *)
Interrupt(w) ==
  /\ pc[w] # "down"
  /\ interrupts < MaxInterrupts
  /\ \/ pc[w] # "delete" /\ UNCHANGED <<copies, losses>>
     \/ \E a \in held[w] :
          /\ \/ pc[w] = "delete" /\ Current(w, a) /\ UNCHANGED copies
             \/ Sending(w, a) /\ copies' = [copies EXCEPT ![a] = @ + 1]
          /\ losses' = [losses EXCEPT ![a] = @ + 1]
  /\ GoDown(w)
  /\ interrupts' = interrupts + 1
  /\ disturbed' = TRUE
  /\ UNCHANGED <<table, dbFaults>>

(* A new process: run() starts from its first line, the table is as the    *)
(* old process left it, and nothing looks for rows in PROCESSING.          *)
Restart(w) ==
  /\ pc[w] = "down"
  /\ pc' = [pc EXCEPT ![w] = "fetch"]
  /\ running' = [running EXCEPT ![w] = TRUE]
  /\ UNCHANGED <<table, seen, held, attempt, history>>

-----------------------------------------------------------------------------

Writers == \E a \in Alerts : \/ StampAlert(a) \/ InsertRow(a)
                             \/ InsertFails(a) \/ FallDue(a)

Handle(w, a) == \/ SendOk(w, a) \/ SendRefused(w, a) \/ SendErrs(w, a)
                \/ FormatFails(w, a) \/ MarkDelivered(w, a) \/ MarkFailed(w, a)

Work(w) == \/ Select(w) \/ Claim(w) \/ Leave(w)
           \/ \E a \in Alerts : Handle(w, a)

Fault(w) == \/ FetchFails(w) \/ Stop(w) \/ Interrupt(w) \/ Restart(w)
            \/ \E a \in Alerts : MarkDeliveredFails(w, a) \/ MarkFailedFails(w, a)

RelayNext == Writers \/ \E w \in Relays : Work(w) \/ Fault(w)

RelaySpec == RelayInit /\ [][RelayNext]_relayVars

(* The worker's task is scheduled, time passes, and Telegram answers 200   *)
(* to an alert that is tried over and over.                                *)
Fairness ==
  /\ \A w \in Relays : WF_relayVars(Work(w))
  /\ \A w \in Relays, a \in Alerts : SF_relayVars(SendOk(w, a))
  /\ \A a \in Alerts : WF_relayVars(FallDue(a))

FairSpec == RelaySpec /\ Fairness

-----------------------------------------------------------------------------
(* Properties.                                                             *)

RelayTypeOK ==
  /\ status \in [Alerts -> RowStatus]
  /\ stamp \in [Alerts -> Nat]
  /\ due \subseteq Alerts
  /\ clock \in Nat
  /\ pc \in [Relays -> WorkerPc]
  /\ running \in [Relays -> BOOLEAN]
  /\ seen \in [Relays -> SUBSET Alerts]
  /\ held \in [Relays -> SUBSET Alerts]
  /\ attempt \in [Relays -> Nat]
  /\ copies \in [Alerts -> Nat]
  /\ losses \in [Alerts -> Nat]
  /\ disturbed \in BOOLEAN
  /\ dbFaults \in Nat
  /\ interrupts \in Nat

(* A row leaves the table only after its alert reached the operator: no    *)
(* fault, crash or race of relays makes mark_delivered remove an alert     *)
(* that was never shown.                                                   *)
NeverDeletedUnseen == \A a \in Alerts : status[a] = "deleted" => copies[a] > 0

(* With one relay the operator sees an alert twice only for a reason: an   *)
(* answer of Telegram was lost, or the process or the database failed      *)
(* between the send and the DELETE.  Retries and requeues alone never      *)
(* repeat an alert.                                                        *)
NoUnexplainedDuplicate == \A a \in Alerts : copies[a] <= losses[a] + 1

(* A claimed row nobody holds is never claimed again (fetch_pending reads  *)
(* PENDING rows only).  With one relay that takes a crash, a cancellation  *)
(* or a database error: no sequence of refusals, retries, formatter        *)
(* failures and orderly stops strands a row.                               *)
StrandedOnlyByFailure ==
  ~disturbed => \A a \in Alerts : status[a] = "PROCESSING"
                                    => \E w \in Relays : a \in held[w]

(* What the worker believes of its batch is what the table says, whenever  *)
(* it is about to send: it never sends a row that is back in the queue or  *)
(* already deleted.                                                        *)
SendsOnlyClaimedRows ==
  \A w \in Relays : pc[w] = "send" => \A a \in held[w] : status[a] = "PROCESSING"

(* The relay implements the promise of AlertDelivery. *)
Stage(a) == CASE status[a] \in {"unborn", "inserting"}    -> "new"
              [] status[a] \in {"PENDING", "PROCESSING"} -> "owed"
              [] status[a] = "refused" -> "refused"
              [] status[a] = "deleted" -> "settled"

Delivery == INSTANCE AlertDelivery
              WITH stage <- [a \in Alerts |-> Stage(a)], shown <- copies

ImplementsDelivery == Delivery!Spec

(* Every accepted alert the formatter can print is eventually delivered    *)
(* and its row removed, however often Telegram refuses, errs or loses an   *)
(* answer, provided the process and the database do not fail.              *)
Healthy == ~disturbed /\ \A w \in Relays : running[w]

EventuallyDelivered ==
  []Healthy => \A a \in Alerts \ Poison :
                 (status[a] = "PENDING") ~> (status[a] = "deleted")
=============================================================================
