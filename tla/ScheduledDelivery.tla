------------------------- MODULE ScheduledDelivery -------------------------
(***************************************************************************)
(* The D-3/D-1 event reminders of the API: a trigger (the 09:00 cron job   *)
(* or an administrator) walks the due notices; for each it takes the       *)
(* notice's log, prepares one delivery row per subscription, and for each  *)
(* row commits a claim, calls the push service and records the result. A   *)
(* sweep every five minutes fails the logs that have not moved for         *)
(* fifteen minutes.                                                        *)
(*                                                                         *)
(* A step is a database transaction, the start of an external call or its  *)
(* answer. Every transaction may fail, a worker may be cancelled or die    *)
(* between any two steps, and several workers may serve the same notice.   *)
(***************************************************************************)
EXTENDS Integers, FiniteSets

CONSTANTS
    Workers,      \* sessions running trigger_scheduled_notifications
    Events,
    DTypes,       \* the reminder kinds, "d-3" and "d-1"
    Endpoints,    \* endpoint hashes
    BatchSize,    \* BatchConfig.batch_size
    MaxRetries,   \* BatchConfig.max_retries
    None          \* "no notice" and "no endpoint"

\* A notice is the unique key (event_id, d_type) of scheduled_notification_logs.
Notices == Events \X DTypes

ASSUME ConstantsAssumption ==
    /\ IsFiniteSet(Endpoints)
    /\ BatchSize \in Nat \ {0}
    /\ MaxRetries \in Nat
    /\ None \notin Notices \cup Endpoints

VARIABLES
    events,       \* events that have not been deleted
    subs,         \* eligible active push subscriptions
    log,          \* log[n]: the row of scheduled_notification_logs
    row,          \* row[n][e]: status in scheduled_notification_deliveries
    reached,      \* reached[n][e]: calls that are under way or may have arrived
    pc,           \* pc[w]: the next step of worker w
    notice,       \* notice[w]: the notice w is processing
    claim,        \* claim[w]: the endpoint w holds a DeliveryClaim for
    result,       \* result[w]: the status w is about to record for its claim
    task          \* task[w]: the rest of the worker's local variables

tables  == <<events, subs, log, row>>
holding == <<notice, claim, result>>
vars    == <<events, subs, log, row, reached, pc, notice, claim, result, task>>

LogStatus == {"none", "pending", "in_progress", "completed", "failed"}
RowStatus == {"none", "pending", "in_progress", "completed", "failed",
              "unknown", "abandoned"}
Results   == {"none", "completed", "failed", "unknown"}

\* stale: updated_at is older than SCHEDULED_LOG_STALE_AFTER.
LogRows == [status : LogStatus, stale : BOOLEAN, accepted : Nat, failed : Nat]

Steps == {"idle", "due", "next", "check", "mark", "select", "empty", "ensure",
          "send", "claimed", "calling", "record", "flush", "count", "final",
          "finalize"}

\* The steps inside the try block of process_single_event, and those of them
\* that talk to the database.
TrySteps == {"mark", "select", "empty", "ensure", "send", "claimed",
             "calling", "record", "flush", "count"}
TryTransactions == TrySteps \ {"claimed", "calling"}

Tasks == [due       : SUBSET Notices,     \* notices still to process
          todo      : SUBSET Endpoints,   \* subscriptions still to serve
          handled   : Nat,                \* served in the current batch
          tries     : Nat,                \* calls made for the claim
          expired   : SUBSET Endpoints,   \* answered 404 or 410 in this batch
          accepted  : Nat,                \* result.accepted
          failed    : Nat,                \* result.failed, before it len(subs)
          detached  : BOOLEAN,            \* a rollback expired the Event objects
          cancelled : BOOLEAN]

NoTask == [due |-> {}, todo |-> {}, handled |-> 0, tries |-> 0, expired |-> {},
           accepted |-> 0, failed |-> 0, detached |-> FALSE, cancelled |-> FALSE]

NoLog      == [status |-> "none", stale |-> FALSE, accepted |-> 0, failed |-> 0]
PendingLog == [NoLog EXCEPT !.status = "pending"]

Init ==
    /\ events = Events
    /\ subs \in SUBSET Endpoints
    /\ log = [n \in Notices |-> NoLog]
    /\ row = [n \in Notices |-> [e \in Endpoints |-> "none"]]
    /\ reached = [n \in Notices |-> [e \in Endpoints |-> 0]]
    /\ pc = [w \in Workers |-> "idle"]
    /\ notice = [w \in Workers |-> None]
    /\ claim = [w \in Workers |-> None]
    /\ result = [w \in Workers |-> "none"]
    /\ task = [w \in Workers |-> NoTask]

-----------------------------------------------------------------------------
(* Helpers *)

Live(n) == n[1] \in events

\* get_delivery_counts
Accepted(r)   == Cardinality({e \in Endpoints : r[e] = "completed"})
Unresolved(r) == Cardinality({e \in Endpoints :
                     r[e] \in {"pending", "in_progress", "failed", "unknown"}})

\* Mutants: the claims are left as they are; they are made retriable.
GiveUp_Nothing(r) == r
GiveUp_Retriable(r) ==
    [e \in Endpoints |-> IF r[e] = "in_progress" THEN "failed" ELSE r[e]]

\* The claims left in a log that is being failed can no longer be decided.
GiveUp(r) == [e \in Endpoints |-> IF r[e] = "in_progress" THEN "unknown" ELSE r[e]]

FailedLog(r, fallback) ==
    LET nothing == Accepted(r) = 0 /\ Unresolved(r) = 0 IN
    [status |-> "failed", stale |-> FALSE, accepted |-> Accepted(r),
     failed |-> IF nothing THEN fallback ELSE Unresolved(r)]

\* _finalize_stale_log on every notice of S, in one transaction.
FailLogs(S) ==
    /\ row' = [n \in Notices |-> IF n \in S THEN GiveUp(row[n]) ELSE row[n]]
    /\ log' = [n \in Notices |-> IF n \in S THEN FailedLog(row[n], 0) ELSE log[n]]

\* Mutant: only logs that got as far as in_progress are swept.
Stale_StartedOnly(n) == log[n].status = "in_progress" /\ log[n].stale

Open(n)  == log[n].status \in {"pending", "in_progress"}
Stale(n) == Open(n) /\ log[n].stale

At(w, step)   == pc[w] = step
Goto(w, step) == pc' = [pc EXCEPT ![w] = step]

\* The worker's session is closed and its local variables are gone.
Leave(w) ==
    /\ Goto(w, "idle")
    /\ notice' = [notice EXCEPT ![w] = None]
    /\ claim' = [claim EXCEPT ![w] = None]
    /\ result' = [result EXCEPT ![w] = "none"]
    /\ task' = [task EXCEPT ![w] = NoTask]

\* process_single_event returns: only the loop of the trigger is left.
EndNotice(w) ==
    /\ Goto(w, "next")
    /\ notice' = [notice EXCEPT ![w] = None]
    /\ claim' = [claim EXCEPT ![w] = None]
    /\ result' = [result EXCEPT ![w] = "none"]
    /\ task' = [task EXCEPT ![w] = [NoTask EXCEPT !.due = task[w].due,
                                                 !.detached = task[w].detached]]

Release(w) ==
    /\ claim' = [claim EXCEPT ![w] = None]
    /\ result' = [result EXCEPT ![w] = "none"]

\* Worker w has committed a claim it has not yet recorded a result for.
Holds(w, n, e) ==
    /\ pc[w] \in {"claimed", "calling", "record"}
    /\ notice[w] = n
    /\ claim[w] = e

-----------------------------------------------------------------------------
(* trigger_scheduled_notifications *)

\* The sweep that opens every trigger (and, in Sweep, runs every five minutes).
StartTrigger(w) ==
    /\ At(w, "idle")
    /\ FailLogs({n \in Notices : Stale(n)})
    /\ Goto(w, "due")
    /\ UNCHANGED <<events, subs, reached, notice, claim, result, task>>

\* find_events_due_for_notification: which events start in three days or
\* tomorrow depends on the date only.
FindDue(w) ==
    /\ At(w, "due")
    /\ \E due \in SUBSET {n \in Notices : Live(n)} :
           task' = [task EXCEPT ![w].due = due]
    /\ Goto(w, "next")
    /\ UNCHANGED <<tables, reached, holding>>

\* The loop takes the next notice and process_single_event reclaims its log.
\* Reading event.id needs the loaded Event: see AbortDetached.
NextNotice(w) ==
    /\ At(w, "next")
    /\ ~task[w].detached
    /\ \E n \in task[w].due :
           /\ FailLogs({n} \cap {m \in Notices : Stale(m)})
           /\ notice' = [notice EXCEPT ![w] = n]
           /\ task' = [task EXCEPT ![w].due = @ \ {n}]
    /\ Goto(w, "check")
    /\ UNCHANGED <<events, subs, reached, claim, result>>

\* After a rollback the remaining Event objects are expired; touching one
\* outside the try block raises and ends the trigger.
AbortDetached(w) ==
    /\ At(w, "next")
    /\ task[w].detached
    /\ task[w].due # {}
    /\ Leave(w)
    /\ UNCHANGED <<tables, reached>>

EndTrigger(w) ==
    /\ At(w, "next")
    /\ task[w].due = {}
    /\ Leave(w)
    /\ UNCHANGED <<tables, reached>>

-----------------------------------------------------------------------------
(* process_single_event *)

\* create_notification_log inserts a missing log and reopens a failed one.
CreateLog(w) ==
    LET n == notice[w] IN
    /\ At(w, "check")
    /\ Live(n)
    /\ log[n].status \in {"none", "failed"}
    /\ log' = [log EXCEPT ![n] = PendingLog]
    /\ Goto(w, "mark")
    /\ UNCHANGED <<events, subs, row, reached, holding, task>>

\* is_already_sent, or the insert hit a row another worker has open.
SkipNotice(w) ==
    /\ At(w, "check")
    /\ log[notice[w]].status \in {"pending", "in_progress", "completed"}
    /\ EndNotice(w)
    /\ UNCHANGED <<tables, reached>>

\* The event was deleted after it was found due: the insert breaks the
\* foreign key, outside the try block.
CreateFails(w) ==
    /\ At(w, "check")
    /\ ~Live(notice[w])
    /\ Leave(w)
    /\ UNCHANGED <<tables, reached>>

\* Writing through the ORM to a log whose row is gone raises StaleDataError.
LogGone(w) == log[notice[w]].status = "none"

MarkInProgress(w) ==
    LET n == notice[w] IN
    /\ At(w, "mark")
    /\ ~LogGone(w)
    /\ log' = [log EXCEPT ![n].status = "in_progress", ![n].stale = FALSE]
    /\ Goto(w, "select")
    /\ UNCHANGED <<events, subs, row, reached, holding, task>>

\* get_eligible_subscriptions
SelectSubscriptions(w) ==
    /\ At(w, "select")
    /\ task' = [task EXCEPT ![w].todo = subs, ![w].failed = Cardinality(subs)]
    /\ Goto(w, IF subs = {} THEN "empty" ELSE "ensure")
    /\ UNCHANGED <<tables, reached, holding>>

\* Nobody to send to: completed at once, the delivery rows are not looked at.
CompleteEmpty(w) ==
    LET n == notice[w] IN
    /\ At(w, "empty")
    /\ ~LogGone(w)
    /\ log' = [log EXCEPT ![n].status = "completed", ![n].stale = FALSE]
    /\ EndNotice(w)
    /\ UNCHANGED <<events, subs, row, reached>>

\* Mutants: the status filter lets one status too many through.
Claimable_Unknown == {"pending", "failed", "unknown"}
Claimable_Claimed == {"pending", "failed", "in_progress"}
Claimable == {"pending", "failed"}

\* Mutant: the insert overwrites an unknown row instead of doing nothing.
Ensured_Overwrites(status, isTarget) ==
    CASE isTarget /\ status \in {"none", "unknown"} -> "pending"
      [] ~isTarget /\ status \in Claimable          -> "abandoned"
      [] OTHER                                      -> status

\* ensure_deliveries: open rows of endpoints that are no longer targets are
\* abandoned, missing rows are inserted.
Ensured(status, isTarget) ==
    CASE isTarget /\ status = "none"            -> "pending"
      [] ~isTarget /\ status \in Claimable      -> "abandoned"
      [] OTHER                                  -> status

EnsureDeliveries(w) ==
    LET n == notice[w] IN
    /\ At(w, "ensure")
    /\ ~LogGone(w)
    /\ row' = [row EXCEPT ![n] =
                  [e \in Endpoints |-> Ensured(row[n][e], e \in task[w].todo)]]
    /\ Goto(w, "send")
    /\ UNCHANGED <<events, subs, log, reached, holding, task>>

\* _prepare_scheduled_delivery: only a pending or failed row is claimed.
Claim(w) ==
    LET n == notice[w] IN
    /\ At(w, "send")
    /\ \E e \in task[w].todo :
           /\ row[n][e] \in Claimable
           /\ row' = [row EXCEPT ![n][e] = "in_progress"]
           /\ claim' = [claim EXCEPT ![w] = e]
           /\ task' = [task EXCEPT ![w].todo = @ \ {e}, ![w].tries = 0,
                                   ![w].handled = @ + 1]
    /\ Goto(w, "claimed")
    /\ UNCHANGED <<events, subs, log, reached, notice, result>>

\* Where the loop over the batch goes after one subscription.
AfterOne(w, left, handled) ==
    IF left = {} \/ handled = BatchSize THEN "flush" ELSE "send"

\* A row in another status is left alone. FOR UPDATE SKIP LOCKED also passes
\* over an open row that another worker's transaction has locked.
SkipDelivery(w) ==
    LET n == notice[w] IN
    /\ At(w, "send")
    /\ \E e \in task[w].todo :
           /\ \/ row[n][e] \notin Claimable
              \/ \E v \in Workers \ {w} :
                     notice[v] = n /\ pc[v] \in {"ensure", "send"}
           /\ task' = [task EXCEPT ![w].todo = @ \ {e}, ![w].handled = @ + 1]
           /\ Goto(w, AfterOne(w, task[w].todo \ {e}, task[w].handled + 1))
    /\ UNCHANGED <<tables, reached, holding>>

\* The stored keys cannot be decrypted: failed without a call.
DecryptFails(w) ==
    /\ At(w, "claimed")
    /\ task[w].tries = 0
    /\ result' = [result EXCEPT ![w] = "failed"]
    /\ Goto(w, "record")
    /\ UNCHANGED <<tables, reached, notice, claim, task>>

\* _send_with_retry hands the request to the push service.
CallProvider(w) ==
    /\ At(w, "claimed")
    /\ reached' = [reached EXCEPT ![notice[w]][claim[w]] = @ + 1]
    /\ task' = [task EXCEPT ![w].tries = @ + 1]
    /\ Goto(w, "calling")
    /\ UNCHANGED <<tables, holding>>

\* Mutant: an answer without a status code is retried like an error status.
AnswerTaken_RetriesUnknown(w) ==
    /\ At(w, "calling")
    /\ \/ Goto(w, "record") /\ result' = [result EXCEPT ![w] = "completed"]
       \/ task[w].tries <= MaxRetries /\ Goto(w, "claimed") /\ UNCHANGED result
    /\ UNCHANGED <<tables, reached, notice, claim, task>>

\* A 2xx answer is accepted; no status code leaves the outcome unknown.
AnswerTaken(w) ==
    /\ At(w, "calling")
    /\ \E answer \in {"completed", "unknown"} :
           result' = [result EXCEPT ![w] = answer]
    /\ Goto(w, "record")
    /\ UNCHANGED <<tables, reached, notice, claim, task>>

\* An error status is a refusal: this call did not arrive. 400, 404 and 410
\* are final, 404 and 410 also mark the subscription as expired; the other
\* codes are retried until max_retries is used up.
AnswerRefused(w) ==
    /\ At(w, "calling")
    /\ reached' = [reached EXCEPT ![notice[w]][claim[w]] = @ - 1]
    /\ \/ /\ task[w].tries <= MaxRetries
          /\ Goto(w, "claimed")
          /\ UNCHANGED <<result, task>>
       \/ /\ Goto(w, "record")
          /\ result' = [result EXCEPT ![w] = "failed"]
          /\ \E gone \in {{}, {claim[w]}} :
                 task' = [task EXCEPT ![w].expired = @ \cup gone]
    /\ UNCHANGED <<tables, notice, claim>>

\* record_delivery_results writes by claim id, whatever the row's status is
\* by now; a row deleted with its event matches nothing.
RecordResult(w) ==
    LET n == notice[w] IN
    /\ At(w, "record")
    /\ row' = IF row[n][claim[w]] = "none" THEN row
              ELSE [row EXCEPT ![n][claim[w]] = result[w]]
    /\ Release(w)
    /\ Goto(w, AfterOne(w, task[w].todo, task[w].handled))
    /\ UNCHANGED <<events, subs, log, reached, notice, task>>

\* The end of send_batch_chunk: send logs, then the expired subscriptions.
FlushBatch(w) ==
    /\ At(w, "flush")
    /\ subs' = subs \ task[w].expired
    /\ task' = [task EXCEPT ![w].expired = {}, ![w].handled = 0]
    /\ Goto(w, IF task[w].todo = {} THEN "count" ELSE "send")
    /\ UNCHANGED <<events, log, row, reached, holding>>

CountDeliveries(w) ==
    LET r == row[notice[w]] IN
    /\ At(w, "count")
    /\ task' = [task EXCEPT ![w].accepted = Accepted(r), ![w].failed = Unresolved(r)]
    /\ Goto(w, "final")
    /\ UNCHANGED <<tables, reached, holding>>

\* Mutant: the counts of successive runs are added up.
Written_Adds(old, new) == old + new

\* The ORM writes a count only where it differs from the 0 it has loaded.
Written(old, new) == IF new = 0 THEN old ELSE new

FinalUpdate(w) ==
    LET n == notice[w] IN
    /\ At(w, "final")
    /\ ~LogGone(w)
    /\ log' = [log EXCEPT ![n] =
                  [status   |-> IF task[w].failed > 0 THEN "failed" ELSE "completed",
                   stale    |-> FALSE,
                   accepted |-> Written(@.accepted, task[w].accepted),
                   failed   |-> Written(@.failed, task[w].failed)]]
    /\ EndNotice(w)
    /\ UNCHANGED <<events, subs, row, reached>>

-----------------------------------------------------------------------------
(* Failures *)

\* A transaction of the try block, or the final update, raises
\* SQLAlchemyError; the rollback expires the session's objects.
TransactionFails(w) ==
    /\ pc[w] \in TryTransactions \cup {"final"}
    /\ task' = [task EXCEPT ![w].detached = TRUE]
    /\ Goto(w, "finalize")
    /\ UNCHANGED <<tables, reached, holding>>

\* The provider raises. No transaction is open, so nothing expires.
ProviderRaises(w) ==
    /\ At(w, "calling")
    /\ Goto(w, "finalize")
    /\ UNCHANGED <<tables, reached, holding, task>>

\* CancelledError inside the try block; the call may go on in its thread.
Cancel(w) ==
    /\ pc[w] \in TrySteps
    /\ task' = [task EXCEPT ![w].cancelled = TRUE]
    /\ Goto(w, "finalize")
    /\ UNCHANGED <<tables, reached, holding>>

AfterFinalize(w) == IF task[w].cancelled THEN Leave(w) ELSE EndNotice(w)

\* mark_log_failed, whatever status the log has by now.
MarkLogFailed(w) ==
    LET n == notice[w] IN
    /\ At(w, "finalize")
    /\ IF LogGone(w) THEN UNCHANGED <<log, row>>
       ELSE /\ row' = [row EXCEPT ![n] = GiveUp(@)]
            /\ log' = [log EXCEPT ![n] = FailedLog(row[n], task[w].failed)]
    /\ AfterFinalize(w)
    /\ UNCHANGED <<events, subs, reached>>

\* mark_log_failed fails too and is left to a later sweep.
FinalizeFails(w) ==
    /\ At(w, "finalize")
    /\ IF task[w].cancelled THEN Leave(w)
       ELSE /\ Goto(w, "next")
            /\ notice' = [notice EXCEPT ![w] = None]
            /\ Release(w)
            /\ task' = [task EXCEPT ![w] = [NoTask EXCEPT !.due = task[w].due,
                                                         !.detached = TRUE]]
    /\ UNCHANGED <<tables, reached>>

\* The process dies, or an exception outside the try block ends the trigger.
Crash(w) ==
    /\ pc[w] # "idle"
    /\ Leave(w)
    /\ UNCHANGED <<tables, reached>>

-----------------------------------------------------------------------------
(* The rest of the system *)

workers == <<pc, notice, claim, result, task>>

\* reclaim_stale_scheduled_notifications, every five minutes.
Sweep ==
    /\ \E n \in Notices : Stale(n)
    /\ FailLogs({n \in Notices : Stale(n)})
    /\ UNCHANGED <<events, subs, reached, workers>>

\* Fifteen minutes pass without a write to an open log.
AgeLog(n) ==
    /\ Open(n)
    /\ ~log[n].stale
    /\ log' = [log EXCEPT ![n].stale = TRUE]
    /\ UNCHANGED <<events, subs, row, reached, workers>>

Subscribe(e) ==
    /\ e \notin subs
    /\ subs' = subs \cup {e}
    /\ UNCHANGED <<events, log, row, reached, workers>>

Unsubscribe(e) ==
    /\ e \in subs
    /\ subs' = subs \ {e}
    /\ UNCHANGED <<events, log, row, reached, workers>>

\* Logs and deliveries go with their event (ON DELETE CASCADE).
DeleteEvent(ev) ==
    /\ ev \in events
    /\ events' = events \ {ev}
    /\ log' = [n \in Notices |-> IF n[1] = ev THEN NoLog ELSE log[n]]
    /\ row' = [n \in Notices |->
                  IF n[1] = ev THEN [e \in Endpoints |-> "none"] ELSE row[n]]
    /\ UNCHANGED <<subs, reached, workers>>

Trigger(w) ==
    StartTrigger(w) \/ FindDue(w) \/ NextNotice(w) \/ AbortDetached(w) \/ EndTrigger(w)

Process(w) ==
    \/ CreateLog(w) \/ SkipNotice(w) \/ CreateFails(w) \/ MarkInProgress(w)
    \/ SelectSubscriptions(w) \/ CompleteEmpty(w) \/ EnsureDeliveries(w)
    \/ CountDeliveries(w) \/ FinalUpdate(w)

Deliver(w) ==
    \/ Claim(w) \/ SkipDelivery(w) \/ DecryptFails(w) \/ CallProvider(w)
    \/ AnswerTaken(w) \/ AnswerRefused(w) \/ RecordResult(w) \/ FlushBatch(w)

Fail(w) ==
    \/ TransactionFails(w) \/ ProviderRaises(w) \/ Cancel(w)
    \/ MarkLogFailed(w) \/ FinalizeFails(w) \/ Crash(w)

Environment ==
    \/ Sweep
    \/ \E n \in Notices : AgeLog(n)
    \/ \E e \in Endpoints : Subscribe(e) \/ Unsubscribe(e)
    \/ \E ev \in Events : DeleteEvent(ev)

Next ==
    \/ \E w \in Workers : Trigger(w) \/ Process(w) \/ Deliver(w) \/ Fail(w)
    \/ Environment

Spec == Init /\ [][Next]_vars

\* Time passes and the sweep job runs. Nothing is assumed of the workers: an
\* external call has no timeout.
FairSpec ==
    /\ Spec
    /\ WF_vars(Sweep)
    /\ \A n \in Notices : WF_vars(AgeLog(n))
-----------------------------------------------------------------------------
(* Properties *)

\* Every variable keeps its type; a worker inside process_single_event has a
\* notice and, from its claim to the record of the result, an endpoint.
TypeOK ==
    /\ events \subseteq Events
    /\ subs \subseteq Endpoints
    /\ log \in [Notices -> LogRows]
    /\ row \in [Notices -> [Endpoints -> RowStatus]]
    /\ reached \in [Notices -> [Endpoints -> Nat]]
    /\ pc \in [Workers -> Steps]
    /\ notice \in [Workers -> Notices \cup {None}]
    /\ claim \in [Workers -> Endpoints \cup {None}]
    /\ result \in [Workers -> Results]
    /\ task \in [Workers -> Tasks]
    /\ \A w \in Workers :
           /\ pc[w] \notin {"idle", "due", "next"} => notice[w] \in Notices
           /\ pc[w] \in {"claimed", "calling", "record"} => claim[w] \in Endpoints

\* At most once: however workers, sweeps, retries and crashes interleave, no
\* subscription is reached twice by the same reminder (send_batch_notifications).
AtMostOnce ==
    \A n \in Notices, e \in Endpoints : reached[n][e] <= 1

\* No two workers hold a claim on the same delivery row, even when the log was
\* reclaimed from one of them and reopened by the other (claim_deliveries).
SingleClaimant ==
    \A n \in Notices, e \in Endpoints, v, w \in Workers :
        Holds(v, n, e) /\ Holds(w, n, e) => v = w

\* A row that says completed was accepted exactly once, and a row that says it
\* may still be sent, or was given up unsent, has reached nobody
\* (record_delivery_results, ensure_deliveries, the stale sweep).
RecordsAreTruthful ==
    \A n \in Notices, e \in Endpoints :
        /\ row[n][e] = "completed" => reached[n][e] = 1
        /\ row[n][e] \in {"pending", "failed", "abandoned"} => reached[n][e] = 0

\* A completed or abandoned row, and an unknown row no worker is still waiting
\* on, never change again while their event exists: no retry reopens them.
SettledStaysSettled ==
    [][\A n \in Notices, e \in Endpoints :
          /\ row[n][e] \in {"completed", "abandoned", "unknown"}
          /\ \A w \in Workers : ~Holds(w, n, e)
          /\ n[1] \in events'
          => row'[n][e] = row[n][e]]_vars

\* The accepted count an administrator sees is never more than the number of
\* deliveries recorded as completed, whichever worker or sweep wrote it last
\* (get_delivery_counts, update_notification_log, mark_log_failed).
AcceptedNeverOverstated ==
    \A n \in Notices : log[n].accepted <= Accepted(row[n])

\* A claim is left behind by its worker only when the process dies or the
\* transaction that should fail the log fails too: cancellation and every
\* handled exception settle it (_finalize_failed_notification).
Keeps(w, n, e) == Holds(w, n, e) \/ (At(w, "finalize") /\ notice[w] = n /\ claim[w] = e)
ClaimsAreSettled ==
    [][\A w \in Workers, n \in Notices, e \in Endpoints :
          Keeps(w, n, e) /\ row'[n][e] = "in_progress" /\ ~Keeps(w, n, e)'
          => FinalizeFails(w) \/ Crash(w)]_vars

\* An open log is eventually closed, whatever became of the worker that opened
\* it: the sweep does not depend on the event being due (reclaim_stale_logs).
OpenLogCloses == \A n \in Notices : Open(n) ~> ~Open(n)

-----------------------------------------------------------------------------
(* Documented properties the code does not have *)

\* docs/pwa_push.md:118, docs/dev_log_260801.md:24: a pending or failed
\* delivery that is no longer a target is abandoned, so that none is left
\* under a completed log.
CompletedLeavesNothingOpen ==
    \A n \in Notices :
        log[n].status = "completed" /\ (\A w \in Workers : notice[w] # n)
        => \A e \in Endpoints : row[n][e] \notin Claimable

\* docs/pwa_push.md:118: a claim whose process was interrupted is fixed to
\* unknown by the stale sweep.
Interrupted(n, e) ==
    row[n][e] = "in_progress" /\ \A w \in Workers : notice[w] # n
InterruptedBecomesUnknown ==
    \A n \in Notices, e \in Endpoints :
        Interrupted(n, e) ~> ~Interrupted(n, e)

-----------------------------------------------------------------------------
(* Refinement of PushOnce *)

InFlight(n, e) == \E w \in Workers : At(w, "calling") /\ Holds(w, n, e)

\* What the promise sees of a reminder for one endpoint.
PhaseOf(n, e) == IF InFlight(n, e) THEN "calling"
                 ELSE IF reached[n][e] > 0 THEN "closed" ELSE "open"

Promise == INSTANCE PushOnce WITH
    Targets <- Notices \X Endpoints,
    phase <- [t \in Notices \X Endpoints |-> PhaseOf(t[1], t[2])]

\* The code keeps the promise of PushOnce: one call at a time for a reminder
\* and an endpoint, and none after a call that may have arrived.
KeepsPromise == Promise!Spec

-----------------------------------------------------------------------------
(* The inductive invariant behind the safety properties *)

Unheld(n, e) == \A w \in Workers : ~Holds(w, n, e)

\* What a row says of its endpoint, and that nobody is about to change it.
RowsAreSettled ==
    \A n \in Notices, e \in Endpoints :
        Live(n) =>
            /\ row[n][e] \in {"none", "pending", "failed", "abandoned"}
               => reached[n][e] = 0 /\ Unheld(n, e)
            /\ row[n][e] = "completed" => reached[n][e] = 1 /\ Unheld(n, e)

\* What a holder knows of its own calls.
HolderKnows ==
    \A w \in Workers, n \in Notices, e \in Endpoints :
        Holds(w, n, e) =>
            /\ pc[w] = "record" => result[w] # "none"
            /\ reached[n][e] = IF \/ pc[w] = "claimed"
                                  \/ pc[w] = "record" /\ result[w] = "failed"
                               THEN 0 ELSE 1

\* The tables keep no row of a deleted event, and rows need a log.
CascadeHolds ==
    \A n \in Notices :
        /\ ~Live(n) => log[n].status = "none"
        /\ log[n].status = "none" => \A e \in Endpoints : row[n][e] = "none"

DeliveryInv ==
    /\ TypeOK
    /\ CascadeHolds
    /\ RowsAreSettled
    /\ HolderKnows
    /\ SingleClaimant
    /\ AtMostOnce

\* What a counter knows of its notice: the rows it counted as accepted are
\* still completed, and a notice without an event has no count left.
CountsAreBacked ==
    /\ \A n \in Notices : ~Live(n) => log[n].accepted = 0
    /\ \A w \in Workers :
           At(w, "final") /\ Live(notice[w])
           => task[w].accepted <= Accepted(row[notice[w]])
=============================================================================
