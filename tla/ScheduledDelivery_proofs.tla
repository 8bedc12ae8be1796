---------------------- MODULE ScheduledDelivery_proofs ----------------------
(***************************************************************************)
(* Proofs about ScheduledDelivery, for any number of workers, events,      *)
(* endpoints, retries and any batch size.                                  *)
(***************************************************************************)
EXTENDS ScheduledDelivery, FiniteSetTheorems, TLAPS

-----------------------------------------------------------------------------
(* The operators keep their types *)

LEMMA CountTypes ==
    ASSUME NEW r \in [Endpoints -> RowStatus]
    PROVE  Accepted(r) \in Nat /\ Unresolved(r) \in Nat
<1> DEFINE A == {e \in Endpoints : r[e] = "completed"}
           U == {e \in Endpoints :
                    r[e] \in {"pending", "in_progress", "failed", "unknown"}}
<1>1. IsFiniteSet(A) /\ IsFiniteSet(U)
  <2>1. A \subseteq Endpoints /\ U \subseteq Endpoints
    OBVIOUS
  <2>2. IsFiniteSet(Endpoints)
    BY ConstantsAssumption
  <2> QED
    BY <2>1, <2>2, FS_Subset
<1>2. Cardinality(A) \in Nat /\ Cardinality(U) \in Nat
  BY <1>1, FS_CardinalityType
<1> QED
  BY <1>2 DEF Accepted, Unresolved

LEMMA GiveUpType ==
    ASSUME NEW r \in [Endpoints -> RowStatus]
    PROVE  GiveUp(r) \in [Endpoints -> RowStatus]
BY DEF GiveUp, RowStatus

LEMMA FailedLogType ==
    ASSUME NEW r \in [Endpoints -> RowStatus], NEW f \in Nat
    PROVE  FailedLog(r, f) \in LogRows /\ FailedLog(r, f).status = "failed"
BY CountTypes DEF FailedLog, LogRows, LogStatus

LEMMA FailLogsType ==
    ASSUME TypeOK, NEW S, FailLogs(S)
    PROVE  /\ log' \in [Notices -> LogRows]
           /\ row' \in [Notices -> [Endpoints -> RowStatus]]
<1>1. \A n \in Notices : GiveUp(row[n]) \in [Endpoints -> RowStatus]
  BY GiveUpType DEF TypeOK
<1>2. \A n \in Notices : FailedLog(row[n], 0) \in LogRows
  BY FailedLogType DEF TypeOK
<1> QED
  BY <1>1, <1>2 DEF TypeOK, FailLogs

LEMMA NoTaskType == NoTask \in Tasks
BY DEF NoTask, Tasks

\* The part of TypeOK that speaks of the workers alone.
WorkersTypeOK ==
    /\ pc \in [Workers -> Steps]
    /\ notice \in [Workers -> Notices \cup {None}]
    /\ claim \in [Workers -> Endpoints \cup {None}]
    /\ result \in [Workers -> Results]
    /\ task \in [Workers -> Tasks]
    /\ \A w \in Workers :
           /\ pc[w] \notin {"idle", "due", "next"} => notice[w] \in Notices
           /\ pc[w] \in {"claimed", "calling", "record"} => claim[w] \in Endpoints

LEMMA LeaveType ==
    ASSUME WorkersTypeOK, NEW w \in Workers, Leave(w)
    PROVE  WorkersTypeOK'
BY NoTaskType DEF WorkersTypeOK, Leave, Goto, Steps, Results

LEMMA EndNoticeType ==
    ASSUME WorkersTypeOK, NEW w \in Workers, EndNotice(w)
    PROVE  WorkersTypeOK'
<1>1. [NoTask EXCEPT !.due = task[w].due, !.detached = task[w].detached] \in Tasks
  BY NoTaskType DEF WorkersTypeOK, NoTask, Tasks
<1> QED
  BY <1>1 DEF WorkersTypeOK, EndNotice, Goto, Steps, Results

-----------------------------------------------------------------------------
(* Type correctness *)

TablesTypeOK ==
    /\ events \subseteq Events
    /\ subs \subseteq Endpoints
    /\ log \in [Notices -> LogRows]
    /\ row \in [Notices -> [Endpoints -> RowStatus]]

ReachedTypeOK == reached \in [Notices -> [Endpoints -> Nat]]

LEMMA TypeParts == TypeOK <=> TablesTypeOK /\ ReachedTypeOK /\ WorkersTypeOK
BY DEF TypeOK, TablesTypeOK, ReachedTypeOK, WorkersTypeOK

LEMMA TypePartsNext == TypeOK' <=> TablesTypeOK' /\ ReachedTypeOK' /\ WorkersTypeOK'
BY DEF TypeOK, TablesTypeOK, ReachedTypeOK, WorkersTypeOK

LEMMA SubsCount == ASSUME TypeOK PROVE Cardinality(subs) \in Nat
<1>1. IsFiniteSet(subs)
  BY ConstantsAssumption, FS_Subset DEF TypeOK
<1> QED
  BY <1>1, FS_CardinalityType

LEMMA TriggerType ==
    ASSUME TypeOK, NEW w \in Workers, Trigger(w)
    PROVE  TypeOK'
<1> USE TypeParts, TypePartsNext
<1>1. CASE StartTrigger(w)
  <2>1. TablesTypeOK' /\ ReachedTypeOK'
    BY <1>1, FailLogsType DEF StartTrigger, TablesTypeOK, ReachedTypeOK
  <2>2. WorkersTypeOK'
    BY <1>1 DEF StartTrigger, WorkersTypeOK, At, Goto, Steps
  <2> QED
    BY <2>1, <2>2
<1>2. CASE FindDue(w)
  <2>1. TablesTypeOK' /\ ReachedTypeOK'
    BY <1>2 DEF FindDue, tables, TablesTypeOK, ReachedTypeOK
  <2>2. PICK due \in SUBSET Notices : task' = [task EXCEPT ![w].due = due]
    BY <1>2 DEF FindDue
  <2>3. task' \in [Workers -> Tasks]
    BY <2>2 DEF WorkersTypeOK, Tasks
  <2>4. WorkersTypeOK'
    BY <1>2, <2>3 DEF FindDue, holding, WorkersTypeOK, At, Goto, Steps
  <2> QED
    BY <2>1, <2>4
<1>3. CASE NextNotice(w)
  <2>1. TablesTypeOK' /\ ReachedTypeOK'
    BY <1>3, FailLogsType DEF NextNotice, TablesTypeOK, ReachedTypeOK
  <2>2. PICK n \in task[w].due : /\ notice' = [notice EXCEPT ![w] = n]
                                 /\ task' = [task EXCEPT ![w].due = @ \ {n}]
    BY <1>3 DEF NextNotice
  <2>3. n \in Notices /\ task[w].due \ {n} \in SUBSET Notices
    BY DEF WorkersTypeOK, Tasks
  <2>4. task' \in [Workers -> Tasks]
    BY <2>2, <2>3 DEF WorkersTypeOK, Tasks
  <2>5. WorkersTypeOK'
    BY <1>3, <2>2, <2>3, <2>4 DEF NextNotice, WorkersTypeOK, At, Goto, Steps
  <2> QED
    BY <2>1, <2>5
<1>4. CASE AbortDetached(w) \/ EndTrigger(w)
  BY <1>4, LeaveType DEF AbortDetached, EndTrigger, tables, TablesTypeOK, ReachedTypeOK
<1> QED
  BY <1>1, <1>2, <1>3, <1>4 DEF Trigger

LEMMA ProcessType ==
    ASSUME TypeOK, NEW w \in Workers, Process(w)
    PROVE  TypeOK'
<1> USE TypeParts, TypePartsNext
<1>0. PendingLog \in LogRows
  BY DEF PendingLog, NoLog, LogRows, LogStatus
<1>1. CASE CreateLog(w)
  <2>1. TablesTypeOK' /\ ReachedTypeOK'
    BY <1>0, <1>1 DEF CreateLog, TablesTypeOK, ReachedTypeOK
  <2>2. WorkersTypeOK'
    BY <1>1 DEF CreateLog, holding, WorkersTypeOK, At, Goto, Steps
  <2> QED
    BY <2>1, <2>2
<1>2. CASE SkipNotice(w)
  BY <1>2, EndNoticeType DEF SkipNotice, tables, TablesTypeOK, ReachedTypeOK
<1>3. CASE CreateFails(w)
  BY <1>3, LeaveType DEF CreateFails, tables, TablesTypeOK, ReachedTypeOK
<1>4. CASE MarkInProgress(w)
  <2>1. TablesTypeOK' /\ ReachedTypeOK'
    BY <1>4 DEF MarkInProgress, TablesTypeOK, ReachedTypeOK, LogRows, LogStatus
  <2>2. WorkersTypeOK'
    BY <1>4 DEF MarkInProgress, holding, WorkersTypeOK, At, Goto, Steps
  <2> QED
    BY <2>1, <2>2
<1>5. CASE SelectSubscriptions(w)
  <2>1. TablesTypeOK' /\ ReachedTypeOK'
    BY <1>5 DEF SelectSubscriptions, tables, TablesTypeOK, ReachedTypeOK
  <2>2. subs \in SUBSET Endpoints /\ Cardinality(subs) \in Nat
    BY SubsCount DEF TablesTypeOK
  <2>3. task' \in [Workers -> Tasks]
    BY <1>5, <2>2 DEF SelectSubscriptions, WorkersTypeOK, Tasks
  <2>4. WorkersTypeOK'
    BY <1>5, <2>3 DEF SelectSubscriptions, holding, WorkersTypeOK, At, Goto, Steps
  <2> QED
    BY <2>1, <2>4
<1>6. CASE CompleteEmpty(w)
  <2>1. TablesTypeOK' /\ ReachedTypeOK'
    BY <1>6 DEF CompleteEmpty, TablesTypeOK, ReachedTypeOK, LogRows, LogStatus
  <2> QED
    BY <1>6, <2>1, EndNoticeType DEF CompleteEmpty
<1>7. CASE EnsureDeliveries(w)
  <2>1. notice[w] \in Notices
    BY <1>7 DEF EnsureDeliveries, At, WorkersTypeOK
  <2>2. ASSUME NEW e \in Endpoints
        PROVE  Ensured(row[notice[w]][e], e \in task[w].todo) \in RowStatus
    BY <2>1 DEF Ensured, RowStatus, TablesTypeOK
  <2>3. [e \in Endpoints |-> Ensured(row[notice[w]][e], e \in task[w].todo)]
           \in [Endpoints -> RowStatus]
    BY <2>2
  <2>4. TablesTypeOK' /\ ReachedTypeOK'
    BY <1>7, <2>3 DEF EnsureDeliveries, TablesTypeOK, ReachedTypeOK
  <2>5. WorkersTypeOK'
    BY <1>7 DEF EnsureDeliveries, holding, WorkersTypeOK, At, Goto, Steps
  <2> QED
    BY <2>4, <2>5
<1>8. CASE CountDeliveries(w)
  <2>1. TablesTypeOK' /\ ReachedTypeOK'
    BY <1>8 DEF CountDeliveries, tables, TablesTypeOK, ReachedTypeOK
  <2>2. notice[w] \in Notices
    BY <1>8 DEF CountDeliveries, At, WorkersTypeOK
  <2>3. Accepted(row[notice[w]]) \in Nat /\ Unresolved(row[notice[w]]) \in Nat
    BY <2>2, CountTypes DEF TablesTypeOK
  <2>4. WorkersTypeOK'
    BY <1>8, <2>3 DEF CountDeliveries, holding, WorkersTypeOK, At, Goto, Steps, Tasks
  <2> QED
    BY <2>1, <2>4
<1>9. CASE FinalUpdate(w)
  <2>1. notice[w] \in Notices
    BY <1>9 DEF FinalUpdate, At, WorkersTypeOK
  <2>2. \A a, b \in Nat : Written(a, b) \in Nat
    BY DEF Written
  <2>3. TablesTypeOK' /\ ReachedTypeOK'
    BY <1>9, <2>1, <2>2
    DEF FinalUpdate, TablesTypeOK, ReachedTypeOK, WorkersTypeOK, Tasks, LogRows, LogStatus
  <2> QED
    BY <1>9, <2>3, EndNoticeType DEF FinalUpdate
<1> QED
  BY <1>1, <1>2, <1>3, <1>4, <1>5, <1>6, <1>7, <1>8, <1>9 DEF Process

\* A refusal takes back a call that was counted, so this step needs to know
\* what the holder knows.
LEMMA DeliverType ==
    ASSUME TypeOK, HolderKnows, NEW w \in Workers, Deliver(w)
    PROVE  TypeOK'
<1> USE TypeParts, TypePartsNext
<1>1. CASE Claim(w)
  <2>1. PICK e \in task[w].todo :
           /\ row' = [row EXCEPT ![notice[w]][e] = "in_progress"]
           /\ claim' = [claim EXCEPT ![w] = e]
           /\ task' = [task EXCEPT ![w].todo = @ \ {e}, ![w].tries = 0,
                                   ![w].handled = @ + 1]
    BY <1>1 DEF Claim
  <2>2. e \in Endpoints /\ task[w].todo \ {e} \in SUBSET Endpoints
    BY DEF WorkersTypeOK, Tasks
  <2>3. TablesTypeOK' /\ ReachedTypeOK'
    BY <1>1, <2>1 DEF Claim, TablesTypeOK, ReachedTypeOK, RowStatus
  <2>4. task' \in [Workers -> Tasks]
    BY <2>1, <2>2 DEF WorkersTypeOK, Tasks
  <2>5. WorkersTypeOK'
    BY <1>1, <2>1, <2>2, <2>4 DEF Claim, WorkersTypeOK, At, Goto, Steps
  <2> QED
    BY <2>3, <2>5
<1>2. CASE SkipDelivery(w)
  <2>1. PICK e \in task[w].todo :
           /\ task' = [task EXCEPT ![w].todo = @ \ {e}, ![w].handled = @ + 1]
           /\ Goto(w, AfterOne(w, task[w].todo \ {e}, task[w].handled + 1))
    BY <1>2 DEF SkipDelivery
  <2>2. task[w].todo \ {e} \in SUBSET Endpoints
    BY DEF WorkersTypeOK, Tasks
  <2>3. TablesTypeOK' /\ ReachedTypeOK'
    BY <1>2 DEF SkipDelivery, tables, TablesTypeOK, ReachedTypeOK
  <2>4. task' \in [Workers -> Tasks]
    BY <2>1, <2>2 DEF WorkersTypeOK, Tasks
  <2>5. WorkersTypeOK'
    BY <1>2, <2>1, <2>4
    DEF SkipDelivery, holding, WorkersTypeOK, At, Goto, AfterOne, Steps
  <2> QED
    BY <2>3, <2>5
<1>3. CASE DecryptFails(w)
  <2>1. TablesTypeOK' /\ ReachedTypeOK'
    BY <1>3 DEF DecryptFails, tables, TablesTypeOK, ReachedTypeOK
  <2>2. WorkersTypeOK'
    BY <1>3 DEF DecryptFails, WorkersTypeOK, At, Goto, Steps, Results
  <2> QED
    BY <2>1, <2>2
<1>4. CASE CallProvider(w)
  <2>1. notice[w] \in Notices /\ claim[w] \in Endpoints
    BY <1>4 DEF CallProvider, At, WorkersTypeOK
  <2>2. TablesTypeOK' /\ ReachedTypeOK'
    BY <1>4, <2>1 DEF CallProvider, tables, TablesTypeOK, ReachedTypeOK
  <2>3. task[w].tries + 1 \in Nat
    BY DEF WorkersTypeOK, Tasks
  <2>4. task' \in [Workers -> Tasks]
    BY <1>4, <2>3 DEF CallProvider, WorkersTypeOK, Tasks
  <2>5. WorkersTypeOK'
    BY <1>4, <2>4 DEF CallProvider, holding, WorkersTypeOK, At, Goto, Steps
  <2> QED
    BY <2>2, <2>5
<1>5. CASE AnswerTaken(w)
  <2>1. TablesTypeOK' /\ ReachedTypeOK'
    BY <1>5 DEF AnswerTaken, tables, TablesTypeOK, ReachedTypeOK
  <2>2. WorkersTypeOK'
    BY <1>5 DEF AnswerTaken, WorkersTypeOK, At, Goto, Steps, Results
  <2> QED
    BY <2>1, <2>2
<1>6. CASE AnswerRefused(w)
  <2>1. notice[w] \in Notices /\ claim[w] \in Endpoints
    BY <1>6 DEF AnswerRefused, At, WorkersTypeOK
  <2>2. reached[notice[w]][claim[w]] = 1
    BY <1>6, <2>1 DEF AnswerRefused, At, HolderKnows, Holds
  <2>3. TablesTypeOK' /\ ReachedTypeOK'
    BY <1>6, <2>1, <2>2 DEF AnswerRefused, tables, TablesTypeOK, ReachedTypeOK
  <2>4. task[w].expired \cup {claim[w]} \in SUBSET Endpoints
    BY <2>1 DEF WorkersTypeOK, Tasks
  <2>5. task' \in [Workers -> Tasks]
    <3>1. CASE UNCHANGED task
      BY <3>1 DEF WorkersTypeOK
    <3>2. ASSUME NEW gone \in {{}, {claim[w]}},
                 task' = [task EXCEPT ![w].expired = @ \cup gone]
          PROVE  task' \in [Workers -> Tasks]
      <4>1. task[w].expired \cup gone \in SUBSET Endpoints
        BY <2>4, <3>2
      <4> QED
        BY <3>2, <4>1 DEF WorkersTypeOK, Tasks
    <3> QED
      BY <1>6, <3>1, <3>2 DEF AnswerRefused
  <2>6. WorkersTypeOK'
    BY <1>6, <2>1, <2>5 DEF AnswerRefused, WorkersTypeOK, At, Goto, Steps, Results
  <2> QED
    BY <2>3, <2>6
<1>7. CASE RecordResult(w)
  <2>1. result[w] \in RowStatus
    BY DEF WorkersTypeOK, Results, RowStatus
  <2>2. TablesTypeOK' /\ ReachedTypeOK'
    BY <1>7, <2>1 DEF RecordResult, TablesTypeOK, ReachedTypeOK
  <2>3. WorkersTypeOK'
    BY <1>7
    DEF RecordResult, Release, WorkersTypeOK, At, Goto, AfterOne, Steps, Results
  <2> QED
    BY <2>2, <2>3
<1>8. CASE FlushBatch(w)
  <2>1. TablesTypeOK' /\ ReachedTypeOK'
    BY <1>8 DEF FlushBatch, TablesTypeOK, ReachedTypeOK
  <2>2. task' \in [Workers -> Tasks]
    BY <1>8 DEF FlushBatch, WorkersTypeOK, Tasks
  <2>3. WorkersTypeOK'
    BY <1>8, <2>2 DEF FlushBatch, holding, WorkersTypeOK, At, Goto, Steps
  <2> QED
    BY <2>1, <2>3
<1> QED
  BY <1>1, <1>2, <1>3, <1>4, <1>5, <1>6, <1>7, <1>8 DEF Deliver

LEMMA FailType ==
    ASSUME TypeOK, NEW w \in Workers, Fail(w)
    PROVE  TypeOK'
<1> USE TypeParts, TypePartsNext
<1>1. CASE TransactionFails(w) \/ ProviderRaises(w) \/ Cancel(w)
  <2>1. TablesTypeOK' /\ ReachedTypeOK'
    BY <1>1 DEF TransactionFails, ProviderRaises, Cancel, tables, TablesTypeOK, ReachedTypeOK
  <2>2. task' \in [Workers -> Tasks]
    <3>1. CASE TransactionFails(w)
      BY <3>1 DEF TransactionFails, WorkersTypeOK, Tasks
    <3>2. CASE ProviderRaises(w)
      BY <3>2 DEF ProviderRaises, WorkersTypeOK
    <3>3. CASE Cancel(w)
      BY <3>3 DEF Cancel, WorkersTypeOK, Tasks
    <3> QED
      BY <1>1, <3>1, <3>2, <3>3
  <2>3. WorkersTypeOK'
    BY <1>1, <2>2 DEF TransactionFails, ProviderRaises, Cancel, holding, WorkersTypeOK,
                      TryTransactions, TrySteps, At, Goto, Steps
  <2> QED
    BY <2>1, <2>3
<1>2. CASE MarkLogFailed(w)
  <2>1. notice[w] \in Notices /\ task[w].failed \in Nat
    BY <1>2 DEF MarkLogFailed, At, WorkersTypeOK, Tasks
  <2>2. /\ GiveUp(row[notice[w]]) \in [Endpoints -> RowStatus]
        /\ FailedLog(row[notice[w]], task[w].failed) \in LogRows
    BY <2>1, GiveUpType, FailedLogType DEF TablesTypeOK
  <2>3. TablesTypeOK' /\ ReachedTypeOK'
    BY <1>2, <2>1, <2>2 DEF MarkLogFailed, TablesTypeOK, ReachedTypeOK
  <2>4. WorkersTypeOK'
    BY <1>2, LeaveType, EndNoticeType DEF MarkLogFailed, AfterFinalize
  <2> QED
    BY <2>3, <2>4
<1>3. CASE FinalizeFails(w)
  <2>1. TablesTypeOK' /\ ReachedTypeOK'
    BY <1>3 DEF FinalizeFails, tables, TablesTypeOK, ReachedTypeOK
  <2>2. [NoTask EXCEPT !.due = task[w].due, !.detached = TRUE] \in Tasks
    BY NoTaskType DEF WorkersTypeOK, NoTask, Tasks
  <2>3. WorkersTypeOK'
    BY <1>3, <2>2, LeaveType
    DEF FinalizeFails, Release, WorkersTypeOK, Goto, Steps, Results
  <2> QED
    BY <2>1, <2>3
<1>4. CASE Crash(w)
  BY <1>4, LeaveType DEF Crash, tables, TablesTypeOK, ReachedTypeOK
<1> QED
  BY <1>1, <1>2, <1>3, <1>4 DEF Fail

LEMMA EnvironmentType ==
    ASSUME TypeOK, Environment
    PROVE  TypeOK'
<1> USE TypeParts, TypePartsNext
<1>1. CASE Sweep
  <2>1. TablesTypeOK' /\ ReachedTypeOK'
    BY <1>1, FailLogsType DEF Sweep, TablesTypeOK, ReachedTypeOK
  <2> QED
    BY <1>1, <2>1 DEF Sweep, workers, WorkersTypeOK
<1>2. ASSUME NEW n \in Notices, AgeLog(n) PROVE TypeOK'
  <2>1. TablesTypeOK' /\ ReachedTypeOK'
    BY <1>2 DEF AgeLog, TablesTypeOK, ReachedTypeOK, LogRows
  <2> QED
    BY <1>2, <2>1 DEF AgeLog, workers, WorkersTypeOK
<1>3. ASSUME NEW e \in Endpoints, Subscribe(e) \/ Unsubscribe(e) PROVE TypeOK'
  BY <1>3 DEF Subscribe, Unsubscribe, workers, TablesTypeOK, ReachedTypeOK, WorkersTypeOK
<1>4. ASSUME NEW ev \in Events, DeleteEvent(ev) PROVE TypeOK'
  <2>1. NoLog \in LogRows /\ "none" \in RowStatus
    BY DEF NoLog, LogRows, LogStatus, RowStatus
  <2>2. TablesTypeOK' /\ ReachedTypeOK'
    BY <1>4, <2>1 DEF DeleteEvent, TablesTypeOK, ReachedTypeOK
  <2> QED
    BY <1>4, <2>2 DEF DeleteEvent, workers, WorkersTypeOK
<1> QED
  BY <1>1, <1>2, <1>3, <1>4 DEF Environment

LEMMA TypeStep ==
    ASSUME TypeOK, HolderKnows, [Next]_vars
    PROVE  TypeOK'
<1>1. CASE UNCHANGED vars
  BY <1>1 DEF vars, TypeOK
<1> QED
  BY <1>1, TriggerType, ProcessType, DeliverType, FailType, EnvironmentType DEF Next

-----------------------------------------------------------------------------
(* Logs, rows and events stay consistent *)

\* Every action that touches a log touches one that exists, or inserts one for
\* an event that exists; every action that touches a row leaves its log there.
LEMMA CascadeFrame ==
    ASSUME CascadeHolds, UNCHANGED <<events, log, row>>
    PROVE  CascadeHolds'
BY DEF CascadeHolds, Live

LEMMA CascadeFailLogs ==
    ASSUME TypeOK, CascadeHolds, UNCHANGED events,
           NEW S, S \subseteq {n \in Notices : Stale(n)}, FailLogs(S)
    PROVE  CascadeHolds'
<1>1. \A n \in Notices : FailedLog(row[n], 0).status = "failed"
  BY FailedLogType DEF TypeOK
<1>2. \A n \in S : log[n].status # "none"
  BY DEF Stale, Open
<1> QED
  BY <1>1, <1>2 DEF CascadeHolds, FailLogs, Live

LEMMA CascadeWorker ==
    ASSUME TypeOK, CascadeHolds, NEW w \in Workers,
           Trigger(w) \/ Process(w) \/ Deliver(w) \/ Fail(w)
    PROVE  CascadeHolds'
<1>1. CASE StartTrigger(w)
  BY <1>1, CascadeFailLogs DEF StartTrigger
<1>2. CASE NextNotice(w)
  BY <1>2, CascadeFailLogs DEF NextNotice
<1>3. CASE CreateLog(w)
  BY <1>3 DEF CreateLog, PendingLog, NoLog, CascadeHolds, Live, TypeOK
<1>4. CASE MarkInProgress(w)
  BY <1>4 DEF MarkInProgress, LogGone, CascadeHolds, Live, TypeOK, LogRows
<1>5. CASE CompleteEmpty(w)
  BY <1>5 DEF CompleteEmpty, LogGone, CascadeHolds, Live, TypeOK, LogRows
<1>6. CASE FinalUpdate(w)
  BY <1>6 DEF FinalUpdate, LogGone, CascadeHolds, Live, TypeOK, LogRows
<1>7. CASE EnsureDeliveries(w)
  BY <1>7 DEF EnsureDeliveries, LogGone, CascadeHolds, Live, TypeOK
<1>8. CASE Claim(w)
  <2>1. PICK e \in task[w].todo :
           /\ row[notice[w]][e] \in Claimable
           /\ row' = [row EXCEPT ![notice[w]][e] = "in_progress"]
    BY <1>8 DEF Claim
  <2>2. e \in Endpoints /\ notice[w] \in Notices
    BY <1>8 DEF Claim, At, TypeOK, Tasks
  <2>3. log[notice[w]].status # "none"
    BY <2>1, <2>2 DEF CascadeHolds, Claimable
  <2>4. UNCHANGED <<events, log>>
    BY <1>8 DEF Claim
  <2>5. \A n \in Notices : n # notice[w] => row'[n] = row[n]
    BY <2>1, <2>2 DEF TypeOK
  <2> QED
    BY <2>3, <2>4, <2>5 DEF CascadeHolds, Live
<1>9. CASE RecordResult(w)
  BY <1>9 DEF RecordResult, CascadeHolds, Live, TypeOK, At
<1>10. CASE MarkLogFailed(w)
  <2>1. notice[w] \in Notices /\ task[w].failed \in Nat
    BY <1>10 DEF MarkLogFailed, At, TypeOK, Tasks
  <2>2. FailedLog(row[notice[w]], task[w].failed).status = "failed"
    BY <2>1, FailedLogType DEF TypeOK
  <2>3. CASE LogGone(w)
    BY <1>10, <2>3, CascadeFrame DEF MarkLogFailed
  <2>4. CASE ~LogGone(w)
    <3>1. log[notice[w]].status # "none" /\ log'[notice[w]].status = "failed"
      BY <1>10, <2>1, <2>2, <2>4 DEF MarkLogFailed, LogGone, TypeOK
    <3>2. /\ UNCHANGED events
          /\ \A n \in Notices : n # notice[w] => row'[n] = row[n] /\ log'[n] = log[n]
      BY <1>10, <2>1, <2>4 DEF MarkLogFailed, TypeOK
    <3> QED
      BY <2>1, <3>1, <3>2 DEF CascadeHolds, Live
  <2> QED
    BY <2>3, <2>4
<1>11. CASE \/ FindDue(w) \/ AbortDetached(w) \/ EndTrigger(w) \/ SkipNotice(w)
            \/ CreateFails(w) \/ SelectSubscriptions(w) \/ CountDeliveries(w)
            \/ SkipDelivery(w) \/ DecryptFails(w) \/ CallProvider(w)
            \/ AnswerTaken(w) \/ AnswerRefused(w) \/ FlushBatch(w)
            \/ TransactionFails(w) \/ ProviderRaises(w) \/ Cancel(w)
            \/ FinalizeFails(w) \/ Crash(w)
  <2>1. UNCHANGED <<events, log, row>>
    BY <1>11 DEF FindDue, AbortDetached, EndTrigger, SkipNotice, CreateFails,
                 SelectSubscriptions, CountDeliveries, SkipDelivery, DecryptFails,
                 CallProvider, AnswerTaken, AnswerRefused, FlushBatch, TransactionFails,
                 ProviderRaises, Cancel, FinalizeFails, Crash, tables
  <2> QED
    BY <2>1, CascadeFrame
<1> QED
  BY <1>1, <1>2, <1>3, <1>4, <1>5, <1>6, <1>7, <1>8, <1>9, <1>10, <1>11
  DEF Trigger, Process, Deliver, Fail

LEMMA CascadeStep ==
    ASSUME TypeOK, CascadeHolds, [Next]_vars
    PROVE  CascadeHolds'
<1>1. CASE UNCHANGED vars
  BY <1>1, CascadeFrame DEF vars
<1>2. CASE Sweep
  BY <1>2, CascadeFailLogs DEF Sweep
<1>3. ASSUME NEW n \in Notices, AgeLog(n) PROVE CascadeHolds'
  BY <1>3 DEF AgeLog, Open, CascadeHolds, Live, TypeOK, LogRows
<1>4. ASSUME NEW e \in Endpoints, Subscribe(e) \/ Unsubscribe(e) PROVE CascadeHolds'
  BY <1>4, CascadeFrame DEF Subscribe, Unsubscribe
<1>5. ASSUME NEW ev \in Events, DeleteEvent(ev) PROVE CascadeHolds'
  BY <1>5 DEF DeleteEvent, NoLog, CascadeHolds, Live
<1> QED
  BY <1>1, <1>2, <1>3, <1>4, <1>5, CascadeWorker DEF Next, Environment

-----------------------------------------------------------------------------
(* Claims, rows and calls *)

Unsent == {"none", "pending", "failed", "abandoned"}

\* Nobody starts to hold a row, and who goes on holding one is where it was.
NoNewHolder ==
    \A w \in Workers, n \in Notices, e \in Endpoints :
        Holds(w, n, e)' => /\ Holds(w, n, e)
                           /\ pc'[w] = pc[w]
                           /\ result'[w] = result[w]

\* A row may close, but opens and completes only if it was open or completed.
RowsOnlyClose ==
    \A n \in Notices, e \in Endpoints :
        n[1] \in events' =>
            /\ n[1] \in events
            /\ row'[n][e] \in Unsent => row[n][e] \in Unsent
            /\ row'[n][e] = "completed" => row[n][e] = "completed"

\* The four invariants that relate claims, rows and calls.
ClaimInv == RowsAreSettled /\ HolderKnows /\ SingleClaimant /\ AtMostOnce

\* Every step but the six of a delivery is of this kind.
LEMMA QuietStep ==
    ASSUME ClaimInv, UNCHANGED reached, NoNewHolder, RowsOnlyClose
    PROVE  ClaimInv'
<1>1. RowsAreSettled'
  BY DEF ClaimInv, RowsAreSettled, NoNewHolder, RowsOnlyClose, Unheld, Live, Unsent
<1>2. HolderKnows'
  BY DEF ClaimInv, HolderKnows, NoNewHolder
<1>3. SingleClaimant' /\ AtMostOnce'
  BY DEF ClaimInv, SingleClaimant, AtMostOnce, NoNewHolder
<1> QED
  BY <1>1, <1>2, <1>3 DEF ClaimInv

LEMMA RowsUnchanged ==
    ASSUME events' \subseteq events, UNCHANGED row
    PROVE  RowsOnlyClose
BY DEF RowsOnlyClose

LEMMA FailLogsCloses ==
    ASSUME TypeOK, UNCHANGED events, NEW S, FailLogs(S)
    PROVE  RowsOnlyClose
BY DEF FailLogs, GiveUp, RowsOnlyClose, Unsent

\* A worker that moves to a step outside the holding ones holds nothing new.
LEMMA WorkerLetsGo ==
    ASSUME TypeOK, NEW w \in Workers,
           \E s \in Steps \ {"claimed", "calling", "record"} :
               pc' = [pc EXCEPT ![w] = s],
           \A v \in Workers \ {w} : /\ notice'[v] = notice[v]
                                    /\ claim'[v] = claim[v]
                                    /\ result'[v] = result[v]
    PROVE  NoNewHolder
BY DEF TypeOK, NoNewHolder, Holds

LEMMA WorkersUnchanged ==
    ASSUME UNCHANGED workers
    PROVE  NoNewHolder
BY DEF workers, NoNewHolder, Holds

LEMMA LeaveLetsGo ==
    ASSUME TypeOK, NEW w \in Workers, Leave(w) \/ EndNotice(w)
    PROVE  NoNewHolder
<1>1. \E s \in {"idle", "next"} : pc' = [pc EXCEPT ![w] = s]
  BY DEF Leave, EndNotice, Goto
<1>2. {"idle", "next"} \subseteq Steps \ {"claimed", "calling", "record"}
  BY DEF Steps
<1>3. \A v \in Workers \ {w} : /\ notice'[v] = notice[v]
                               /\ claim'[v] = claim[v]
                               /\ result'[v] = result[v]
  BY DEF Leave, EndNotice, TypeOK
<1> QED
  BY <1>1, <1>2, <1>3, WorkerLetsGo

LEMMA TriggerKeepsClaims ==
    ASSUME TypeOK, ClaimInv, NEW w \in Workers, Trigger(w)
    PROVE  ClaimInv'
<1>1. UNCHANGED reached
  BY DEF Trigger, StartTrigger, FindDue, NextNotice, AbortDetached, EndTrigger
<1>2. RowsOnlyClose
  BY FailLogsCloses, RowsUnchanged
  DEF Trigger, StartTrigger, FindDue, NextNotice, AbortDetached, EndTrigger, tables
<1>3. NoNewHolder
  <2>1. CASE StartTrigger(w)
    BY <2>1, WorkerLetsGo DEF StartTrigger, Goto, Steps
  <2>2. CASE FindDue(w)
    BY <2>2, WorkerLetsGo DEF FindDue, Goto, Steps, holding
  <2>3. CASE NextNotice(w)
    BY <2>3, WorkerLetsGo DEF NextNotice, Goto, Steps, TypeOK
  <2>4. CASE AbortDetached(w) \/ EndTrigger(w)
    BY <2>4, LeaveLetsGo DEF AbortDetached, EndTrigger
  <2> QED
    BY <2>1, <2>2, <2>3, <2>4 DEF Trigger
<1> QED
  BY <1>1, <1>2, <1>3, QuietStep

LEMMA ProcessKeepsClaims ==
    ASSUME TypeOK, ClaimInv, NEW w \in Workers, Process(w)
    PROVE  ClaimInv'
<1>1. UNCHANGED <<events, reached>>
  BY DEF Process, CreateLog, SkipNotice, CreateFails, MarkInProgress, SelectSubscriptions,
         CompleteEmpty, EnsureDeliveries, CountDeliveries, FinalUpdate, tables
<1>2. RowsOnlyClose
  <2>1. CASE EnsureDeliveries(w)
    BY <1>1, <2>1 DEF EnsureDeliveries, Ensured, Claimable, RowsOnlyClose, Unsent, TypeOK
  <2>2. CASE UNCHANGED row
    BY <1>1, <2>2, RowsUnchanged
  <2> QED
    BY <2>1, <2>2
    DEF Process, CreateLog, SkipNotice, CreateFails, MarkInProgress, SelectSubscriptions,
        CompleteEmpty, CountDeliveries, FinalUpdate, tables
<1>3. NoNewHolder
  <2>1. CASE CreateLog(w) \/ MarkInProgress(w) \/ EnsureDeliveries(w) \/ CountDeliveries(w)
    BY <2>1, WorkerLetsGo
    DEF CreateLog, MarkInProgress, EnsureDeliveries, CountDeliveries, Goto, Steps, holding
  <2>2. CASE SelectSubscriptions(w)
    <3>1. \E s \in {"empty", "ensure"} : pc' = [pc EXCEPT ![w] = s]
      BY <2>2 DEF SelectSubscriptions, Goto
    <3> QED
      BY <2>2, <3>1, WorkerLetsGo DEF SelectSubscriptions, Steps, holding
  <2>3. CASE SkipNotice(w) \/ CreateFails(w) \/ CompleteEmpty(w) \/ FinalUpdate(w)
    BY <2>3, LeaveLetsGo DEF SkipNotice, CreateFails, CompleteEmpty, FinalUpdate
  <2> QED
    BY <2>1, <2>2, <2>3 DEF Process
<1> QED
  BY <1>1, <1>2, <1>3, QuietStep

LEMMA FailKeepsClaims ==
    ASSUME TypeOK, ClaimInv, NEW w \in Workers, Fail(w)
    PROVE  ClaimInv'
<1>1. UNCHANGED <<events, reached>>
  BY DEF Fail, TransactionFails, ProviderRaises, Cancel, MarkLogFailed, FinalizeFails,
         Crash, tables
<1>2. RowsOnlyClose
  <2>1. CASE MarkLogFailed(w)
    BY <1>1, <2>1 DEF MarkLogFailed, GiveUp, RowsOnlyClose, Unsent, TypeOK
  <2>2. CASE UNCHANGED row
    BY <1>1, <2>2, RowsUnchanged
  <2> QED
    BY <2>1, <2>2 DEF Fail, TransactionFails, ProviderRaises, Cancel, FinalizeFails,
                      Crash, tables
<1>3. NoNewHolder
  <2>1. CASE TransactionFails(w) \/ ProviderRaises(w) \/ Cancel(w)
    BY <2>1, WorkerLetsGo DEF TransactionFails, ProviderRaises, Cancel, Goto, Steps, holding
  <2>2. CASE MarkLogFailed(w)
    BY <2>2, LeaveLetsGo DEF MarkLogFailed, AfterFinalize
  <2>3. CASE FinalizeFails(w) /\ ~task[w].cancelled
    BY <2>3, WorkerLetsGo DEF FinalizeFails, Goto, Release, Steps, TypeOK
  <2>4. CASE (FinalizeFails(w) /\ task[w].cancelled) \/ Crash(w)
    BY <2>4, LeaveLetsGo DEF FinalizeFails, Crash
  <2> QED
    BY <2>1, <2>2, <2>3, <2>4 DEF Fail
<1> QED
  BY <1>1, <1>2, <1>3, QuietStep

LEMMA EnvironmentKeepsClaims ==
    ASSUME TypeOK, ClaimInv, Environment
    PROVE  ClaimInv'
<1>1. UNCHANGED reached /\ UNCHANGED workers
  BY DEF Environment, Sweep, AgeLog, Subscribe, Unsubscribe, DeleteEvent
<1>2. RowsOnlyClose
  <2>1. CASE Sweep
    BY <2>1, FailLogsCloses DEF Sweep
  <2>2. ASSUME NEW ev \in Events, DeleteEvent(ev) PROVE RowsOnlyClose
    BY <2>2 DEF DeleteEvent, RowsOnlyClose
  <2> QED
    BY <2>1, <2>2, RowsUnchanged DEF Environment, AgeLog, Subscribe, Unsubscribe
<1> QED
  BY <1>1, <1>2, WorkersUnchanged, QuietStep

\* The steps of a delivery change what one worker holds of one row.
LEMMA DeliverKeepsClaims ==
    ASSUME TypeOK, ClaimInv, CascadeHolds, NEW w \in Workers, Deliver(w)
    PROVE  ClaimInv'
<1>1. CASE Claim(w)
  <2>1. PICK e \in task[w].todo :
           /\ row[notice[w]][e] \in Claimable
           /\ row' = [row EXCEPT ![notice[w]][e] = "in_progress"]
           /\ claim' = [claim EXCEPT ![w] = e]
    BY <1>1 DEF Claim
  <2> DEFINE n == notice[w]
  <2>2. n \in Notices /\ e \in Endpoints
    BY <1>1 DEF Claim, At, TypeOK, Tasks
  <2>3. Live(n)
    BY <2>1, <2>2 DEF CascadeHolds, Claimable
  <2>4. reached[n][e] = 0 /\ Unheld(n, e)
    BY <2>1, <2>2, <2>3 DEF ClaimInv, RowsAreSettled, Claimable
  <2>5. /\ UNCHANGED <<events, reached, notice, result>>
        /\ pc' = [pc EXCEPT ![w] = "claimed"]
    BY <1>1 DEF Claim, Goto
  <2>6. \A v \in Workers, m \in Notices, f \in Endpoints :
           Holds(v, m, f)' <=> IF v = w THEN m = n /\ f = e ELSE Holds(v, m, f)
    BY <2>1, <2>2, <2>5 DEF Holds, TypeOK
  <2>7. RowsAreSettled'
    BY <2>1, <2>2, <2>5, <2>6
    DEF ClaimInv, RowsAreSettled, Unheld, Live, Holds, TypeOK
  <2>8. HolderKnows'
    BY <2>4, <2>5, <2>6 DEF ClaimInv, HolderKnows, TypeOK
  <2>9. SingleClaimant'
    BY <2>2, <2>4, <2>6 DEF ClaimInv, SingleClaimant, Unheld
  <2> QED
    BY <2>5, <2>7, <2>8, <2>9 DEF ClaimInv, AtMostOnce
<1>2. CASE SkipDelivery(w)
  <2>1. \E s \in {"flush", "send"} : pc' = [pc EXCEPT ![w] = s]
    BY <1>2 DEF SkipDelivery, Goto, AfterOne
  <2>2. NoNewHolder
    BY <1>2, <2>1, WorkerLetsGo DEF SkipDelivery, Steps, holding
  <2> QED
    BY <1>2, <2>2, RowsUnchanged, QuietStep DEF SkipDelivery, tables
<1>3. CASE FlushBatch(w)
  <2>1. \E s \in {"count", "send"} : pc' = [pc EXCEPT ![w] = s]
    BY <1>3 DEF FlushBatch, Goto
  <2>2. NoNewHolder
    BY <1>3, <2>1, WorkerLetsGo DEF FlushBatch, Steps, holding
  <2> QED
    BY <1>3, <2>2, RowsUnchanged, QuietStep DEF FlushBatch
<1>4. ASSUME pc[w] \in {"claimed", "calling"},
             UNCHANGED <<events, row, notice, claim>>,
             pc' = [pc EXCEPT ![w] = "claimed"] \/ pc' = [pc EXCEPT ![w] = "calling"]
                \/ pc' = [pc EXCEPT ![w] = "record"],
             \A v \in Workers \ {w} : result'[v] = result[v],
             pc'[w] = "record" => result'[w] # "none",
             NEW k \in {0, 1}, reached' = [reached EXCEPT ![notice[w]][claim[w]] = k],
             k = IF pc'[w] = "claimed" \/ (pc'[w] = "record" /\ result'[w] = "failed")
                 THEN 0 ELSE 1
      PROVE  ClaimInv'
  <2> DEFINE n == notice[w]
             e == claim[w]
  <2>1. n \in Notices /\ e \in Endpoints /\ Holds(w, n, e)
    BY <1>4 DEF TypeOK, Holds
  <2>2. \A v \in Workers, m \in Notices, f \in Endpoints :
           Holds(v, m, f)' <=> Holds(v, m, f)
    BY <1>4 DEF Holds, TypeOK
  <2>3. \A m \in Notices, f \in Endpoints :
           reached'[m][f] = IF m = n /\ f = e THEN k ELSE reached[m][f]
    BY <1>4, <2>1 DEF TypeOK
  <2>4. RowsAreSettled'
    BY <1>4, <2>1, <2>2, <2>3 DEF ClaimInv, RowsAreSettled, Unheld, Live
  <2>5. \A v \in Workers : v # w => ~Holds(v, n, e)
    BY <2>1 DEF ClaimInv, SingleClaimant
  <2>6. HolderKnows'
    <3> SUFFICES ASSUME NEW v \in Workers, NEW m \in Notices, NEW f \in Endpoints,
                        Holds(v, m, f)'
                 PROVE  /\ pc'[v] = "record" => result'[v] # "none"
                        /\ reached'[m][f] = IF \/ pc'[v] = "claimed"
                                               \/ pc'[v] = "record" /\ result'[v] = "failed"
                                            THEN 0 ELSE 1
      BY DEF HolderKnows
    <3>1. CASE v = w
      BY <1>4, <2>2, <2>3, <3>1 DEF Holds
    <3>2. CASE v # w
      <4>1. pc'[v] = pc[v] /\ result'[v] = result[v]
        BY <1>4, <3>2 DEF TypeOK
      <4>2. ~(m = n /\ f = e)
        BY <2>2, <2>5, <3>2
      <4> QED
        BY <2>2, <2>3, <4>1, <4>2 DEF ClaimInv, HolderKnows
    <3> QED
      BY <3>1, <3>2
  <2>7. SingleClaimant'
    BY <2>2 DEF ClaimInv, SingleClaimant
  <2>8. AtMostOnce'
    BY <2>3 DEF ClaimInv, AtMostOnce
  <2> QED
    BY <2>4, <2>6, <2>7, <2>8 DEF ClaimInv
<1>5. pc[w] \in {"claimed", "calling"} =>
         /\ notice[w] \in Notices /\ claim[w] \in Endpoints
         /\ reached[notice[w]][claim[w]] = IF pc[w] = "claimed" THEN 0 ELSE 1
  <2> HAVE pc[w] \in {"claimed", "calling"}
  <2>1. notice[w] \in Notices /\ claim[w] \in Endpoints
    BY DEF TypeOK
  <2> QED
    BY <2>1 DEF ClaimInv, HolderKnows, Holds
<1>6. CASE DecryptFails(w)
  <2>1. reached' = [reached EXCEPT ![notice[w]][claim[w]] = 0]
    BY <1>5, <1>6 DEF DecryptFails, At, TypeOK
  <2>2. pc'[w] = "record" /\ result'[w] = "failed"
    BY <1>6 DEF DecryptFails, Goto, TypeOK
  <2> QED
    BY <1>4, <1>6, <2>1, <2>2 DEF DecryptFails, At, Goto, tables, TypeOK
<1>7. CASE CallProvider(w)
  <2>1. reached' = [reached EXCEPT ![notice[w]][claim[w]] = 1]
    <3>1. reached[notice[w]][claim[w]] = 0
      BY <1>5, <1>7 DEF CallProvider, At
    <3>2. reached' = [reached EXCEPT ![notice[w]][claim[w]] = @ + 1]
      BY <1>7 DEF CallProvider
    <3> QED
      BY <3>1, <3>2
  <2>2. pc'[w] = "calling"
    BY <1>7 DEF CallProvider, Goto, TypeOK
  <2> QED
    BY <1>4, <1>7, <2>1, <2>2 DEF CallProvider, At, Goto, tables, holding
<1>8. CASE AnswerTaken(w)
  <2>1. reached' = [reached EXCEPT ![notice[w]][claim[w]] = 1]
    BY <1>5, <1>8 DEF AnswerTaken, At, TypeOK
  <2>2. pc'[w] = "record" /\ result'[w] # "failed"
    BY <1>8 DEF AnswerTaken, Goto, TypeOK
  <2> QED
    BY <1>4, <1>8, <2>1, <2>2 DEF AnswerTaken, At, Goto, tables, TypeOK
<1>9. CASE AnswerRefused(w)
  <2>1. reached' = [reached EXCEPT ![notice[w]][claim[w]] = 0]
    <3>1. reached[notice[w]][claim[w]] = 1
      BY <1>5, <1>9 DEF AnswerRefused, At
    <3>2. reached' = [reached EXCEPT ![notice[w]][claim[w]] = @ - 1]
      BY <1>9 DEF AnswerRefused
    <3> QED
      BY <3>1, <3>2
  <2>2. \/ pc' = [pc EXCEPT ![w] = "claimed"] /\ UNCHANGED result
        \/ pc' = [pc EXCEPT ![w] = "record"] /\ result' = [result EXCEPT ![w] = "failed"]
    BY <1>9 DEF AnswerRefused, Goto
  <2>3. pc'[w] = "claimed" \/ (pc'[w] = "record" /\ result'[w] = "failed")
    BY <2>2 DEF TypeOK
  <2>4. \A v \in Workers \ {w} : result'[v] = result[v]
    BY <2>2 DEF TypeOK
  <2> QED
    BY <1>4, <1>9, <2>1, <2>2, <2>3, <2>4 DEF AnswerRefused, At, tables
<1>10. CASE RecordResult(w)
  <2>1. PICK n \in Notices, e \in Endpoints :
            n = notice[w] /\ e = claim[w] /\ Holds(w, n, e)
    BY <1>10 DEF RecordResult, At, TypeOK, Holds
  <2>2. reached[n][e] = IF result[w] = "failed" THEN 0 ELSE 1
    BY <1>10, <2>1 DEF RecordResult, At, ClaimInv, HolderKnows
  <2>3. UNCHANGED <<events, reached>>
    BY <1>10 DEF RecordResult
  <2>4. NoNewHolder
    <3>1. \E s \in {"flush", "send"} : pc' = [pc EXCEPT ![w] = s]
      BY <1>10 DEF RecordResult, Goto, AfterOne
    <3> QED
      BY <1>10, <3>1, WorkerLetsGo DEF RecordResult, Release, Steps, TypeOK
  <2>5. Unheld(n, e)'
    <3>1. \A v \in Workers : v # w => ~Holds(v, n, e)
      BY <2>1 DEF ClaimInv, SingleClaimant
    <3>2. ~Holds(w, n, e)'
      BY <1>10, <2>1 DEF RecordResult, Goto, AfterOne, Holds, TypeOK
    <3> QED
      BY <2>1, <2>4, <3>1, <3>2 DEF Unheld, NoNewHolder
  <2>6. RowsAreSettled'
    <3> SUFFICES ASSUME NEW m \in Notices, NEW f \in Endpoints, Live(m)'
                 PROVE  /\ row'[m][f] \in Unsent => reached'[m][f] = 0 /\ Unheld(m, f)'
                        /\ row'[m][f] = "completed" => reached'[m][f] = 1 /\ Unheld(m, f)'
      BY DEF RowsAreSettled, Unsent
    <3>1. CASE m = n /\ f = e /\ row[n][e] # "none"
      <4>1. row'[n][e] = result[w]
        BY <1>10, <2>1, <3>1 DEF RecordResult, TypeOK
      <4>2. result[w] # "none" => result[w] \in {"completed", "failed", "unknown"}
        BY DEF TypeOK, Results
      <4>3. result[w] # "none"
        BY <1>10, <2>1 DEF RecordResult, At, ClaimInv, HolderKnows
      <4> QED
        BY <2>2, <2>3, <2>5, <3>1, <4>1, <4>2, <4>3 DEF Unsent
    <3>2. CASE ~(m = n /\ f = e /\ row[n][e] # "none")
      <4>1. row'[m][f] = row[m][f]
        BY <1>10, <2>1, <3>2 DEF RecordResult, TypeOK
      <4> QED
        BY <2>3, <2>4, <4>1 DEF ClaimInv, RowsAreSettled, Unheld, NoNewHolder, Live, Unsent
    <3> QED
      BY <3>1, <3>2
  <2>7. HolderKnows' /\ SingleClaimant' /\ AtMostOnce'
    BY <2>3, <2>4 DEF ClaimInv, HolderKnows, SingleClaimant, AtMostOnce, NoNewHolder
  <2> QED
    BY <2>6, <2>7 DEF ClaimInv
<1> QED
  BY <1>1, <1>2, <1>3, <1>6, <1>7, <1>8, <1>9, <1>10 DEF Deliver

-----------------------------------------------------------------------------
(* The invariant and what follows from it *)

LEMMA InitInv == Init => DeliveryInv
<1> SUFFICES ASSUME Init PROVE DeliveryInv
  OBVIOUS
<1>1. NoLog \in LogRows /\ "none" \in RowStatus /\ "none" \in Results /\ "idle" \in Steps
  BY DEF NoLog, LogRows, LogStatus, RowStatus, Results, Steps
<1>2. TypeOK
  BY <1>1, NoTaskType DEF Init, TypeOK
<1>3. CascadeHolds
  BY DEF Init, CascadeHolds, NoLog
<1>4. \A w \in Workers, n \in Notices, e \in Endpoints : ~Holds(w, n, e)
  BY DEF Init, Holds
<1>5. RowsAreSettled /\ HolderKnows /\ SingleClaimant /\ AtMostOnce
  BY <1>4 DEF Init, RowsAreSettled, Unheld, HolderKnows, SingleClaimant, AtMostOnce
<1> QED
  BY <1>2, <1>3, <1>5 DEF DeliveryInv

LEMMA InvStep == DeliveryInv /\ [Next]_vars => DeliveryInv'
<1> SUFFICES ASSUME DeliveryInv, [Next]_vars PROVE DeliveryInv'
  OBVIOUS
<1>1. TypeOK /\ CascadeHolds /\ HolderKnows /\ ClaimInv
  BY DEF DeliveryInv, ClaimInv
<1>2. TypeOK' /\ CascadeHolds'
  BY <1>1, TypeStep, CascadeStep
<1>3. CASE UNCHANGED vars
  <2>1. NoNewHolder /\ RowsOnlyClose
    BY <1>3, RowsUnchanged, WorkersUnchanged DEF vars, workers
  <2> QED
    BY <1>1, <1>2, <1>3, <2>1, QuietStep DEF vars, DeliveryInv, ClaimInv
<1>4. CASE Next
  <2>1. ClaimInv'
    BY <1>1, <1>4, TriggerKeepsClaims, ProcessKeepsClaims, DeliverKeepsClaims,
       FailKeepsClaims, EnvironmentKeepsClaims DEF Next
  <2> QED
    BY <1>2, <2>1 DEF DeliveryInv, ClaimInv
<1> QED
  BY <1>3, <1>4

\* The inductive invariant holds of every reachable state.
THEOREM DeliveryInvariant == Spec => []DeliveryInv
BY InitInv, InvStep, PTL DEF Spec

\* Type correctness of the delivery code's state.
THEOREM TypeCorrect == Spec => []TypeOK
<1>1. DeliveryInv => TypeOK
  BY DEF DeliveryInv
<1> QED
  BY <1>1, DeliveryInvariant, PTL

\* No subscription is reached twice by the same reminder, for any number of
\* workers, endpoints, retries and failures (send_batch_notifications).
THEOREM AtMostOnceHolds == Spec => []AtMostOnce
<1>1. DeliveryInv => AtMostOnce
  BY DEF DeliveryInv
<1> QED
  BY <1>1, DeliveryInvariant, PTL

\* No two workers ever hold a claim on the same delivery row (claim_deliveries).
THEOREM SingleClaimantHolds == Spec => []SingleClaimant
<1>1. DeliveryInv => SingleClaimant
  BY DEF DeliveryInv
<1> QED
  BY <1>1, DeliveryInvariant, PTL

\* The recorded status of a delivery never contradicts what was sent
\* (record_delivery_results, ensure_deliveries and the sweep).
THEOREM RecordsAreTruthfulHolds == Spec => []RecordsAreTruthful
<1>1. DeliveryInv => RecordsAreTruthful
  BY DEF DeliveryInv, CascadeHolds, RowsAreSettled, RecordsAreTruthful
<1> QED
  BY <1>1, DeliveryInvariant, PTL

-----------------------------------------------------------------------------
(* Settled rows *)

LEMMA SettledStep ==
    ASSUME TypeOK, Next, NEW n \in Notices, NEW e \in Endpoints,
           row[n][e] \in {"completed", "abandoned", "unknown"}, Unheld(n, e),
           n[1] \in events'
    PROVE  row'[n][e] = row[n][e]
<1>1. ASSUME NEW S, FailLogs(S) PROVE row'[n][e] = row[n][e]
  BY <1>1 DEF FailLogs, GiveUp
<1>2. ASSUME NEW w \in Workers, Trigger(w) PROVE row'[n][e] = row[n][e]
  BY <1>1, <1>2
  DEF Trigger, StartTrigger, FindDue, NextNotice, AbortDetached, EndTrigger, tables
<1>3. ASSUME NEW w \in Workers, Process(w) PROVE row'[n][e] = row[n][e]
  <2>1. CASE EnsureDeliveries(w)
    BY <2>1 DEF EnsureDeliveries, Ensured, Claimable, TypeOK
  <2>2. CASE UNCHANGED row
    BY <2>2
  <2> QED
    BY <1>3, <2>1, <2>2
    DEF Process, CreateLog, SkipNotice, CreateFails, MarkInProgress, SelectSubscriptions,
        CompleteEmpty, CountDeliveries, FinalUpdate, tables
<1>4. ASSUME NEW w \in Workers, Deliver(w) PROVE row'[n][e] = row[n][e]
  <2>1. CASE Claim(w)
    <3>1. PICK f \in task[w].todo :
             /\ row[notice[w]][f] \in Claimable
             /\ row' = [row EXCEPT ![notice[w]][f] = "in_progress"]
      BY <2>1 DEF Claim
    <3>2. ~(n = notice[w] /\ e = f)
      BY <3>1 DEF Claimable
    <3> QED
      BY <3>1, <3>2 DEF TypeOK
  <2>2. CASE RecordResult(w)
    <3>1. ~(n = notice[w] /\ e = claim[w])
      BY <2>2 DEF RecordResult, At, Unheld, Holds
    <3> QED
      BY <2>2, <3>1 DEF RecordResult, TypeOK
  <2> QED
    BY <1>4, <2>1, <2>2
    DEF Deliver, SkipDelivery, DecryptFails, CallProvider, AnswerTaken, AnswerRefused,
        FlushBatch, tables
<1>5. ASSUME NEW w \in Workers, Fail(w) PROVE row'[n][e] = row[n][e]
  <2>1. CASE MarkLogFailed(w)
    <3>1. row' = row \/ row' = [row EXCEPT ![notice[w]] = GiveUp(@)]
      BY <2>1 DEF MarkLogFailed
    <3>2. GiveUp(row[n])[e] = row[n][e]
      BY DEF GiveUp
    <3> QED
      BY <3>1, <3>2 DEF TypeOK
  <2> QED
    BY <1>5, <2>1
    DEF Fail, TransactionFails, ProviderRaises, Cancel, FinalizeFails, Crash, tables
<1>6. ASSUME Environment PROVE row'[n][e] = row[n][e]
  <2>1. ASSUME NEW ev \in Events, DeleteEvent(ev) PROVE row'[n][e] = row[n][e]
    BY <2>1 DEF DeleteEvent
  <2> QED
    BY <1>1, <1>6, <2>1 DEF Environment, Sweep, AgeLog, Subscribe, Unsubscribe
<1> QED
  BY <1>2, <1>3, <1>4, <1>5, <1>6 DEF Next

\* A settled row never changes again while its event exists: no retry, sweep or
\* late answer reopens it.
THEOREM SettledStaysSettledHolds == Spec => SettledStaysSettled
<1> DEFINE Stays ==
        \A n \in Notices, e \in Endpoints :
            /\ row[n][e] \in {"completed", "abandoned", "unknown"}
            /\ \A w \in Workers : ~Holds(w, n, e)
            /\ n[1] \in events'
            => row'[n][e] = row[n][e]
<1>1. TypeOK /\ [Next]_vars => [Stays]_vars
  BY SettledStep DEF Unheld
<1>2. []TypeOK /\ [][Next]_vars => [][Stays]_vars
  BY <1>1, PTL
<1> QED
  BY <1>2, TypeCorrect, PTL DEF Spec, SettledStaysSettled

-----------------------------------------------------------------------------
(* Refinement of PushOnce *)

Bar == [t \in Notices \X Endpoints |-> PhaseOf(t[1], t[2])]

\* Only worker w moves, and not into a call.
OnlyMoves(w) ==
    /\ \A v \in Workers \ {w} : /\ pc'[v] = pc[v]
                                /\ notice'[v] = notice[v]
                                /\ claim'[v] = claim[v]
    /\ pc'[w] # "calling"

LEMMA TriggerMoves ==
    ASSUME TypeOK, NEW w \in Workers, Trigger(w)
    PROVE  OnlyMoves(w) /\ UNCHANGED reached
<1>1. UNCHANGED reached
  BY DEF Trigger, StartTrigger, FindDue, NextNotice, AbortDetached, EndTrigger
<1>2. CASE StartTrigger(w) \/ FindDue(w)
  BY <1>2 DEF StartTrigger, FindDue, Goto, holding, OnlyMoves, TypeOK
<1>3. CASE NextNotice(w)
  BY <1>3 DEF NextNotice, Goto, OnlyMoves, TypeOK
<1>4. CASE AbortDetached(w) \/ EndTrigger(w)
  BY <1>4 DEF AbortDetached, EndTrigger, Leave, Goto, OnlyMoves, TypeOK
<1> QED
  BY <1>1, <1>2, <1>3, <1>4 DEF Trigger

LEMMA ProcessMoves ==
    ASSUME TypeOK, NEW w \in Workers, Process(w)
    PROVE  OnlyMoves(w) /\ UNCHANGED reached
<1>1. UNCHANGED reached
  BY DEF Process, CreateLog, SkipNotice, CreateFails, MarkInProgress, SelectSubscriptions,
         CompleteEmpty, EnsureDeliveries, CountDeliveries, FinalUpdate
<1>2. CASE CreateLog(w) \/ MarkInProgress(w) \/ EnsureDeliveries(w) \/ CountDeliveries(w)
  BY <1>2 DEF CreateLog, MarkInProgress, EnsureDeliveries, CountDeliveries, Goto, holding,
              OnlyMoves, TypeOK
<1>3. CASE SelectSubscriptions(w)
  BY <1>3 DEF SelectSubscriptions, Goto, holding, OnlyMoves, TypeOK
<1>4. CASE SkipNotice(w) \/ CompleteEmpty(w) \/ FinalUpdate(w)
  BY <1>4 DEF SkipNotice, CompleteEmpty, FinalUpdate, EndNotice, Goto, OnlyMoves, TypeOK
<1>5. CASE CreateFails(w)
  BY <1>5 DEF CreateFails, Leave, Goto, OnlyMoves, TypeOK
<1> QED
  BY <1>1, <1>2, <1>3, <1>4, <1>5 DEF Process

LEMMA DeliverMoves ==
    ASSUME TypeOK, NEW w \in Workers, Deliver(w), ~CallProvider(w), ~AnswerRefused(w)
    PROVE  OnlyMoves(w) /\ UNCHANGED reached
<1>1. UNCHANGED reached
  BY DEF Deliver, Claim, SkipDelivery, DecryptFails, AnswerTaken, RecordResult, FlushBatch
<1>2. CASE Claim(w)
  BY <1>2 DEF Claim, Goto, OnlyMoves, TypeOK
<1>3. CASE SkipDelivery(w)
  BY <1>3 DEF SkipDelivery, AfterOne, Goto, holding, OnlyMoves, TypeOK
<1>4. CASE DecryptFails(w) \/ AnswerTaken(w)
  BY <1>4 DEF DecryptFails, AnswerTaken, Goto, OnlyMoves, TypeOK
<1>5. CASE RecordResult(w)
  BY <1>5 DEF RecordResult, Release, AfterOne, Goto, OnlyMoves, TypeOK
<1>6. CASE FlushBatch(w)
  BY <1>6 DEF FlushBatch, Goto, holding, OnlyMoves, TypeOK
<1> QED
  BY <1>1, <1>2, <1>3, <1>4, <1>5, <1>6 DEF Deliver

LEMMA FailMoves ==
    ASSUME TypeOK, NEW w \in Workers, Fail(w)
    PROVE  OnlyMoves(w) /\ UNCHANGED reached
<1>1. UNCHANGED reached
  BY DEF Fail, TransactionFails, ProviderRaises, Cancel, MarkLogFailed, FinalizeFails, Crash
<1>2. CASE TransactionFails(w) \/ ProviderRaises(w) \/ Cancel(w)
  BY <1>2 DEF TransactionFails, ProviderRaises, Cancel, Goto, holding, OnlyMoves, TypeOK
<1>3. CASE MarkLogFailed(w) \/ Crash(w)
  BY <1>3 DEF MarkLogFailed, Crash, AfterFinalize, Leave, EndNotice, Goto, OnlyMoves, TypeOK
<1>4. CASE FinalizeFails(w)
  BY <1>4 DEF FinalizeFails, Leave, Release, Goto, OnlyMoves, TypeOK
<1> QED
  BY <1>1, <1>2, <1>3, <1>4 DEF Fail

\* One pair changes phase and the others keep theirs.
LEMMA BarMoves ==
    ASSUME NEW n \in Notices, NEW e \in Endpoints, NEW from, NEW to,
           PhaseOf(n, e) = from, PhaseOf(n, e)' = to,
           \A m \in Notices, f \in Endpoints :
               ~(m = n /\ f = e) => PhaseOf(m, f)' = PhaseOf(m, f)
    PROVE  Promise!Move(<<n, e>>, from, to)
<1>1. Bar[<<n, e>>] = from
  BY DEF Bar
<1>2. ASSUME NEW t \in Notices \X Endpoints
      PROVE  PhaseOf(t[1], t[2])' = IF t = <<n, e>> THEN to ELSE PhaseOf(t[1], t[2])
  <2>1. t[1] \in Notices /\ t[2] \in Endpoints /\ t = <<t[1], t[2]>>
    OBVIOUS
  <2> QED
    BY <2>1
<1>3. Bar' = [Bar EXCEPT ![<<n, e>>] = to]
  BY <1>2 DEF Bar
<1> QED
  BY <1>1, <1>3 DEF Promise!Move, Bar

\* A worker that moves without calling either was not calling, and nothing is
\* seen, or gives up a call that may have arrived, and the promise closes.
LEMMA MoveRefines ==
    ASSUME DeliveryInv, NEW w \in Workers, OnlyMoves(w), UNCHANGED reached
    PROVE  Promise!Next \/ UNCHANGED Bar
<1>1. CASE pc[w] # "calling"
  <2>1. \A n \in Notices, e \in Endpoints : InFlight(n, e)' <=> InFlight(n, e)
    BY <1>1 DEF OnlyMoves, InFlight, At, Holds
  <2>2. \A n \in Notices, e \in Endpoints : PhaseOf(n, e)' = PhaseOf(n, e)
    BY <2>1 DEF PhaseOf
  <2> QED
    BY <2>2 DEF Bar
<1>2. CASE pc[w] = "calling"
  <2>1. PICK n \in Notices, e \in Endpoints :
            n = notice[w] /\ e = claim[w] /\ Holds(w, n, e) /\ reached[n][e] = 1
    BY <1>2 DEF DeliveryInv, TypeOK, Holds, HolderKnows
  <2>2. \A v \in Workers : v # w => ~Holds(v, n, e)
    BY <2>1 DEF DeliveryInv, SingleClaimant
  <2>3. ~InFlight(n, e)' /\ InFlight(n, e)
    BY <1>2, <2>1, <2>2 DEF OnlyMoves, InFlight, At, Holds
  <2>4. \A m \in Notices, f \in Endpoints :
            ~(m = n /\ f = e) => (InFlight(m, f)' <=> InFlight(m, f))
    BY <1>2, <2>1 DEF OnlyMoves, InFlight, At, Holds
  <2>5. PhaseOf(n, e) = "calling" /\ PhaseOf(n, e)' = "closed"
    BY <2>1, <2>3 DEF PhaseOf
  <2>6. \A m \in Notices, f \in Endpoints :
            ~(m = n /\ f = e) => PhaseOf(m, f)' = PhaseOf(m, f)
    BY <2>4 DEF PhaseOf
  <2>7. Promise!Close(<<n, e>>)
    BY <2>1, <2>5, <2>6, BarMoves DEF Promise!Close
  <2> QED
    BY <2>1, <2>7 DEF Promise!Next
<1> QED
  BY <1>1, <1>2

\* A call opens only for a reminder that has reached nobody and that nobody is
\* calling: the caller holds the claim, and knows it has not been sent.
LEMMA CallRefines ==
    ASSUME DeliveryInv, NEW w \in Workers, CallProvider(w)
    PROVE  Promise!Next
<1>1. PICK n \in Notices, e \in Endpoints :
          n = notice[w] /\ e = claim[w] /\ Holds(w, n, e) /\ reached[n][e] = 0
  BY DEF CallProvider, At, DeliveryInv, TypeOK, Holds, HolderKnows
<1>2. ~InFlight(n, e)
  BY <1>1 DEF CallProvider, At, InFlight, DeliveryInv, SingleClaimant
<1>3. /\ pc' = [pc EXCEPT ![w] = "calling"]
      /\ UNCHANGED <<notice, claim>>
      /\ reached' = [reached EXCEPT ![n][e] = 1]
  BY <1>1 DEF CallProvider, Goto, holding
<1>4. \A m \in Notices, f \in Endpoints :
          InFlight(m, f)' <=> InFlight(m, f) \/ (m = n /\ f = e)
  BY <1>1, <1>3 DEF CallProvider, InFlight, At, Holds, DeliveryInv, TypeOK
<1>5. PhaseOf(n, e) = "open" /\ PhaseOf(n, e)' = "calling"
  BY <1>1, <1>2, <1>4 DEF PhaseOf
<1>6. ASSUME NEW m \in Notices, NEW f \in Endpoints, ~(m = n /\ f = e)
      PROVE  PhaseOf(m, f)' = PhaseOf(m, f)
  <2>1. reached'[m][f] = reached[m][f]
    BY <1>3, <1>6 DEF DeliveryInv, TypeOK
  <2> QED
    BY <1>4, <1>6, <2>1 DEF PhaseOf
<1>7. Promise!Call(<<n, e>>)
  BY <1>5, <1>6, BarMoves DEF Promise!Call
<1> QED
  BY <1>1, <1>7 DEF Promise!Next

\* A refused call reopens its own reminder and no other.
LEMMA RefusalRefines ==
    ASSUME DeliveryInv, NEW w \in Workers, AnswerRefused(w)
    PROVE  Promise!Next
<1>1. PICK n \in Notices, e \in Endpoints :
          n = notice[w] /\ e = claim[w] /\ Holds(w, n, e) /\ reached[n][e] = 1
  BY DEF AnswerRefused, At, DeliveryInv, TypeOK, Holds, HolderKnows
<1>2. \A v \in Workers : v # w => ~Holds(v, n, e)
  BY <1>1 DEF DeliveryInv, SingleClaimant
<1>3. /\ pc' = [pc EXCEPT ![w] = "claimed"] \/ pc' = [pc EXCEPT ![w] = "record"]
      /\ UNCHANGED <<notice, claim>>
      /\ reached' = [reached EXCEPT ![n][e] = 0]
  <2>1. reached' = [reached EXCEPT ![n][e] = @ - 1]
    BY <1>1 DEF AnswerRefused
  <2> QED
    BY <1>1, <2>1 DEF AnswerRefused, Goto
<1>4. pc[w] = "calling" /\ pc'[w] # "calling"
  BY <1>3 DEF AnswerRefused, At, DeliveryInv, TypeOK
<1>5. \A m \in Notices, f \in Endpoints :
          InFlight(m, f)' <=> InFlight(m, f) /\ ~(m = n /\ f = e)
  BY <1>1, <1>2, <1>3, <1>4 DEF InFlight, At, Holds, DeliveryInv, TypeOK
<1>6. PhaseOf(n, e) = "calling" /\ PhaseOf(n, e)' = "open"
  <2>1. InFlight(n, e)
    BY <1>1, <1>4 DEF InFlight, At
  <2>2. reached'[n][e] = 0
    BY <1>3 DEF DeliveryInv, TypeOK
  <2> QED
    BY <1>5, <2>1, <2>2 DEF PhaseOf
<1>7. ASSUME NEW m \in Notices, NEW f \in Endpoints, ~(m = n /\ f = e)
      PROVE  PhaseOf(m, f)' = PhaseOf(m, f)
  <2>1. reached'[m][f] = reached[m][f]
    BY <1>3, <1>7 DEF DeliveryInv, TypeOK
  <2> QED
    BY <1>5, <1>7, <2>1 DEF PhaseOf
<1>8. Promise!Refuse(<<n, e>>)
  BY <1>6, <1>7, BarMoves DEF Promise!Refuse
<1> QED
  BY <1>1, <1>8 DEF Promise!Next

LEMMA PromiseStep == DeliveryInv /\ [Next]_vars => [Promise!Next]_Bar
<1> SUFFICES ASSUME DeliveryInv, [Next]_vars PROVE Promise!Next \/ UNCHANGED Bar
  OBVIOUS
<1>1. CASE UNCHANGED <<pc, notice, claim, reached>>
  BY <1>1 DEF Bar, PhaseOf, InFlight, At, Holds
<1>2. CASE Environment \/ UNCHANGED vars
  <2>1. UNCHANGED <<pc, notice, claim, reached>>
    BY <1>2 DEF Environment, Sweep, AgeLog, Subscribe, Unsubscribe, DeleteEvent, workers, vars
  <2> QED
    BY <1>1, <2>1
<1>3. ASSUME NEW w \in Workers, Trigger(w) \/ Process(w) \/ Deliver(w) \/ Fail(w)
      PROVE  Promise!Next \/ UNCHANGED Bar
  BY <1>3, TriggerMoves, ProcessMoves, DeliverMoves, FailMoves, MoveRefines, CallRefines,
     RefusalRefines DEF DeliveryInv
<1> QED
  BY <1>2, <1>3 DEF Next

\* Scheduled delivery implements the promise of PushOnce.
THEOREM KeepsPromiseHolds == Spec => KeepsPromise
<1>1. Init => Promise!Init
  <2> SUFFICES ASSUME Init PROVE Bar = [t \in Notices \X Endpoints |-> "open"]
    BY DEF Promise!Init, Bar
  <2>1. \A n \in Notices, e \in Endpoints : PhaseOf(n, e) = "open"
    BY DEF Init, PhaseOf, InFlight, At
  <2> QED
    BY <2>1 DEF Bar
<1>2. Spec => []DeliveryInv
  BY DeliveryInvariant
<1> QED
  BY <1>1, <1>2, PromiseStep, PTL DEF Spec, KeepsPromise, Promise!Spec, Bar

-----------------------------------------------------------------------------
(* Claims left behind *)

\* A call or its refusal moves only its own worker too.
LEMMA CallMoves ==
    ASSUME TypeOK, NEW w \in Workers, CallProvider(w) \/ AnswerRefused(w),
           NEW v \in Workers \ {w}
    PROVE  pc'[v] = pc[v] /\ notice'[v] = notice[v] /\ claim'[v] = claim[v]
<1>1. UNCHANGED <<notice, claim>>
  BY DEF CallProvider, AnswerRefused, holding
<1>2. pc'[v] = pc[v]
  BY DEF CallProvider, AnswerRefused, Goto, TypeOK
<1> QED
  BY <1>1, <1>2

\* From its claim to the end of its run a worker lets go of a row only when it
\* records a result, fails the log, or is lost.
LEMMA ClaimsStep ==
    ASSUME DeliveryInv, Next,
           NEW w \in Workers, NEW n \in Notices, NEW e \in Endpoints,
           Keeps(w, n, e), row'[n][e] = "in_progress", ~Keeps(w, n, e)'
    PROVE  FinalizeFails(w) \/ Crash(w)
<1>1. ASSUME NEW v \in Workers \ {w}, Trigger(v) \/ Process(v) \/ Deliver(v) \/ Fail(v)
      PROVE  FALSE
  <2>1. pc'[w] = pc[w] /\ notice'[w] = notice[w] /\ claim'[w] = claim[w]
    BY <1>1, TriggerMoves, ProcessMoves, FailMoves, DeliverMoves, CallMoves
    DEF DeliveryInv, OnlyMoves
  <2> QED
    BY <2>1 DEF Keeps, Holds, At
<1>2. CASE Environment
  BY <1>2 DEF Environment, Sweep, AgeLog, Subscribe, Unsubscribe, DeleteEvent, workers,
              Keeps, Holds, At
<1>3. CASE pc[w] = "finalize" /\ notice[w] = n /\ claim[w] = e
  <2>1. ~Trigger(w) /\ ~Process(w) /\ ~Deliver(w)
    BY <1>3 DEF Trigger, StartTrigger, FindDue, NextNotice, AbortDetached, EndTrigger,
                Process, CreateLog, SkipNotice, CreateFails, MarkInProgress,
                SelectSubscriptions, CompleteEmpty, EnsureDeliveries, CountDeliveries,
                FinalUpdate, Deliver, Claim, SkipDelivery, DecryptFails, CallProvider,
                AnswerTaken, AnswerRefused, RecordResult, FlushBatch, At
  <2>2. ~TransactionFails(w) /\ ~ProviderRaises(w) /\ ~Cancel(w)
    BY <1>3 DEF TransactionFails, ProviderRaises, Cancel, TryTransactions, TrySteps, At
  <2>3. ~MarkLogFailed(w)
    <3>1. CASE LogGone(w)
      <4>1. row[n][e] = "none"
        BY <1>3, <3>1 DEF LogGone, DeliveryInv, CascadeHolds
      <4> QED
        BY <3>1, <4>1 DEF MarkLogFailed
    <3>2. CASE ~LogGone(w)
      <4> SUFFICES ASSUME MarkLogFailed(w) PROVE FALSE
        OBVIOUS
      <4>1. row'[n][e] = GiveUp(row[n])[e]
        BY <1>3, <3>2 DEF MarkLogFailed, DeliveryInv, TypeOK
      <4> QED
        BY <4>1 DEF GiveUp
    <3> QED
      BY <3>1, <3>2
  <2> QED
    BY <1>1, <1>2, <2>1, <2>2, <2>3 DEF Next, Fail
<1>4. CASE Holds(w, n, e)
  <2>1. ~Trigger(w) /\ ~Process(w)
    BY <1>4 DEF Trigger, StartTrigger, FindDue, NextNotice, AbortDetached, EndTrigger,
                Process, CreateLog, SkipNotice, CreateFails, MarkInProgress,
                SelectSubscriptions, CompleteEmpty, EnsureDeliveries, CountDeliveries,
                FinalUpdate, At, Holds
  <2>2. ~Claim(w) /\ ~SkipDelivery(w) /\ ~FlushBatch(w) /\ ~MarkLogFailed(w)
    BY <1>4 DEF Claim, SkipDelivery, FlushBatch, MarkLogFailed, At, Holds
  <2>3. ~DecryptFails(w) /\ ~CallProvider(w) /\ ~AnswerTaken(w) /\ ~AnswerRefused(w)
    <3> SUFFICES ASSUME DecryptFails(w) \/ CallProvider(w) \/ AnswerTaken(w) \/ AnswerRefused(w)
                 PROVE  FALSE
      OBVIOUS
    <3>1. UNCHANGED <<notice, claim>>
      BY DEF DecryptFails, CallProvider, AnswerTaken, AnswerRefused, holding
    <3>2. pc'[w] \in {"claimed", "calling", "record"}
      BY DEF DecryptFails, CallProvider, AnswerTaken, AnswerRefused, Goto, DeliveryInv, TypeOK
    <3> QED
      BY <1>4, <3>1, <3>2 DEF Keeps, Holds
  <2>4. ~TransactionFails(w) /\ ~ProviderRaises(w) /\ ~Cancel(w)
    <3> SUFFICES ASSUME TransactionFails(w) \/ ProviderRaises(w) \/ Cancel(w)
                 PROVE  FALSE
      OBVIOUS
    <3>1. UNCHANGED <<notice, claim>> /\ pc'[w] = "finalize"
      BY DEF TransactionFails, ProviderRaises, Cancel, Goto, holding, DeliveryInv, TypeOK
    <3> QED
      BY <1>4, <3>1 DEF Keeps, Holds, At
  <2>5. ~RecordResult(w)
    <3> SUFFICES ASSUME RecordResult(w) PROVE FALSE
      OBVIOUS
    <3>1. result[w] \in {"completed", "failed", "unknown"}
      BY <1>4 DEF RecordResult, At, DeliveryInv, HolderKnows, TypeOK, Results
    <3>2. row'[n][e] = "none" \/ row'[n][e] = result[w]
      BY <1>4 DEF RecordResult, Holds, DeliveryInv, TypeOK
    <3> QED
      BY <3>1, <3>2
  <2> QED
    BY <1>1, <1>2, <2>1, <2>2, <2>3, <2>4, <2>5 DEF Next, Deliver, Fail
<1> QED
  BY <1>3, <1>4 DEF Keeps, At

\* Only a dead process or a failed failure handler leaves a claim in progress
\* that no worker answers for (_finalize_failed_notification).
THEOREM ClaimsAreSettledHolds == Spec => ClaimsAreSettled
<1> DEFINE Settles ==
        \A w \in Workers, n \in Notices, e \in Endpoints :
            Keeps(w, n, e) /\ row'[n][e] = "in_progress" /\ ~Keeps(w, n, e)'
            => FinalizeFails(w) \/ Crash(w)
<1>1. DeliveryInv /\ [Next]_vars => [Settles]_vars
  BY ClaimsStep
<1>2. []DeliveryInv /\ [][Next]_vars => [][Settles]_vars
  BY <1>1, PTL
<1> QED
  BY <1>2, DeliveryInvariant, PTL DEF Spec, ClaimsAreSettled

-----------------------------------------------------------------------------
(* The accepted count *)

CountInv == AcceptedNeverOverstated /\ CountsAreBacked

\* What a step writes to the accepted count of a log: what it was, nothing,
\* what the rows say, or what a worker at its final update has counted.
LogsAreBacked ==
    \A n \in Notices :
        /\ \/ log'[n].accepted \in {log[n].accepted, 0, Accepted(row[n])'}
           \/ \E w \in Workers : /\ At(w, "final") /\ notice[w] = n /\ Live(n)
                                 /\ log'[n].accepted = task[w].accepted
        /\ Live(n)' => Live(n)
        /\ ~Live(n)' => log'[n].accepted \in {log[n].accepted, 0}
        /\ ~Live(n)' /\ Live(n) => log'[n].accepted = 0

\* A worker that comes to its final update has just counted the rows.
CountersKeep ==
    \A w \in Workers :
        At(w, "final")' =>
            /\ notice'[w] = notice[w]
            /\ \/ At(w, "final") /\ task'[w].accepted = task[w].accepted
               \/ task'[w].accepted = Accepted(row[notice[w]])'

LEMMA GiveUpAccepts == \A r : Accepted(GiveUp(r)) = Accepted(r)
<1> TAKE r
<1>1. {e \in Endpoints : GiveUp(r)[e] = "completed"} = {e \in Endpoints : r[e] = "completed"}
  BY DEF GiveUp
<1> QED
  BY <1>1 DEF Accepted

\* While their event exists completed rows stay, so their number only grows.
LEMMA AcceptedGrows ==
    ASSUME DeliveryInv, [Next]_vars, NEW n \in Notices, Live(n), Live(n)'
    PROVE  Accepted(row[n]) <= Accepted(row[n])'
<1> DEFINE A == {e \in Endpoints : row[n][e] = "completed"}
           B == {e \in Endpoints : row'[n][e] = "completed"}
<1>1. ASSUME NEW e \in Endpoints, row[n][e] = "completed" PROVE row'[n][e] = "completed"
  <2>1. CASE UNCHANGED vars
    BY <1>1, <2>1 DEF vars
  <2>2. CASE Next
    <3>1. Unheld(n, e)
      BY <1>1 DEF DeliveryInv, RowsAreSettled
    <3> QED
      BY <1>1, <2>2, <3>1, SettledStep DEF DeliveryInv, Live
  <2> QED
    BY <2>1, <2>2
<1>2. A \subseteq B
  BY <1>1
<1>3. IsFiniteSet(B)
  BY ConstantsAssumption, FS_Subset
<1>4. Cardinality(A) <= Cardinality(B)
  BY <1>2, <1>3, FS_Subset
<1> QED
  BY <1>4 DEF Accepted

LEMMA CountBounds ==
    ASSUME TypeOK, NEW n \in Notices
    PROVE  Accepted(row[n]) \in Nat /\ log[n].accepted \in Nat
BY CountTypes DEF TypeOK, LogRows

LEMMA CountBoundsNext ==
    ASSUME TypeOK', NEW n \in Notices
    PROVE  Accepted(row[n])' \in Nat /\ log'[n].accepted \in Nat
BY CountTypes DEF TypeOK, LogRows

\* Such a step keeps every count backed.
LEMMA BackedStep ==
    ASSUME DeliveryInv, TypeOK', [Next]_vars, CountInv, LogsAreBacked, CountersKeep
    PROVE  CountInv'
<1>0. TypeOK
  BY DEF DeliveryInv
<1>1. ASSUME NEW n \in Notices PROVE log'[n].accepted <= Accepted(row[n])'
  <2>0. /\ Accepted(row[n]) \in Nat /\ Accepted(row[n])' \in Nat
        /\ log[n].accepted \in Nat /\ log'[n].accepted \in Nat
    BY <1>0, CountBounds, CountBoundsNext
  <2>1. CASE log'[n].accepted \in {0, Accepted(row[n])'}
    BY <2>0, <2>1
  <2>2. CASE ~Live(n)'
    <3>1. log'[n].accepted = 0
      BY <2>2 DEF LogsAreBacked, CountInv, CountsAreBacked
    <3> QED
      BY <2>0, <3>1
  <2>3. CASE Live(n)' /\ log'[n].accepted = log[n].accepted
    <3>1. log[n].accepted <= Accepted(row[n])
      BY DEF CountInv, AcceptedNeverOverstated
    <3>2. Accepted(row[n]) <= Accepted(row[n])'
      BY <2>3, AcceptedGrows DEF LogsAreBacked
    <3> QED
      BY <2>0, <2>3, <3>1, <3>2
  <2>4. ASSUME NEW w \in Workers, At(w, "final"), notice[w] = n, Live(n), Live(n)',
               log'[n].accepted = task[w].accepted
        PROVE  log'[n].accepted <= Accepted(row[n])'
    <3>1. task[w].accepted <= Accepted(row[n])
      BY <2>4 DEF CountInv, CountsAreBacked
    <3>2. Accepted(row[n]) <= Accepted(row[n])'
      BY <2>4, AcceptedGrows
    <3> QED
      BY <2>0, <2>4, <3>1, <3>2
  <2> QED
    BY <2>1, <2>2, <2>3, <2>4 DEF LogsAreBacked
<1>2. ASSUME NEW n \in Notices, ~Live(n)' PROVE log'[n].accepted = 0
  BY <1>2 DEF LogsAreBacked, CountInv, CountsAreBacked
<1>3. ASSUME NEW w \in Workers, At(w, "final")', Live(notice[w])'
      PROVE  task'[w].accepted <= Accepted(row[notice[w]])'
  <2>1. PICK n \in Notices : n = notice'[w]
    BY <1>3 DEF TypeOK, At
  <2>2. notice[w] = n
    BY <1>3, <2>1 DEF CountersKeep
  <2>3. Live(n)' /\ Live(n)
    BY <1>3, <2>1 DEF Live, LogsAreBacked
  <2>4. task'[w].accepted \in Nat /\ Accepted(row[n]) \in Nat /\ Accepted(row[n])' \in Nat
    BY <1>0, CountBounds, CountBoundsNext DEF TypeOK, Tasks
  <2>5. CASE At(w, "final") /\ task'[w].accepted = task[w].accepted
    <3>1. task[w].accepted <= Accepted(row[n])
      BY <2>2, <2>3, <2>5 DEF CountInv, CountsAreBacked
    <3>2. Accepted(row[n]) <= Accepted(row[n])'
      BY <2>3, AcceptedGrows
    <3>3. task'[w].accepted <= Accepted(row[n])'
      BY <2>4, <2>5, <3>1, <3>2
    <3> QED
      BY <2>1, <3>3
  <2>6. CASE task'[w].accepted = Accepted(row[n])'
    BY <2>1, <2>4, <2>6
  <2> QED
    BY <1>3, <2>1, <2>2, <2>5, <2>6 DEF CountersKeep
<1>4. AcceptedNeverOverstated'
  BY <1>1 DEF AcceptedNeverOverstated
<1>5. CountsAreBacked'
  BY <1>2, <1>3 DEF CountsAreBacked
<1> QED
  BY <1>4, <1>5 DEF CountInv

LEMMA FailLogsCounts ==
    ASSUME TypeOK, UNCHANGED events,
           NEW S, S \subseteq {n \in Notices : Stale(n)}, FailLogs(S), CascadeHolds
    PROVE  LogsAreBacked
<1> SUFFICES ASSUME NEW n \in Notices
             PROVE  /\ log'[n].accepted \in {log[n].accepted, Accepted(row[n])'}
                    /\ ~Live(n) => log'[n].accepted = log[n].accepted
  BY DEF LogsAreBacked, Live
<1>1. CASE n \in S
  <2>1. Live(n)
    BY <1>1 DEF Stale, Open, CascadeHolds
  <2>2. row'[n] = GiveUp(row[n]) /\ log'[n].accepted = Accepted(row[n])
    BY <1>1 DEF FailLogs, FailedLog
  <2>3. Accepted(row'[n]) = Accepted(row[n])
    BY <2>2, GiveUpAccepts
  <2> QED
    BY <2>1, <2>2, <2>3
<1>2. CASE n \notin S
  BY <1>2 DEF FailLogs
<1> QED
  BY <1>1, <1>2

LEMMA LogsUntouched ==
    ASSUME UNCHANGED <<events, log>>
    PROVE  LogsAreBacked
BY DEF LogsAreBacked, Live

\* A worker that goes anywhere else than to the final update.
LEMMA OtherStep ==
    ASSUME TypeOK, NEW w \in Workers, NEW s, s # "final", pc' = [pc EXCEPT ![w] = s],
           \A v \in Workers \ {w} : notice'[v] = notice[v] /\ task'[v] = task[v]
    PROVE  CountersKeep
BY DEF CountersKeep, At, TypeOK

LEMMA EndCounts ==
    ASSUME TypeOK, NEW w \in Workers, Leave(w) \/ EndNotice(w)
    PROVE  CountersKeep
BY OtherStep DEF Leave, EndNotice, Goto, TypeOK

LEMMA TriggerCounts ==
    ASSUME TypeOK, CascadeHolds, NEW w \in Workers, Trigger(w)
    PROVE  LogsAreBacked /\ CountersKeep
<1>1. CASE StartTrigger(w)
  <2>1. LogsAreBacked
    BY <1>1, FailLogsCounts DEF StartTrigger
  <2>2. CountersKeep
    BY <1>1, OtherStep DEF StartTrigger, Goto
  <2> QED
    BY <2>1, <2>2
<1>2. CASE FindDue(w)
  <2>1. LogsAreBacked
    BY <1>2, LogsUntouched DEF FindDue, tables
  <2>2. CountersKeep
    BY <1>2, OtherStep DEF FindDue, Goto, holding, TypeOK
  <2> QED
    BY <2>1, <2>2
<1>3. CASE NextNotice(w)
  <2>1. LogsAreBacked
    BY <1>3, FailLogsCounts DEF NextNotice
  <2>2. CountersKeep
    BY <1>3, OtherStep DEF NextNotice, Goto, TypeOK
  <2> QED
    BY <2>1, <2>2
<1>4. CASE AbortDetached(w) \/ EndTrigger(w)
  BY <1>4, LogsUntouched, EndCounts DEF AbortDetached, EndTrigger, tables
<1> QED
  BY <1>1, <1>2, <1>3, <1>4 DEF Trigger

LEMMA ProcessCounts ==
    ASSUME TypeOK, CascadeHolds, NEW w \in Workers, Process(w)
    PROVE  LogsAreBacked /\ CountersKeep
<1>1. CASE CreateLog(w)
  <2>1. UNCHANGED <<events, row>> /\ log' = [log EXCEPT ![notice[w]] = PendingLog]
        /\ Live(notice[w])
    BY <1>1 DEF CreateLog
  <2>2. PendingLog.accepted = 0
    BY DEF PendingLog, NoLog
  <2>3. LogsAreBacked
    BY <2>1, <2>2 DEF LogsAreBacked, Live, TypeOK
  <2>4. CountersKeep
    BY <1>1, OtherStep DEF CreateLog, Goto, holding
  <2> QED
    BY <2>3, <2>4
<1>2. CASE SkipNotice(w) \/ CreateFails(w)
  BY <1>2, LogsUntouched, EndCounts DEF SkipNotice, CreateFails, tables
<1>3. CASE MarkInProgress(w)
  <2>1. UNCHANGED events /\ \A n \in Notices : log'[n].accepted = log[n].accepted
    BY <1>3 DEF MarkInProgress, TypeOK, LogRows
  <2>2. LogsAreBacked
    BY <2>1 DEF LogsAreBacked, Live
  <2>3. CountersKeep
    BY <1>3, OtherStep DEF MarkInProgress, Goto, holding
  <2> QED
    BY <2>2, <2>3
<1>4. CASE SelectSubscriptions(w)
  <2>1. LogsAreBacked
    BY <1>4, LogsUntouched DEF SelectSubscriptions, tables
  <2>2. PICK s \in {"empty", "ensure"} : pc' = [pc EXCEPT ![w] = s]
    BY <1>4 DEF SelectSubscriptions, Goto
  <2>3. CountersKeep
    BY <1>4, <2>2, OtherStep DEF SelectSubscriptions, holding, TypeOK
  <2> QED
    BY <2>1, <2>3
<1>5. CASE CompleteEmpty(w)
  <2>1. UNCHANGED events /\ \A n \in Notices : log'[n].accepted = log[n].accepted
    BY <1>5 DEF CompleteEmpty, TypeOK, LogRows
  <2>2. LogsAreBacked
    BY <2>1 DEF LogsAreBacked, Live
  <2> QED
    BY <1>5, <2>2, EndCounts DEF CompleteEmpty
<1>6. CASE EnsureDeliveries(w)
  <2>1. LogsAreBacked
    BY <1>6, LogsUntouched DEF EnsureDeliveries
  <2>2. CountersKeep
    BY <1>6, OtherStep DEF EnsureDeliveries, Goto, holding
  <2> QED
    BY <2>1, <2>2
<1>7. CASE CountDeliveries(w)
  <2>1. LogsAreBacked
    BY <1>7, LogsUntouched DEF CountDeliveries, tables
  <2>2. UNCHANGED <<row, notice>> /\ pc' = [pc EXCEPT ![w] = "final"]
    BY <1>7 DEF CountDeliveries, Goto, tables, holding
  <2>3. task'[w].accepted = Accepted(row[notice[w]])
    BY <1>7 DEF CountDeliveries, TypeOK, Tasks
  <2>4. \A v \in Workers \ {w} : task'[v] = task[v]
    BY <1>7 DEF CountDeliveries, TypeOK
  <2>5. CountersKeep
    BY <2>2, <2>3, <2>4 DEF CountersKeep, At, TypeOK
  <2> QED
    BY <2>1, <2>5
<1>8. CASE FinalUpdate(w)
  <2>1. notice[w] \in Notices
    BY <1>8 DEF FinalUpdate, At, TypeOK
  <2>2. Live(notice[w]) /\ At(w, "final") /\ UNCHANGED events
    BY <1>8, <2>1 DEF FinalUpdate, LogGone, CascadeHolds
  <2>3. /\ log'[notice[w]].accepted \in {log[notice[w]].accepted, task[w].accepted}
        /\ \A n \in Notices : n # notice[w] => log'[n] = log[n]
    BY <1>8, <2>1 DEF FinalUpdate, Written, TypeOK
  <2>4. LogsAreBacked
    BY <2>1, <2>2, <2>3 DEF LogsAreBacked, Live
  <2> QED
    BY <1>8, <2>4, EndCounts DEF FinalUpdate
<1> QED
  BY <1>1, <1>2, <1>3, <1>4, <1>5, <1>6, <1>7, <1>8 DEF Process

LEMMA DeliverCounts ==
    ASSUME TypeOK, NEW w \in Workers, Deliver(w)
    PROVE  LogsAreBacked /\ CountersKeep
<1>1. UNCHANGED <<events, log>>
  BY DEF Deliver, Claim, SkipDelivery, DecryptFails, CallProvider, AnswerTaken,
         AnswerRefused, RecordResult, FlushBatch, tables
<1>2. UNCHANGED notice
  BY DEF Deliver, Claim, SkipDelivery, DecryptFails, CallProvider, AnswerTaken,
         AnswerRefused, RecordResult, FlushBatch, holding
<1>3. \A v \in Workers \ {w} : task'[v] = task[v]
  <2>1. CASE Claim(w) \/ SkipDelivery(w)
    BY <2>1 DEF Claim, SkipDelivery, TypeOK
  <2>2. CASE CallProvider(w) \/ AnswerRefused(w) \/ FlushBatch(w)
    BY <2>2 DEF CallProvider, AnswerRefused, FlushBatch, TypeOK
  <2>3. CASE DecryptFails(w) \/ AnswerTaken(w) \/ RecordResult(w)
    BY <2>3 DEF DecryptFails, AnswerTaken, RecordResult
  <2> QED
    BY <2>1, <2>2, <2>3 DEF Deliver
<1>4. PICK s \in {"claimed", "calling", "record", "flush", "send", "count"} :
          pc' = [pc EXCEPT ![w] = s]
  BY DEF Deliver, Claim, SkipDelivery, DecryptFails, CallProvider, AnswerTaken,
         AnswerRefused, RecordResult, FlushBatch, AfterOne, Goto
<1>5. CountersKeep
  BY <1>2, <1>3, <1>4, OtherStep
<1> QED
  BY <1>1, <1>5, LogsUntouched

LEMMA FailCounts ==
    ASSUME TypeOK, CascadeHolds, NEW w \in Workers, Fail(w)
    PROVE  LogsAreBacked /\ CountersKeep
<1>1. CASE TransactionFails(w) \/ ProviderRaises(w) \/ Cancel(w)
  <2>1. LogsAreBacked
    BY <1>1, LogsUntouched DEF TransactionFails, ProviderRaises, Cancel, tables
  <2>2. \A v \in Workers \ {w} : notice'[v] = notice[v] /\ task'[v] = task[v]
    BY <1>1 DEF TransactionFails, ProviderRaises, Cancel, holding, TypeOK
  <2>3. CountersKeep
    BY <1>1, <2>2, OtherStep DEF TransactionFails, ProviderRaises, Cancel, Goto
  <2> QED
    BY <2>1, <2>3
<1>2. CASE MarkLogFailed(w)
  <2>1. CountersKeep
    BY <1>2, EndCounts DEF MarkLogFailed, AfterFinalize
  <2>2. notice[w] \in Notices /\ UNCHANGED events
    BY <1>2 DEF MarkLogFailed, At, TypeOK
  <2>3. CASE LogGone(w)
    BY <1>2, <2>1, <2>2, <2>3, LogsUntouched DEF MarkLogFailed
  <2>4. CASE ~LogGone(w)
    <3>1. Live(notice[w])
      BY <2>2, <2>4 DEF LogGone, CascadeHolds
    <3>2. /\ row'[notice[w]] = GiveUp(row[notice[w]])
          /\ log'[notice[w]].accepted = Accepted(row[notice[w]])
          /\ \A n \in Notices : n # notice[w] => log'[n] = log[n]
      BY <1>2, <2>2, <2>4 DEF MarkLogFailed, FailedLog, TypeOK
    <3>3. Accepted(row'[notice[w]]) = Accepted(row[notice[w]])
      BY <3>2, GiveUpAccepts
    <3>4. LogsAreBacked
      BY <2>2, <3>1, <3>2, <3>3 DEF LogsAreBacked, Live
    <3> QED
      BY <2>1, <3>4
  <2> QED
    BY <2>3, <2>4
<1>3. CASE FinalizeFails(w)
  <2>1. LogsAreBacked
    BY <1>3, LogsUntouched DEF FinalizeFails, tables
  <2>2. CASE task[w].cancelled
    BY <1>3, <2>1, <2>2, EndCounts DEF FinalizeFails
  <2>3. CASE ~task[w].cancelled
    <3>1. CountersKeep
      BY <1>3, <2>3, OtherStep DEF FinalizeFails, Goto, TypeOK
    <3> QED
      BY <2>1, <3>1
  <2> QED
    BY <2>2, <2>3
<1>4. CASE Crash(w)
  BY <1>4, LogsUntouched, EndCounts DEF Crash, tables
<1> QED
  BY <1>1, <1>2, <1>3, <1>4 DEF Fail

LEMMA EnvironmentCounts ==
    ASSUME TypeOK, CascadeHolds, Environment
    PROVE  LogsAreBacked /\ CountersKeep
<1>1. UNCHANGED workers
  BY DEF Environment, Sweep, AgeLog, Subscribe, Unsubscribe, DeleteEvent
<1>2. CountersKeep
  BY <1>1 DEF workers, CountersKeep, At
<1>3. CASE Sweep
  BY <1>2, <1>3, FailLogsCounts DEF Sweep
<1>4. ASSUME NEW n \in Notices, AgeLog(n) PROVE LogsAreBacked
  <2>1. UNCHANGED events /\ \A m \in Notices : log'[m].accepted = log[m].accepted
    BY <1>4 DEF AgeLog, TypeOK, LogRows
  <2> QED
    BY <2>1 DEF LogsAreBacked, Live
<1>5. ASSUME NEW e \in Endpoints, Subscribe(e) \/ Unsubscribe(e) PROVE LogsAreBacked
  BY <1>5, LogsUntouched DEF Subscribe, Unsubscribe
<1>6. ASSUME NEW ev \in Events, DeleteEvent(ev) PROVE LogsAreBacked
  BY <1>6 DEF DeleteEvent, NoLog, LogsAreBacked, Live
<1> QED
  BY <1>2, <1>3, <1>4, <1>5, <1>6 DEF Environment

LEMMA CountStep == DeliveryInv /\ CountInv /\ [Next]_vars => CountInv'
<1> SUFFICES ASSUME DeliveryInv, CountInv, [Next]_vars PROVE CountInv'
  OBVIOUS
<1>1. DeliveryInv'
  BY InvStep
<1>2. TypeOK /\ CascadeHolds /\ TypeOK'
  BY <1>1 DEF DeliveryInv
<1>3. CASE UNCHANGED vars
  BY <1>2, <1>3, LogsUntouched, BackedStep DEF vars, CountersKeep, At
<1>4. CASE Next
  BY <1>2, <1>4, TriggerCounts, ProcessCounts, DeliverCounts, FailCounts,
     EnvironmentCounts, BackedStep DEF Next
<1> QED
  BY <1>3, <1>4

\* The accepted count of a log never exceeds the deliveries recorded as
\* completed, whichever of several workers and sweeps wrote it last.
THEOREM AcceptedNeverOverstatedHolds == Spec => []AcceptedNeverOverstated
<1>1. Init => CountInv
  <2> SUFFICES ASSUME Init PROVE CountInv
    OBVIOUS
  <2>1. TypeOK
    BY InitInv DEF DeliveryInv
  <2>2. \A n \in Notices : log[n].accepted = 0
    BY DEF Init, NoLog
  <2>3. \A w \in Workers : ~At(w, "final")
    BY DEF Init, At
  <2> QED
    BY <2>1, <2>2, <2>3, CountBounds DEF CountInv, AcceptedNeverOverstated, CountsAreBacked
<1>2. Spec => []CountInv
  BY <1>1, CountStep, DeliveryInvariant, PTL DEF Spec
<1>3. CountInv => AcceptedNeverOverstated
  BY DEF CountInv
<1> QED
  BY <1>2, <1>3, PTL

-----------------------------------------------------------------------------
(* Why an open log closes *)

\* The workers that have opened the log of n and are about to mark it in progress.
Markers(n) == {w \in Workers : At(w, "mark") /\ notice[w] = n}

\* A log that stays open is none of those that are failed.
LEMMA FailedIsClosed ==
    ASSUME NEW S, FailLogs(S), NEW n \in Notices, Open(n)'
    PROVE  n \notin S /\ log'[n] = log[n]
BY DEF FailLogs, FailedLog, Open

\* A worker that is not at the mark afterwards is no new marker.
LEMMA NoNewMarker ==
    ASSUME TypeOK, NEW n \in Notices, NEW w \in Workers, pc'[w] # "mark",
           \A v \in Workers \ {w} : pc'[v] = pc[v] /\ notice'[v] = notice[v]
    PROVE  Markers(n)' \subseteq Markers(n)
BY DEF Markers, At

LEMMA EndsUnmarked ==
    ASSUME TypeOK, NEW n \in Notices, NEW w \in Workers, Leave(w) \/ EndNotice(w)
    PROVE  Markers(n)' \subseteq Markers(n)
BY NoNewMarker DEF Leave, EndNotice, Goto, TypeOK

LEMMA TriggerStays ==
    ASSUME TypeOK, NEW w \in Workers, Trigger(w), NEW n \in Notices, Open(n)'
    PROVE  Markers(n)' \subseteq Markers(n) /\ log'[n] = log[n]
<1>1. CASE StartTrigger(w) \/ NextNotice(w)
  <2>1. log'[n] = log[n]
    BY <1>1, FailedIsClosed DEF StartTrigger, NextNotice
  <2>2. Markers(n)' \subseteq Markers(n)
    BY <1>1, NoNewMarker DEF StartTrigger, NextNotice, Goto, TypeOK
  <2> QED
    BY <2>1, <2>2
<1>2. CASE FindDue(w)
  BY <1>2, NoNewMarker DEF FindDue, Goto, tables, holding, TypeOK
<1>3. CASE AbortDetached(w) \/ EndTrigger(w)
  BY <1>3, EndsUnmarked DEF AbortDetached, EndTrigger, tables
<1> QED
  BY <1>1, <1>2, <1>3 DEF Trigger

LEMMA ProcessStays ==
    ASSUME TypeOK, NEW w \in Workers, Process(w), NEW n \in Notices, Open(n), Open(n)'
    PROVE  /\ Markers(n)' \subseteq Markers(n)
           /\ log'[n] = log[n] \/ Markers(n)' # Markers(n)
<1>1. CASE CreateLog(w)
  <2>1. notice[w] # n
    BY <1>1 DEF CreateLog, Open
  <2>2. log'[n] = log[n] /\ Markers(n)' \subseteq Markers(n)
    BY <1>1, <2>1 DEF CreateLog, Markers, At, Goto, holding, TypeOK
  <2> QED
    BY <2>2
<1>2. CASE MarkInProgress(w)
  <2>1. pc'[w] = "select" /\ pc[w] = "mark"
    BY <1>2 DEF MarkInProgress, At, Goto, TypeOK
  <2>2. Markers(n)' \subseteq Markers(n)
    BY <1>2, <2>1, NoNewMarker DEF MarkInProgress, Goto, holding, TypeOK
  <2>3. CASE notice[w] = n
    <3>1. w \in Markers(n) /\ w \notin Markers(n)'
      BY <2>1, <2>3 DEF Markers, At
    <3> QED
      BY <2>2, <3>1
  <2>4. CASE notice[w] # n
    BY <1>2, <2>2, <2>4 DEF MarkInProgress, TypeOK
  <2> QED
    BY <2>3, <2>4
<1>3. CASE SkipNotice(w) \/ CreateFails(w)
  BY <1>3, EndsUnmarked DEF SkipNotice, CreateFails, tables
<1>4. CASE SelectSubscriptions(w) \/ EnsureDeliveries(w) \/ CountDeliveries(w)
  BY <1>4, NoNewMarker
     DEF SelectSubscriptions, EnsureDeliveries, CountDeliveries, Goto, tables, holding, TypeOK
\* These close the log of their own notice.
<1>5. CASE CompleteEmpty(w) \/ FinalUpdate(w)
  <2>1. notice[w] # n
    BY <1>5 DEF CompleteEmpty, FinalUpdate, Open, TypeOK, LogRows
  <2>2. log'[n] = log[n]
    BY <1>5, <2>1 DEF CompleteEmpty, FinalUpdate, TypeOK
  <2> QED
    BY <1>5, <2>2, EndsUnmarked DEF CompleteEmpty, FinalUpdate
<1> QED
  BY <1>1, <1>2, <1>3, <1>4, <1>5 DEF Process

LEMMA DeliverStays ==
    ASSUME TypeOK, NEW w \in Workers, Deliver(w), NEW n \in Notices
    PROVE  Markers(n)' \subseteq Markers(n) /\ log'[n] = log[n]
<1>1. UNCHANGED <<log, notice>>
  BY DEF Deliver, Claim, SkipDelivery, DecryptFails, CallProvider, AnswerTaken, AnswerRefused,
         RecordResult, FlushBatch, tables, holding
<1>2. \E s \in Steps \ {"mark"} : pc' = [pc EXCEPT ![w] = s]
  BY DEF Deliver, Claim, SkipDelivery, DecryptFails, CallProvider, AnswerTaken, AnswerRefused,
         RecordResult, FlushBatch, Goto, AfterOne, Steps
<1> QED
  BY <1>1, <1>2, NoNewMarker DEF TypeOK

LEMMA FailStays ==
    ASSUME TypeOK, NEW w \in Workers, Fail(w), NEW n \in Notices, Open(n)'
    PROVE  Markers(n)' \subseteq Markers(n) /\ log'[n] = log[n]
<1>1. CASE TransactionFails(w) \/ ProviderRaises(w) \/ Cancel(w)
  BY <1>1, NoNewMarker DEF TransactionFails, ProviderRaises, Cancel, Goto, tables, holding, TypeOK
<1>2. CASE MarkLogFailed(w)
  <2>1. log'[n] = log[n]
    BY <1>2 DEF MarkLogFailed, FailedLog, Open, TypeOK
  <2> QED
    BY <1>2, <2>1, EndsUnmarked DEF MarkLogFailed, AfterFinalize
<1>3. CASE FinalizeFails(w)
  <2>1. CASE task[w].cancelled
    BY <1>3, <2>1, EndsUnmarked DEF FinalizeFails, tables
  <2>2. CASE ~task[w].cancelled
    BY <1>3, <2>2, NoNewMarker DEF FinalizeFails, Goto, tables, TypeOK
  <2> QED
    BY <2>1, <2>2
<1>4. CASE Crash(w)
  BY <1>4, EndsUnmarked DEF Crash, tables
<1> QED
  BY <1>1, <1>2, <1>3, <1>4 DEF Fail

LEMMA EnvironmentStays ==
    ASSUME TypeOK, Environment, NEW n \in Notices, Open(n)'
    PROVE  /\ Markers(n)' = Markers(n)
           /\ \/ log'[n] = log[n]
              \/ log'[n] = [log[n] EXCEPT !.stale = TRUE]
<1>1. UNCHANGED workers
  BY DEF Environment, Sweep, AgeLog, Subscribe, Unsubscribe, DeleteEvent
<1>2. Markers(n)' = Markers(n)
  BY <1>1 DEF workers, Markers, At
<1>3. Sweep => log'[n] = log[n]
  BY FailedIsClosed DEF Sweep
<1>4. ASSUME NEW m \in Notices, AgeLog(m)
      PROVE  log'[n] = log[n] \/ log'[n] = [log[n] EXCEPT !.stale = TRUE]
  BY <1>4 DEF AgeLog, TypeOK, LogRows
<1>5. ASSUME NEW ev \in Events, DeleteEvent(ev) PROVE log'[n] = log[n]
  BY <1>5 DEF DeleteEvent, NoLog, Open
<1>6. ASSUME NEW e \in Endpoints, Subscribe(e) \/ Unsubscribe(e) PROVE log'[n] = log[n]
  BY <1>6 DEF Subscribe, Unsubscribe
<1> QED
  BY <1>2, <1>3, <1>4, <1>5, <1>6 DEF Environment

\* What OpenLogCloses rests on, for any number of workers. While a log stays open, the
\* workers that may still mark it (and so make it fresh) become fewer and never more; once
\* stale it stays so, and a sweep closes it, unless one of them marks it
\* (create_notification_log opens a closed log only, reclaim_stale_logs).
THEOREM FreshnessRunsOut ==
    Spec => [][\A n \in Notices :
                  Open(n) /\ Open(n)'
                  => /\ Markers(n)' \subseteq Markers(n)
                     /\ Stale(n) => \/ Stale(n)' /\ ~Sweep
                                    \/ Markers(n)' # Markers(n)]_vars
<1> DEFINE RunsOut ==
      \A n \in Notices :
          Open(n) /\ Open(n)'
          => /\ Markers(n)' \subseteq Markers(n)
             /\ Stale(n) => \/ Stale(n)' /\ ~Sweep
                            \/ Markers(n)' # Markers(n)
<1>1. ASSUME DeliveryInv, [Next]_vars PROVE [RunsOut]_vars
  <2> SUFFICES ASSUME ~UNCHANGED vars, NEW n \in Notices, Open(n), Open(n)'
               PROVE  /\ Markers(n)' \subseteq Markers(n)
                      /\ Stale(n) => \/ Stale(n)' /\ ~Sweep
                                     \/ Markers(n)' # Markers(n)
    OBVIOUS
  <2>0. TypeOK
    BY <1>1 DEF DeliveryInv
  <2>1. Sweep => ~Stale(n)
    BY FailedIsClosed DEF Sweep
  <2>2. /\ Markers(n)' \subseteq Markers(n)
        /\ \/ log'[n] = log[n]
           \/ log'[n] = [log[n] EXCEPT !.stale = TRUE]
           \/ Markers(n)' # Markers(n)
    BY <1>1, <2>0, TriggerStays, ProcessStays, DeliverStays, FailStays, EnvironmentStays
       DEF Next
  <2>3. Stale(n) => Stale(n)' \/ Markers(n)' # Markers(n)
    BY <2>0, <2>2 DEF Stale, TypeOK, LogRows
  <2> QED
    BY <2>1, <2>2, <2>3
<1> QED
  BY <1>1, DeliveryInvariant, PTL DEF Spec
=============================================================================
