------------------------ MODULE RsvpCapacity_proofs ------------------------
(***************************************************************************)
(* Proofs about RsvpCapacity, for any number of members and concurrent     *)
(* requests and any capacities.                                            *)
(***************************************************************************)
EXTENDS RsvpCapacity, FiniteSetTheorems, TLAPS

USE DEF RsvpParameters

-----------------------------------------------------------------------------
(* Type correctness *)

LEMMA NoRequestType == NoRequest \in RequestRecords
BY RsvpAssumption DEF NoRequest, RequestRecords, Status

LEMMA RejectType ==
    ASSUME TypeOK, NEW p \in Processes, Leave(p)
    PROVE  /\ pc' \in [Processes -> Steps]
           /\ req' \in [Processes -> RequestRecords]
           /\ candidate' \in [Processes -> Members \cup {None}]
           /\ \A q \in Processes :
                  /\ pc'[q] # "idle" => req'[q].member \in Members
                  /\ pc'[q] = "commit" => candidate'[q] \in Members
BY NoRequestType DEF TypeOK, Leave, Goto, Steps

LEMMA NormalizeType ==
    ASSUME NEW wanted \in Status, NEW loaded, NEW going, NEW limit
    PROVE  Normalize(wanted, loaded, going, limit) \in Status
BY DEF Normalize, Status

LEMMA TypeInit == Init => TypeOK
BY NoRequestType, RsvpAssumption DEF Init, TypeOK, Status, Steps

LEMMA TypeStep == TypeOK /\ [Next]_vars => TypeOK'
<1> SUFFICES ASSUME TypeOK, [Next]_vars PROVE TypeOK'
  OBVIOUS
<1> USE DEF At, Goto, table
<1>1. ASSUME NEW p \in Processes, Begin(p) PROVE TypeOK'
  <2>1. PICK m \in Members, wanted \in Requests, create \in BOOLEAN, t \in 1..MaxTicket :
            req' = [req EXCEPT ![p] =
                       [member |-> m, wanted |-> wanted, create |-> create,
                        started |-> t, limit |-> 0, loaded |-> "none",
                        decided |-> "none"]]
    BY <1>1 DEF Begin
  <2>2. wanted \in Status /\ t \in 0..MaxTicket
    BY RsvpAssumption DEF Status
  <2> DEFINE r == [member |-> m, wanted |-> wanted, create |-> create,
                   started |-> t, limit |-> 0, loaded |-> "none",
                   decided |-> "none"]
  <2>3. r \in RequestRecords /\ r.member = m
    BY <2>2 DEF RequestRecords, Status
  <2> HIDE DEF r
  <2>4. req' = [req EXCEPT ![p] = r]
    BY <2>1 DEF r
  <2> QED
    BY <1>1, <2>3, <2>4 DEF Begin, TypeOK, Steps
<1>2. ASSUME NEW p \in Processes, ReadEvent(p) PROVE TypeOK'
  <2>1. CASE exists
    BY <1>2, <2>1 DEF ReadEvent, TypeOK, Steps, RequestRecords
  <2>2. CASE ~exists
    BY <1>2, <2>2, RejectType DEF ReadEvent, Reject, TypeOK
  <2> QED
    BY <2>1, <2>2
<1>3. ASSUME NEW p \in Processes, LoadRow(p) PROVE TypeOK'
  BY <1>3 DEF LoadRow, TypeOK, Steps, RequestRecords
<1>4. ASSUME NEW p \in Processes, Count(p) PROVE TypeOK'
  <2>1. req[p].wanted \in Status
    BY DEF TypeOK, RequestRecords
  <2>2. Normalize(req[p].wanted, req[p].loaded, Cardinality(Going), req[p].limit)
            \in Status
    BY <2>1, NormalizeType
  <2> QED
    BY <1>4, <2>2 DEF Count, TypeOK, Steps, RequestRecords
<1>5. ASSUME NEW p \in Processes, Check(p) PROVE TypeOK'
  <2>1. CASE status[req[p].member] # "none"
    BY <1>5, <2>1, RejectType DEF Check, Reject, TypeOK
  <2>2. CASE status[req[p].member] = "none"
    BY <1>5, <2>2 DEF Check, TypeOK, Steps
  <2> QED
    BY <2>1, <2>2
<1>6. ASSUME NEW p \in Processes, Insert(p) PROVE TypeOK'
  <2>1. status' \in [Members -> Status] /\ joined' \in [Members -> 0..MaxTicket]
    BY <1>6 DEF Insert, TypeOK, RequestRecords
  <2> QED
    BY <1>6, <2>1, RejectType DEF Insert, TypeOK
<1>7. ASSUME NEW p \in Processes, Update(p) PROVE TypeOK'
  <2>1. status' \in [Members -> Status]
    BY <1>7 DEF Update, TypeOK, RequestRecords
  <2>2. CASE req[p].decided = "cancel"
    BY <1>7, <2>1, <2>2 DEF Update, TypeOK, Steps
  <2>3. CASE req[p].decided # "cancel"
    BY <1>7, <2>1, <2>3, RejectType DEF Update, TypeOK
  <2> QED
    BY <2>2, <2>3
<1>8. ASSUME NEW p \in Processes, UpdateFails(p) \/ NobodyWaits(p) \/ Abort(p)
      PROVE  TypeOK'
  BY <1>8, RejectType DEF UpdateFails, NobodyWaits, Abort, Reject, TypeOK
<1>9. ASSUME NEW p \in Processes, LockCandidate(p) PROVE TypeOK'
  BY <1>9 DEF LockCandidate, TypeOK, Steps
<1>10. ASSUME NEW p \in Processes, CommitPromotion(p) PROVE TypeOK'
  <2>1. status' \in [Members -> Status]
    BY <1>10 DEF CommitPromotion, TypeOK, Status
  <2> QED
    BY <1>10, <2>1, RejectType DEF CommitPromotion, TypeOK
<1>11. ASSUME NEW c \in Capacities, UpdateEvent(c) PROVE TypeOK'
  BY <1>11, RsvpAssumption DEF UpdateEvent, TypeOK
<1>12. CASE DeleteEvent
  <2>1. status' \in [Members -> Status] /\ joined' \in [Members -> 0..MaxTicket]
    BY <1>12, RsvpAssumption DEF DeleteEvent, Status
  <2> QED
    BY <1>12, <2>1 DEF DeleteEvent, TypeOK
<1>13. CASE UNCHANGED vars
  BY <1>13 DEF vars, TypeOK
<1> QED
  BY <1>1, <1>2, <1>3, <1>4, <1>5, <1>6, <1>7, <1>8, <1>9, <1>10, <1>11, <1>12,
     <1>13 DEF Next, Request, Promote

-----------------------------------------------------------------------------
(* Row locks *)

Locks == NoDoublePromotion /\ LocksHoldWaiters

\* A step that takes no lock and changes no locked row keeps the locks.
LEMMA LocksKept ==
    ASSUME TypeOK, Locks,
           \A p \in Processes : At(p, "commit")'
               => At(p, "commit") /\ candidate'[p] = candidate[p],
           \A p \in Processes : At(p, "commit")'
               => status'[candidate[p]] = status[candidate[p]]
    PROVE  Locks'
BY DEF Locks, NoDoublePromotion, LocksHoldWaiters, At

LEMMA LocksStep == RsvpInv /\ [Next]_vars => Locks'
<1> SUFFICES ASSUME RsvpInv, [Next]_vars PROVE Locks'
  OBVIOUS
<1>0. TypeOK /\ Locks
  BY DEF RsvpInv, Locks
\* Whoever leaves gives up its own lock only.
<1>a. ASSUME NEW p \in Processes, Leave(p), NEW q \in Processes, At(q, "commit")'
      PROVE  q # p /\ At(q, "commit") /\ candidate'[q] = candidate[q]
  BY <1>0, <1>a DEF Leave, Goto, At, TypeOK
<1>1. ASSUME NEW p \in Processes, Reject(p) PROVE Locks'
  BY <1>0, <1>a, <1>1, LocksKept DEF Reject, table
\* These steps write no row and go elsewhere than to the commit.
<1>2. ASSUME NEW p \in Processes, Begin(p) \/ LoadRow(p) \/ Count(p) PROVE Locks'
  BY <1>0, <1>2, LocksKept DEF Begin, LoadRow, Count, Goto, At, table, TypeOK
<1>3. ASSUME NEW p \in Processes, ReadEvent(p) PROVE Locks'
  <2>1. CASE exists
    BY <1>0, <1>3, <2>1, LocksKept DEF ReadEvent, Goto, At, table, TypeOK
  <2>2. CASE ~exists
    BY <1>1, <1>3, <2>2 DEF ReadEvent
  <2> QED
    BY <2>1, <2>2
<1>4. ASSUME NEW p \in Processes, Check(p) PROVE Locks'
  <2>1. CASE status[req[p].member] # "none"
    BY <1>1, <1>4, <2>1 DEF Check
  <2>2. CASE status[req[p].member] = "none"
    BY <1>0, <1>4, <2>2, LocksKept DEF Check, Goto, At, table, TypeOK
  <2> QED
    BY <2>1, <2>2
\* A locked row exists, so the insert does not touch it.
<1>5. ASSUME NEW p \in Processes, Insert(p) PROVE Locks'
  <2>1. \A q \in Processes : At(q, "commit")'
            => status'[candidate[q]] = status[candidate[q]]
    <3> SUFFICES ASSUME NEW q \in Processes, At(q, "commit")'
                 PROVE  status'[candidate[q]] = status[candidate[q]]
      OBVIOUS
    <3>1. At(q, "commit")
      BY <1>a, <1>5 DEF Insert
    <3>2. status[candidate[q]] = "waitlist"
      BY <1>0, <3>1 DEF Locks, LocksHoldWaiters
    <3>3. candidate[q] \in Members
      BY <1>0, <3>1 DEF TypeOK, At
    <3>4. CASE status' = status
      BY <3>4
    <3>5. CASE /\ status[req[p].member] = "none"
               /\ status' = [status EXCEPT ![req[p].member] = req[p].decided]
      BY <1>0, <3>2, <3>3, <3>5 DEF TypeOK
    <3> QED
      BY <1>5, <3>4, <3>5 DEF Insert
  <2> QED
    BY <1>0, <1>a, <1>5, <2>1, LocksKept DEF Insert
\* The update of a locked row waits.
<1>6. ASSUME NEW p \in Processes, Update(p) PROVE Locks'
  <2>1. \A q \in Processes : At(q, "commit")'
            => At(q, "commit") /\ candidate'[q] = candidate[q]
    <3>1. CASE req[p].decided = "cancel"
      BY <1>0, <1>6, <3>1 DEF Update, Goto, At, TypeOK
    <3>2. CASE req[p].decided # "cancel"
      BY <1>a, <1>6, <3>2 DEF Update
    <3> QED
      BY <3>1, <3>2
  <2>2. \A q \in Processes : At(q, "commit")
            => status'[candidate[q]] = status[candidate[q]]
    BY <1>0, <1>6 DEF Update, Locked, TypeOK
  <2> QED
    BY <1>0, <2>1, <2>2, LocksKept
<1>7. ASSUME NEW p \in Processes, UpdateFails(p) \/ NobodyWaits(p) \/ Abort(p)
      PROVE  Locks'
  BY <1>1, <1>7 DEF UpdateFails, NobodyWaits, Abort
\* SKIP LOCKED: the new candidate waits and nobody else has locked it.
<1>8. ASSUME NEW p \in Processes, LockCandidate(p) PROVE Locks'
  <2>1. PICK m \in Waiting : candidate' = [candidate EXCEPT ![p] = m]
    BY <1>8 DEF LockCandidate, Oldest
  <2>2. m \in Members /\ status[m] = "waitlist" /\ ~Locked(m)
    BY <2>1 DEF Waiting
  <2>3. status' = status /\ pc' = [pc EXCEPT ![p] = "commit"]
    BY <1>8 DEF LockCandidate, Goto, table
  <2>4. \A q \in Processes : q # p /\ At(q, "commit")'
            => At(q, "commit") /\ candidate'[q] = candidate[q] /\ candidate[q] # m
    BY <1>0, <2>1, <2>2, <2>3 DEF Locked, At, TypeOK
  <2>5. candidate'[p] = m
    BY <1>0, <2>1 DEF TypeOK
  <2> QED
    BY <1>0, <2>2, <2>3, <2>4, <2>5
       DEF Locks, NoDoublePromotion, LocksHoldWaiters, At
\* The row that is committed is locked by nobody else.
<1>9. ASSUME NEW p \in Processes, CommitPromotion(p) PROVE Locks'
  <2>1. \A q \in Processes : At(q, "commit")'
            => q # p /\ At(q, "commit") /\ candidate'[q] = candidate[q]
    BY <1>a, <1>9 DEF CommitPromotion
  <2>2. \A q \in Processes : At(q, "commit")' => candidate[q] # candidate[p]
    BY <1>0, <1>9, <2>1 DEF CommitPromotion, Locks, NoDoublePromotion
  <2>3. \A q \in Processes : At(q, "commit")'
            => status'[candidate[q]] = status[candidate[q]]
    BY <1>0, <1>9, <2>1, <2>2 DEF CommitPromotion, At, TypeOK
  <2> QED
    BY <1>0, <2>1, <2>3, LocksKept
<1>10. ASSUME NEW c \in Capacities, UpdateEvent(c) PROVE Locks'
  BY <1>0, <1>10, LocksKept DEF UpdateEvent, At
\* The deletion waits for every lock.
<1>11. CASE DeleteEvent
  <2>1. \A q \in Processes : ~At(q, "commit")
    BY <1>0, <1>11 DEF DeleteEvent, Locked, At, TypeOK
  <2> QED
    BY <1>11, <2>1 DEF DeleteEvent, Locks, NoDoublePromotion, LocksHoldWaiters, At
<1>12. CASE UNCHANGED vars
  BY <1>0, <1>12, LocksKept DEF vars, At
<1> QED
  BY <1>2, <1>3, <1>4, <1>5, <1>6, <1>7, <1>8, <1>9, <1>10, <1>11, <1>12
     DEF Next, Request, Promote

-----------------------------------------------------------------------------
(* Decisions *)

LEMMA DecisionsStep == RsvpInv /\ [Next]_vars => DecisionsFit'
<1> SUFFICES ASSUME RsvpInv, [Next]_vars PROVE DecisionsFit'
  OBVIOUS
<1>0. TypeOK /\ DecisionsFit
  BY DEF RsvpInv
\* Only Count brings a request to the update of its row.
<1>1. ASSUME NEW p \in Processes, Count(p) PROVE DecisionsFit'
  <2> DEFINE d == Normalize(req[p].wanted, req[p].loaded, Cardinality(Going),
                            req[p].limit)
  <2>1. d = req[p].wanted \/ (req[p].wanted = "going" /\ d = "waitlist")
    BY DEF Normalize
  <2>2. req'[p].decided = d /\ req'[p].wanted = req[p].wanted
    BY <1>0, <1>1 DEF Count, TypeOK, RequestRecords
  <2>3. \A q \in Processes : q # p => req'[q] = req[q] /\ pc'[q] = pc[q]
    BY <1>0, <1>1 DEF Count, Goto, TypeOK
  <2> HIDE DEF d
  <2> QED
    BY <1>0, <2>1, <2>2, <2>3 DEF DecisionsFit, At
<1>2. ASSUME \A q \in Processes : At(q, "update")' => At(q, "update") /\ req'[q] = req[q]
      PROVE  DecisionsFit'
  BY <1>0, <1>2 DEF DecisionsFit, At
<1>3. ASSUME NEW p \in Processes, Leave(p) PROVE DecisionsFit'
  BY <1>0, <1>2, <1>3 DEF Leave, Goto, At, TypeOK
<1>4. ASSUME NEW p \in Processes, Begin(p) \/ LoadRow(p) \/ LockCandidate(p)
      PROVE  DecisionsFit'
  BY <1>0, <1>2, <1>4 DEF Begin, LoadRow, LockCandidate, Goto, At, TypeOK
<1>5. ASSUME NEW p \in Processes, ReadEvent(p) PROVE DecisionsFit'
  <2>1. CASE exists
    BY <1>0, <1>2, <1>5, <2>1 DEF ReadEvent, Goto, At, TypeOK
  <2>2. CASE ~exists
    BY <1>3, <1>5, <2>2 DEF ReadEvent, Reject
  <2> QED
    BY <2>1, <2>2
<1>6. ASSUME NEW p \in Processes, Check(p) PROVE DecisionsFit'
  <2>1. CASE status[req[p].member] # "none"
    BY <1>3, <1>6, <2>1 DEF Check, Reject
  <2>2. CASE status[req[p].member] = "none"
    BY <1>0, <1>2, <1>6, <2>2 DEF Check, Goto, At, TypeOK
  <2> QED
    BY <2>1, <2>2
<1>7. ASSUME NEW p \in Processes, Update(p) PROVE DecisionsFit'
  <2>1. CASE req[p].decided = "cancel"
    BY <1>0, <1>2, <1>7, <2>1 DEF Update, Goto, At, TypeOK
  <2>2. CASE req[p].decided # "cancel"
    BY <1>3, <1>7, <2>2 DEF Update
  <2> QED
    BY <2>1, <2>2
<1>8. ASSUME NEW p \in Processes,
             \/ Insert(p) \/ UpdateFails(p) \/ NobodyWaits(p) \/ CommitPromotion(p)
             \/ Abort(p)
      PROVE  DecisionsFit'
  BY <1>3, <1>8 DEF Insert, UpdateFails, NobodyWaits, CommitPromotion, Abort, Reject
<1>9. ASSUME UNCHANGED <<pc, req>> PROVE DecisionsFit'
  BY <1>2, <1>9 DEF At
<1> QED
  BY <1>1, <1>3, <1>4, <1>5, <1>6, <1>7, <1>8, <1>9
     DEF Next, Request, Promote, UpdateEvent, DeleteEvent, vars

-----------------------------------------------------------------------------
(* The theorems *)

LEMMA RsvpInvInit == Init => RsvpInv
BY TypeInit DEF RsvpInv, Init, NoDoublePromotion, LocksHoldWaiters, DecisionsFit, At

LEMMA RsvpInvStep == RsvpInv /\ [Next]_vars => RsvpInv'
BY TypeStep, LocksStep, DecisionsStep DEF RsvpInv, Locks

\* The inductive invariant: types, promotions that hold distinct waiting rows
\* until they commit, and requests that write what they asked for or less.
THEOREM RsvpInvariant == Spec => []RsvpInv
BY RsvpInvInit, RsvpInvStep, PTL DEF Spec

\* Every variable of the RSVP model keeps its type.
THEOREM RsvpTypeCorrect == Spec => []TypeOK
BY RsvpInvariant, PTL DEF RsvpInv

\* Two cancellations never promote the same member (SKIP LOCKED).
THEOREM NoDoublePromotionHolds == Spec => []NoDoublePromotion
BY RsvpInvariant, PTL DEF RsvpInv

\* While the event exists, a step that changes a member's row is a request for that
\* member, or promotes it.
LEMMA RowStep ==
    ASSUME RsvpInv, [Next]_vars, NEW m \in Members, status'[m] # status[m], exists'
    PROVE  \/ \E p \in Processes : (Insert(p) \/ Update(p)) /\ req[p].member = m
           \/ status[m] = "waitlist" /\ status'[m] = "going"
<1>0. TypeOK /\ LocksHoldWaiters
  BY DEF RsvpInv
<1>1. ASSUME NEW p \in Processes, Insert(p) \/ Update(p) PROVE req[p].member = m
  BY <1>0, <1>1 DEF Insert, Update, TypeOK
<1>2. ASSUME NEW p \in Processes, CommitPromotion(p)
      PROVE  status[m] = "waitlist" /\ status'[m] = "going"
  BY <1>0, <1>2 DEF CommitPromotion, LocksHoldWaiters, TypeOK
<1>3. ASSUME NEW p \in Processes,
             \/ Begin(p) \/ ReadEvent(p) \/ LoadRow(p) \/ Count(p) \/ Check(p)
             \/ UpdateFails(p) \/ LockCandidate(p) \/ NobodyWaits(p) \/ Abort(p)
      PROVE  FALSE
  BY <1>3 DEF Begin, ReadEvent, LoadRow, Count, Check, UpdateFails,
              LockCandidate, NobodyWaits, Abort, Reject, table
<1>4. \A c \in Capacities : ~UpdateEvent(c)
  BY DEF UpdateEvent
<1>5. ~DeleteEvent /\ ~UNCHANGED vars
  BY DEF DeleteEvent, vars
<1> QED
  BY <1>1, <1>2, <1>3, <1>4, <1>5 DEF Next, Request, Promote

\* While the event exists, others change a member's row only from waitlist to
\* going, however many requests and promotions run at once.
THEOREM OthersOnlyPromoteHolds == Spec => OthersOnlyPromote
<1> DEFINE Allowed ==
      \A m \in Members :
          status'[m] # status[m] /\ exists'
          => \/ \E p \in Processes : (Insert(p) \/ Update(p)) /\ req[p].member = m
             \/ status[m] = "waitlist" /\ status'[m] = "going"
<1>1. RsvpInv /\ [Next]_vars => [Allowed]_vars
  BY RowStep
<1>2. [][Allowed]_vars <=> OthersOnlyPromote
  BY PTL DEF OthersOnlyPromote
<1> QED
  BY <1>1, <1>2, RsvpInvariant, PTL DEF Spec

\* A promotion that commits while the member asks for a seat again is kept.
THEOREM PromotionSurvivesRequestHolds == Spec => PromotionSurvivesRequest
<1> DEFINE Kept ==
      \A p \in Processes :
          LET r == req[p] IN
          /\ Update(p) /\ r.wanted = "going" /\ r.loaded = "waitlist"
          /\ status[r.member] = "going"
          => status'[r.member] = "going"
<1>1. ASSUME RsvpInv, [Next]_vars PROVE [Kept]_vars
  <2> SUFFICES ASSUME NEW p \in Processes, Update(p), req[p].wanted = "going",
                      req[p].loaded = "waitlist", status[req[p].member] = "going"
               PROVE  status'[req[p].member] = "going"
    OBVIOUS
  <2>1. req[p].decided \in {"going", "waitlist"}
    BY <1>1 DEF RsvpInv, DecisionsFit, Update
  <2>2. CASE req[p].decided = "waitlist"
    BY <2>2 DEF Update, Writes
  <2>3. CASE req[p].decided = "going"
    BY <1>1, <2>3 DEF Update, Writes, RsvpInv, TypeOK
  <2> QED
    BY <2>1, <2>2, <2>3
<1>2. [][Kept]_vars <=> PromotionSurvivesRequest
  BY PTL DEF PromotionSurvivesRequest
<1> QED
  BY <1>1, <1>2, RsvpInvariant, PTL DEF Spec

-----------------------------------------------------------------------------
(* One request at a time *)

\* The rows went with their event.
DeletedIsEmpty == ~exists => \A m \in Members : status[m] = "none"

\* What the only request under way has read is still so, and it decides by what is so.
ReadsFresh ==
    \A p \in Processes :
        LET r == req[p] IN
        /\ pc[p] # "idle" => r.wanted \in Requests
        /\ pc[p] \in {"event", "load", "check", "insert"} => r.loaded = "none"
        /\ exists =>
             /\ pc[p] = "count" => r.loaded \in {"none", status[r.member]}
             /\ pc[p] = "insert" => status[r.member] = "none"
             /\ pc[p] = "update" => r.loaded = status[r.member]
             /\ pc[p] \in {"check", "insert", "update"} =>
                  r.decided = Normalize(r.wanted, r.loaded, Cardinality(Going), r.limit)

\* The request goes by the limit it has read.
UsesLimit(p) == pc[p] \in {"load", "count", "check", "insert", "update"}

\* The limit a request goes by is at most, or at least, the capacity as it is now.
LimitsLow  == \A p \in Processes : UsesLimit(p) => req[p].limit <= capacity
LimitsHigh == \A p \in Processes : UsesLimit(p) => req[p].limit >= capacity

TurnInv == RsvpInv /\ capacity \in Capacities /\ DeletedIsEmpty /\ ReadsFresh

\* Requests are served by one process; nor is the capacity changed.
OneByOne == \E p : Processes = {p}
InTurn   == OneByOne /\ \E c : Capacities = {c}

LEMMA TurnInit == ASSUME Init PROVE TurnInv
BY RsvpInvInit DEF TurnInv, Init, DeletedIsEmpty, ReadsFresh

\* A deleted event has no rows to write.
LEMMA DeletedStep == ASSUME TurnInv, [Next]_vars PROVE DeletedIsEmpty'
<1>0. TypeOK /\ LocksHoldWaiters /\ DeletedIsEmpty
  BY DEF TurnInv, RsvpInv
<1>1. ASSUME NEW p \in Processes, Insert(p) \/ Update(p) PROVE DeletedIsEmpty'
  BY <1>0, <1>1 DEF Insert, Update, At, DeletedIsEmpty, TypeOK
<1>2. ASSUME NEW p \in Processes, CommitPromotion(p) PROVE DeletedIsEmpty'
  BY <1>0, <1>2 DEF CommitPromotion, At, LocksHoldWaiters, DeletedIsEmpty, TypeOK
<1>3. ASSUME UNCHANGED <<exists, status>> PROVE DeletedIsEmpty'
  BY <1>0, <1>3 DEF DeletedIsEmpty
<1>4. ASSUME NEW p \in Processes,
             \/ Begin(p) \/ ReadEvent(p) \/ LoadRow(p) \/ Count(p) \/ Check(p)
             \/ UpdateFails(p) \/ LockCandidate(p) \/ NobodyWaits(p) \/ Abort(p)
      PROVE  DeletedIsEmpty'
  BY <1>3, <1>4 DEF Begin, ReadEvent, LoadRow, Count, Check, UpdateFails,
                    LockCandidate, NobodyWaits, Abort, Reject, table
<1>5. CASE DeleteEvent
  BY <1>5 DEF DeleteEvent, DeletedIsEmpty
<1> QED
  BY <1>1, <1>2, <1>3, <1>4, <1>5 DEF Next, Request, Promote, UpdateEvent, vars

\* Nobody else writes between the steps of the only request.
LEMMA FreshStep == ASSUME OneByOne, TurnInv, [Next]_vars PROVE ReadsFresh'
<1>0. TypeOK /\ ReadsFresh /\ DeletedIsEmpty
  BY DEF TurnInv, RsvpInv
<1>p. PICK p : Processes = {p}
  BY DEF OneByOne
<1> p \in Processes
  BY <1>p
<1>1. ASSUME Leave(p) PROVE ReadsFresh'
  BY <1>0, <1>p, <1>1 DEF Leave, Goto, ReadsFresh, TypeOK
<1>2. CASE Begin(p)
  BY <1>0, <1>p, <1>2 DEF Begin, Goto, ReadsFresh, TypeOK
<1>3. CASE ReadEvent(p) /\ exists
  <2>1. /\ pc'[p] \in {"load", "count"} /\ req'[p] = [req[p] EXCEPT !.limit = capacity]
        /\ req'[p].loaded = "none" /\ req'[p].wanted = req[p].wanted
    BY <1>0, <1>3 DEF ReadEvent, At, Goto, ReadsFresh, TypeOK, RequestRecords, table
  <2> QED
    BY <1>0, <1>p, <1>3, <2>1 DEF ReadEvent, At, ReadsFresh
<1>4. CASE LoadRow(p)
  <2>1. /\ pc[p] = "load" /\ pc'[p] = "count" /\ req'[p].loaded = status[req'[p].member]
        /\ req'[p].wanted = req[p].wanted /\ UNCHANGED table
    BY <1>0, <1>4 DEF LoadRow, At, Goto, TypeOK, RequestRecords
  <2> QED
    BY <1>0, <1>p, <2>1 DEF ReadsFresh, table
<1>5. CASE Count(p)
  <2>1. /\ pc[p] = "count" /\ pc'[p] = IF req[p].loaded = "none" THEN "check" ELSE "update"
        /\ req'[p].limit = req[p].limit /\ req'[p].wanted = req[p].wanted
        /\ req'[p].loaded = req[p].loaded /\ req'[p].member = req[p].member
        /\ req'[p].decided = Normalize(req[p].wanted, req[p].loaded, Cardinality(Going), req[p].limit)
        /\ UNCHANGED table /\ Going' = Going
    BY <1>0, <1>5 DEF Count, At, Goto, TypeOK, RequestRecords, Going, table
  <2> QED
    BY <1>0, <1>p, <2>1 DEF ReadsFresh, table, Normalize
<1>6. CASE Check(p) /\ status[req[p].member] = "none"
  <2>1. pc[p] = "check" /\ pc'[p] = "insert" /\ req' = req /\ UNCHANGED table /\ Going' = Going
    BY <1>0, <1>6 DEF Check, At, Goto, TypeOK, Going, table
  <2> QED
    BY <1>0, <1>p, <1>6, <2>1 DEF ReadsFresh, table, Normalize
<1>7. CASE (Update(p) /\ req[p].decided = "cancel") \/ LockCandidate(p)
  <2>1. pc[p] # "idle" /\ pc'[p] \in {"promote", "commit"} /\ req' = req
    BY <1>0, <1>7 DEF Update, LockCandidate, At, Goto, TypeOK
  <2> QED
    BY <1>0, <1>p, <2>1 DEF ReadsFresh
<1>8. CASE DeleteEvent
  BY <1>0, <1>8 DEF DeleteEvent, ReadsFresh
<1>9. CASE \E c \in Capacities : UpdateEvent(c)
  BY <1>0, <1>9 DEF UpdateEvent, ReadsFresh, Going, Normalize
<1>10. CASE UNCHANGED vars
  BY <1>0, <1>10 DEF vars, ReadsFresh, Going, Normalize
<1> QED
  BY <1>p, <1>1, <1>2, <1>3, <1>4, <1>5, <1>6, <1>7, <1>8, <1>9, <1>10
     DEF Next, Request, Promote, ReadEvent, Check, Insert, Update, UpdateFails, NobodyWaits,
         CommitPromotion, Abort, Reject

LEMMA TurnStep == ASSUME OneByOne, TurnInv, [Next]_vars PROVE TurnInv'
<1>1. (capacity \in Capacities)'
  BY DEF TurnInv, Next, Request, Promote, Begin, ReadEvent, LoadRow, Count, Check, Insert, Update,
         UpdateFails, LockCandidate, NobodyWaits, CommitPromotion, Abort, UpdateEvent, DeleteEvent,
         Reject, table, vars
<1> QED
  BY <1>1, RsvpInvStep, DeletedStep, FreshStep DEF TurnInv

\* The attendees after one row is written.
LEMMA GoingWritten ==
    ASSUME IsFiniteSet(Members), TypeOK, NEW m \in Members, NEW d, status' = [status EXCEPT ![m] = d]
    PROVE  /\ Cardinality(Going) \in Nat
           /\ status[m] = "going" => Cardinality(Going) > 0
           /\ Cardinality(Going') =
                  IF d = "going" THEN IF status[m] = "going" THEN Cardinality(Going)
                                                             ELSE Cardinality(Going) + 1
                                 ELSE IF status[m] = "going" THEN Cardinality(Going) - 1
                                                             ELSE Cardinality(Going)
<1>1. IsFiniteSet(Going) /\ Cardinality(Going) \in Nat
  BY FS_Subset, FS_CardinalityType DEF Going
<1>2. status[m] = "going" => Cardinality(Going) > 0
  <2>1. status[m] = "going" => m \in Going
    BY DEF Going
  <2> QED
    BY <1>1, <2>1, FS_EmptySet
<1>3. Going' = IF d = "going" THEN Going \cup {m} ELSE Going \ {m}
  BY DEF Going, TypeOK
<1>4. m \in Going <=> status[m] = "going"
  BY DEF Going
<1> QED
  BY <1>1, <1>2, <1>3, <1>4, FS_AddElement, FS_RemoveElement

\* What the only request writes, and what it goes by.
LEMMA WriteFacts ==
    ASSUME TurnInv, NEW p \in Processes, Insert(p) \/ Update(p), status' # status
    PROVE  LET m == req[p].member
               d == req[p].decided
               others == IF status[m] = "going" THEN Cardinality(Going) - 1 ELSE Cardinality(Going)
           IN  /\ m \in Members /\ status' = [status EXCEPT ![m] = d]
               /\ req[p].wanted \in Requests
               /\ req[p].loaded = status[m]
               /\ d = Normalize(req[p].wanted, status[m], Cardinality(Going), req[p].limit)
               /\ UsesLimit(p)
<1>0. TypeOK /\ ReadsFresh /\ DeletedIsEmpty /\ pc[p] \in {"insert", "update"}
  BY DEF TurnInv, RsvpInv, Insert, Update, At
<1>1. req[p].member \in Members
  BY <1>0 DEF TypeOK
<1>2. /\ exists /\ status' = [status EXCEPT ![req[p].member] = req[p].decided]
      /\ pc[p] = "insert" => status[req[p].member] = "none"
  BY <1>0, <1>1 DEF Insert, Update, DeletedIsEmpty, At
<1> QED
  BY <1>0, <1>1, <1>2 DEF ReadsFresh, UsesLimit

\* Seats that the only process is about to pass on.
InHand(p) == pc[p] \in {"promote", "commit"}

LEMMA SeatsCounted ==
    ASSUME NEW p, Processes = {p}
    PROVE  /\ SeatsTaken = Cardinality(Going) + (IF InHand(p) /\ req[p].loaded = "going" THEN 1 ELSE 0)
           /\ SeatWasted <=>
                /\ Cardinality(Going) + (IF InHand(p) THEN 1 ELSE 0) < capacity
                /\ \E m \in Members : status[m] = "waitlist"
<1>1. {q \in Processes : pc[q] \in {"promote", "commit"} /\ req[q].loaded = "going"}
          = IF InHand(p) /\ req[p].loaded = "going" THEN {p} ELSE {}
  BY DEF InHand
<1>2. Promoting = IF InHand(p) THEN {p} ELSE {}
  BY DEF InHand, Promoting
<1>3. Cardinality({p}) = 1 /\ Cardinality({}) = 0
  BY FS_Singleton, FS_EmptySet
<1> QED
  BY <1>1, <1>2, <1>3 DEF SeatsTaken, SeatWasted

LEMMA SeatsCountedNext ==
    ASSUME NEW p, Processes = {p}
    PROVE  /\ SeatsTaken' = Cardinality(Going') + (IF InHand(p)' /\ req'[p].loaded = "going" THEN 1 ELSE 0)
           /\ SeatWasted' <=>
                /\ Cardinality(Going') + (IF InHand(p)' THEN 1 ELSE 0) < capacity'
                /\ \E m \in Members : status'[m] = "waitlist"
<1>1. {q \in Processes : pc'[q] \in {"promote", "commit"} /\ req'[q].loaded = "going"}
          = IF InHand(p)' /\ req'[p].loaded = "going" THEN {p} ELSE {}
  BY DEF InHand
<1>2. Promoting' = IF InHand(p)' THEN {p} ELSE {}
  BY DEF InHand, Promoting
<1>3. Cardinality({p}) = 1 /\ Cardinality({}) = 0
  BY FS_Singleton, FS_EmptySet
<1> QED
  BY <1>1, <1>2, <1>3 DEF SeatsTaken, SeatWasted

\* The steps of the only process as they show in the seats: none changes, or a row does.
LEMMA SeatSteps ==
    ASSUME TurnInv, [Next]_vars, NEW p, Processes = {p}
    PROVE  \/ /\ status' = status /\ ~InHand(p)'
              /\ InHand(p) => Abort(p) \/ \A m \in Members : status[m] # "waitlist"
           \/ /\ status' = status /\ InHand(p)' /\ req'[p] = req[p]
              /\ InHand(p) \/ req[p].loaded # "going"
           \/ /\ Insert(p) \/ Update(p)
              /\ status' # status /\ ~InHand(p)
              /\ InHand(p)' <=> req[p].decided = "cancel" /\ At(p, "update")
              /\ InHand(p)' => req'[p] = req[p]
           \/ CommitPromotion(p)
           \/ (\A m \in Members : status'[m] = "none") /\ UNCHANGED <<pc, req>>
<1>0. TypeOK /\ ReadsFresh /\ DeletedIsEmpty /\ p \in Processes
  BY DEF TurnInv, RsvpInv
<1>1. ASSUME Leave(p) PROVE ~InHand(p)'
  BY <1>0, <1>1 DEF Leave, Goto, TypeOK, InHand
<1>2. CASE Begin(p) \/ ReadEvent(p) \/ LoadRow(p) \/ Count(p) \/ Check(p) \/ UpdateFails(p)
  <2>1. status' = status /\ ~InHand(p)
    BY <1>2 DEF Begin, ReadEvent, LoadRow, Count, Check, UpdateFails, Reject, table, At, InHand
  <2>2. ~InHand(p)'
    BY <1>0, <1>1, <1>2 DEF Begin, ReadEvent, LoadRow, Count, Check, UpdateFails, Reject, Goto, TypeOK, InHand
  <2> QED
    BY <2>1, <2>2
<1>3. CASE Insert(p)
  <2>1. ~InHand(p) /\ ~InHand(p)' /\ ~At(p, "update")
    BY <1>1, <1>3 DEF Insert, At, InHand
  <2> QED
    BY <1>3, <2>1
<1>4. CASE Update(p)
  <2>1. ~InHand(p) /\ At(p, "update")
    BY <1>4 DEF Update, At, InHand
  <2>2. CASE req[p].decided = "cancel"
    <3>1. InHand(p)' /\ req'[p] = req[p]
      BY <1>0, <1>4, <2>2 DEF Update, Goto, TypeOK, InHand
    <3>2. status' = status => req[p].loaded # "going"
      <4> SUFFICES ASSUME status' = status, req[p].loaded = "going" PROVE FALSE
        OBVIOUS
      <4>1. req[p].member \in Members /\ status[req[p].member] # "none" /\ exists
        BY <1>0, <1>4 DEF Update, At, TypeOK, DeletedIsEmpty
      <4>2. status[req[p].member] = "going"
        BY <1>0, <1>4, <4>1 DEF Update, At, ReadsFresh
      <4>3. status'[req[p].member] = "cancel"
        BY <1>0, <1>4, <2>2, <4>1 DEF Update, Writes, TypeOK
      <4> QED
        BY <4>2, <4>3
    <3> QED
      BY <1>4, <2>1, <2>2, <3>1, <3>2
  <2>3. CASE req[p].decided # "cancel"
    <3>1. ~InHand(p)'
      BY <1>1, <1>4, <2>3 DEF Update
    <3> QED
      BY <1>4, <2>1, <2>3, <3>1
  <2> QED
    BY <2>2, <2>3
<1>5. CASE LockCandidate(p)
  BY <1>0, <1>5 DEF LockCandidate, At, Goto, table, TypeOK, InHand
<1>6. CASE NobodyWaits(p)
  <2>1. \A m \in Members : status[m] # "waitlist"
    BY <1>6 DEF NobodyWaits, Waiting, Locked, At
  <2> QED
    BY <1>1, <1>6, <2>1 DEF NobodyWaits, Reject, table
<1>7. CASE Abort(p)
  BY <1>1, <1>7 DEF Abort, Reject, table
<1>8. CASE DeleteEvent
  BY <1>8 DEF DeleteEvent
<1>9. CASE \E c \in Capacities : UpdateEvent(c)
  BY <1>9 DEF UpdateEvent, InHand
<1>10. CASE UNCHANGED vars
  BY <1>10 DEF vars, InHand
<1> QED
  BY <1>2, <1>3, <1>4, <1>5, <1>6, <1>7, <1>8, <1>9, <1>10 DEF Next, Request, Promote

\* The seats taken grow beyond the capacity only by a promotion that no attendee made way for.
LEMMA AccountedStep ==
    ASSUME IsFiniteSet(Members), OneByOne, TurnInv, LimitsLow, [Next]_vars,
           SeatsTaken' > SeatsTaken, SeatsTaken' > capacity
    PROVE  \E p \in Processes : CommitPromotion(p) /\ req[p].loaded # "going"
<1>0. TypeOK /\ LocksHoldWaiters /\ capacity \in Nat
  BY DEF TurnInv, RsvpInv, TypeOK
<1>p. PICK p : Processes = {p}
  BY DEF OneByOne
<1>1. PICK g \in Nat, g2 \in Nat : g = Cardinality(Going) /\ g2 = Cardinality(Going')
  BY FS_Subset, FS_CardinalityType DEF Going
<1>2. PICK h \in {0, 1}, h2 \in {0, 1} :
          /\ h = IF InHand(p) /\ req[p].loaded = "going" THEN 1 ELSE 0
          /\ h2 = IF InHand(p)' /\ req'[p].loaded = "going" THEN 1 ELSE 0
  OBVIOUS
<1>3. g2 + h2 > g + h /\ g2 + h2 > capacity
  BY <1>p, <1>1, <1>2, SeatsCounted, SeatsCountedNext
<1>4. status' = status => g2 = g
  BY <1>1 DEF Going
<1>5. CASE /\ status' = status /\ ~InHand(p)'
  BY <1>2, <1>3, <1>4, <1>5
<1>6. CASE /\ status' = status /\ InHand(p)' /\ req'[p] = req[p]
           /\ InHand(p) \/ req[p].loaded # "going"
  BY <1>2, <1>3, <1>4, <1>6
<1>7. CASE /\ Insert(p) \/ Update(p)
           /\ status' # status /\ ~InHand(p)
           /\ InHand(p)' <=> req[p].decided = "cancel" /\ At(p, "update")
           /\ InHand(p)' => req'[p] = req[p]
  <2>0. PICK m \in Members : m = req[p].member
    BY <1>p, <1>7, WriteFacts
  <2>1. PICK d : m = req[p].member /\ d = req[p].decided
    BY <2>0
  <2>2. /\ status' = [status EXCEPT ![m] = d] /\ req[p].loaded = status[m]
        /\ d = Normalize(req[p].wanted, status[m], g, req[p].limit)
        /\ req[p].limit <= capacity /\ req[p].limit \in Nat
    BY <1>0, <1>p, <1>1, <1>7, <2>1, WriteFacts DEF LimitsLow, TypeOK, RequestRecords
  <2>3. /\ status[m] = "going" => g > 0
        /\ g2 = IF d = "going" THEN IF status[m] = "going" THEN g ELSE g + 1
                               ELSE IF status[m] = "going" THEN g - 1 ELSE g
    BY <1>0, <1>1, <2>2, GoingWritten
  <2>4. CASE d = "going"
    <3>1. req[p].wanted = "going" /\ (IF status[m] = "going" THEN g - 1 ELSE g) < capacity
      BY <1>0, <2>2, <2>3, <2>4 DEF Normalize
    <3>2. h2 = 0
      BY <1>2, <1>7, <2>1, <2>4
    <3> QED
      BY <1>0, <1>3, <2>3, <2>4, <3>1, <3>2
  <2>5. CASE d # "going" /\ h2 = 0
    BY <1>2, <1>3, <2>3, <2>5
  <2>6. CASE d # "going" /\ h2 = 1
    <3>1. status[m] = "going"
      BY <1>2, <1>7, <2>2, <2>6
    <3> QED
      BY <1>2, <1>3, <2>3, <2>6, <3>1
  <2> QED
    BY <2>4, <2>5, <2>6
<1>8. CASE CommitPromotion(p) /\ req[p].loaded = "going"
  <2>1. /\ candidate[p] \in Members /\ status[candidate[p]] = "waitlist" /\ pc[p] = "commit"
        /\ status' = [status EXCEPT ![candidate[p]] = "going"] /\ pc'[p] = "idle"
    BY <1>0, <1>p, <1>8 DEF CommitPromotion, At, TypeOK, LocksHoldWaiters, Leave, Goto
  <2>2. g2 = g + 1
    BY <1>0, <1>1, <2>1, GoingWritten
  <2>3. h = 1 /\ h2 = 0
    BY <1>2, <1>8, <2>1 DEF InHand
  <2> QED
    BY <1>3, <2>2, <2>3
<1>9. CASE (\A m \in Members : status'[m] = "none") /\ UNCHANGED <<pc, req>>
  <2>1. Going' = {}
    BY <1>9 DEF Going
  <2>2. g2 = 0 /\ h2 = h
    BY <1>1, <1>2, <1>9, <2>1, FS_EmptySet DEF InHand
  <2> QED
    BY <1>3, <2>2
<1> QED
  BY <1>p, <1>5, <1>6, <1>7, <1>8, <1>9, SeatSteps

\* A seat is left empty beside a waitlist only by a request that breaks off.
LEMMA WastedStep ==
    ASSUME IsFiniteSet(Members), OneByOne, "waitlist" \notin Requests, TurnInv, LimitsHigh,
           [Next]_vars, capacity' <= capacity, ~SeatWasted, SeatWasted'
    PROVE  \E p \in Processes : Abort(p)
<1>0. /\ TypeOK /\ LocksHoldWaiters
      /\ capacity \in Nat /\ capacity' \in Nat /\ capacity' <= capacity
  BY TurnStep DEF TurnInv, RsvpInv, TypeOK
<1>p. PICK p : Processes = {p}
  BY DEF OneByOne
<1>1. PICK g \in Nat, g2 \in Nat : g = Cardinality(Going) /\ g2 = Cardinality(Going')
  BY FS_Subset, FS_CardinalityType DEF Going
<1>2. PICK h \in {0, 1}, h2 \in {0, 1} : h = (IF InHand(p) THEN 1 ELSE 0) /\ h2 = (IF InHand(p)' THEN 1 ELSE 0)
  OBVIOUS
<1>3. /\ g2 + h2 < capacity /\ \E m \in Members : status'[m] = "waitlist"
      /\ g + h < capacity => \A m \in Members : status[m] # "waitlist"
  BY <1>0, <1>p, <1>1, <1>2, SeatsCounted, SeatsCountedNext
<1>4. status' = status => g2 = g
  BY <1>1 DEF Going
<1>5. CASE /\ status' = status /\ ~InHand(p)'
           /\ InHand(p) => Abort(p) \/ \A m \in Members : status[m] # "waitlist"
  BY <1>p, <1>0, <1>2, <1>3, <1>4, <1>5
<1>6. CASE status' = status /\ InHand(p)'
  BY <1>0, <1>2, <1>3, <1>4, <1>6
<1>7. CASE /\ Insert(p) \/ Update(p)
           /\ status' # status /\ ~InHand(p)
           /\ InHand(p)' <=> req[p].decided = "cancel" /\ At(p, "update")
  <2>0. PICK m \in Members : m = req[p].member
    BY <1>p, <1>7, WriteFacts
  <2>1. PICK d : m = req[p].member /\ d = req[p].decided
    BY <2>0
  <2>2. /\ status' = [status EXCEPT ![m] = d] /\ req[p].loaded = status[m] /\ req[p].wanted # "waitlist"
        /\ d = Normalize(req[p].wanted, status[m], g, req[p].limit)
        /\ req[p].limit >= capacity /\ req[p].limit \in Nat
    BY <1>0, <1>p, <1>1, <1>7, <2>1, WriteFacts DEF LimitsHigh, TypeOK, RequestRecords
  <2>3. /\ status[m] = "going" => g > 0
        /\ g2 = IF d = "going" THEN IF status[m] = "going" THEN g ELSE g + 1
                               ELSE IF status[m] = "going" THEN g - 1 ELSE g
    BY <1>0, <1>1, <2>2, GoingWritten
  <2>4. CASE d = "waitlist"
    <3>1. (IF status[m] = "going" THEN g - 1 ELSE g) >= capacity
      BY <1>0, <2>2, <2>3, <2>4 DEF Normalize
    <3> QED
      BY <1>0, <1>2, <1>3, <2>3, <2>4, <3>1
  <2>5. d # "waitlist" => \E o \in Members : status[o] = "waitlist"
    BY <1>0, <1>3, <2>2 DEF TypeOK
  <2>6. CASE d = "going"
    BY <1>0, <1>2, <1>3, <1>7, <2>3, <2>5, <2>6
  <2>7. CASE d \notin {"going", "waitlist"} /\ h2 = 1
    BY <1>0, <1>2, <1>3, <1>7, <2>3, <2>5, <2>7
  <2>8. CASE d \notin {"going", "waitlist"} /\ h2 = 0
    <3>1. d = "cancel"
      BY <1>p, <1>7, <2>1, <2>2, <2>8, WriteFacts, RsvpAssumption DEF Normalize
    <3>2. status[m] = "none"
      BY <1>0, <1>2, <1>7, <2>1, <2>8, <3>1 DEF Insert, Update, At
    <3> QED
      BY <1>0, <1>2, <1>3, <1>7, <2>3, <2>5, <2>8, <3>2
  <2> QED
    BY <2>4, <2>6, <2>7, <2>8
<1>8. CASE CommitPromotion(p)
  <2>1. /\ candidate[p] \in Members /\ status[candidate[p]] = "waitlist" /\ pc[p] = "commit"
        /\ status' = [status EXCEPT ![candidate[p]] = "going"] /\ pc'[p] = "idle"
    BY <1>0, <1>p, <1>8 DEF CommitPromotion, At, TypeOK, LocksHoldWaiters, Leave, Goto
  <2>2. g2 = g + 1
    BY <1>0, <1>1, <2>1, GoingWritten
  <2>3. h = 1 /\ h2 = 0
    BY <1>2, <2>1 DEF InHand
  <2> QED
    BY <1>0, <1>3, <2>1, <2>2, <2>3
<1>9. CASE \A m \in Members : status'[m] = "none"
  BY <1>3, <1>9
<1> QED
  BY <1>p, <1>5, <1>6, <1>7, <1>8, <1>9, SeatSteps

\* A request goes by the limit it has read, or has just read the capacity.
LEMMA LimitKept ==
    ASSUME TypeOK, [Next]_vars, NEW p \in Processes, UsesLimit(p)'
    PROVE  \/ req'[p].limit = capacity /\ capacity' = capacity
           \/ UsesLimit(p) /\ req'[p].limit = req[p].limit
<1>1. ASSUME NEW q \in Processes, Leave(q)
      PROVE  UsesLimit(p) /\ req'[p].limit = req[p].limit
  BY <1>1 DEF Leave, Goto, UsesLimit, TypeOK
<1>2. ASSUME NEW q \in Processes, ReadEvent(q), exists
      PROVE  \/ req'[p].limit = capacity /\ capacity' = capacity
             \/ UsesLimit(p) /\ req'[p].limit = req[p].limit
  BY <1>2 DEF ReadEvent, Goto, UsesLimit, TypeOK, RequestRecords, table
<1>3. ASSUME NEW q \in Processes, Begin(q) \/ LoadRow(q) \/ Count(q)
      PROVE  UsesLimit(p) /\ req'[p].limit = req[p].limit
  BY <1>3 DEF Begin, LoadRow, Count, At, Goto, UsesLimit, TypeOK, RequestRecords
<1>4. ASSUME NEW q \in Processes,
             \/ Check(q) /\ status[req[q].member] = "none"
             \/ Update(q) /\ req[q].decided = "cancel"
             \/ LockCandidate(q)
      PROVE  UsesLimit(p) /\ req'[p].limit = req[p].limit
  BY <1>4 DEF Check, Update, LockCandidate, At, Goto, UsesLimit, TypeOK
<1>5. CASE UNCHANGED <<pc, req>>
  BY <1>5 DEF UsesLimit
<1> QED
  BY <1>1, <1>2, <1>3, <1>4, <1>5
     DEF Next, Request, Promote, ReadEvent, Check, Insert, Update, UpdateFails, NobodyWaits,
         CommitPromotion, Abort, Reject, UpdateEvent, DeleteEvent, vars

\* While the capacity is only raised, no request goes by more than there is; while it is
\* only lowered, none goes by less.
LEMMA LimitsStep ==
    ASSUME TypeOK, TypeOK', [Next]_vars
    PROVE  /\ LimitsLow /\ capacity' >= capacity => LimitsLow'
           /\ LimitsHigh /\ capacity' <= capacity => LimitsHigh'
<1>1. \A p \in Processes : req[p].limit \in Nat
  BY DEF TypeOK, RequestRecords
<1>2. capacity \in Nat /\ capacity' \in Nat
  BY DEF TypeOK
<1> QED
  BY <1>1, <1>2, LimitKept DEF LimitsLow, LimitsHigh

LEMMA LimitsInit == Init => LimitsLow /\ LimitsHigh
BY DEF Init, LimitsLow, LimitsHigh, UsesLimit

\* The only request under way goes by rows and a count that are still so
\* (upsert_rsvp_status, create_rsvp).
THEOREM TurnInvariant == ASSUME OneByOne PROVE Spec => []TurnInv
BY TurnInit, TurnStep, PTL DEF Spec

\* With one request at a time and a capacity that is only raised, at any moment, only a
\* promotion that follows a cancellation which freed no seat takes more seats than there
\* are (normalize_rsvp_status_for_capacity, _promote_waitlist_candidate, update_event).
THEOREM RaisedNeverOverbooks ==
    ASSUME IsFiniteSet(Members), OneByOne
    PROVE  Spec /\ [][capacity' >= capacity]_vars => SeatsAreAccounted
<1> DEFINE Accounted == SeatsTaken' > SeatsTaken /\ SeatsTaken' > capacity
                        => \E p \in Processes : CommitPromotion(p) /\ req[p].loaded # "going"
           Raised == capacity' >= capacity
<1>1. TurnInv /\ LimitsLow /\ [Next]_vars => [Accounted]_vars
  BY AccountedStep
<1>2. TurnInv /\ TurnInv' /\ LimitsLow /\ [Next]_vars /\ [Raised]_vars => LimitsLow'
  BY LimitsStep DEF TurnInv, RsvpInv, vars, LimitsLow, UsesLimit
<1>3. Spec /\ [][Raised]_vars => []LimitsLow
  BY <1>2, LimitsInit, TurnInvariant, PTL DEF Spec
<1>4. [][Accounted]_vars <=> SeatsAreAccounted
  BY PTL DEF SeatsAreAccounted
<1> QED
  BY <1>1, <1>3, <1>4, TurnInvariant, PTL DEF Spec

\* With one request at a time, a capacity that is only lowered and nobody asking for the
\* waitlist, only a request that breaks off between its two commits leaves a seat empty
\* while members wait (upsert_rsvp_status, _promote_waitlist_candidate, update_event).
THEOREM LoweredNeverWastes ==
    ASSUME IsFiniteSet(Members), OneByOne, "waitlist" \notin Requests
    PROVE  Spec /\ [][capacity' <= capacity]_vars => OnlyAbortWastesASeat
<1> DEFINE Broken == ~SeatWasted /\ SeatWasted' => \E p \in Processes : Abort(p)
           Lowered == capacity' <= capacity
<1>1. ASSUME TurnInv, LimitsHigh, [Next]_vars, [Lowered]_vars PROVE [Broken]_vars
  <2>1. CASE capacity' <= capacity
    BY <1>1, <2>1, WastedStep
  <2> QED
    BY <1>1, <2>1
<1>2. TurnInv /\ TurnInv' /\ LimitsHigh /\ [Next]_vars /\ [Lowered]_vars => LimitsHigh'
  BY LimitsStep DEF TurnInv, RsvpInv, vars, LimitsHigh, UsesLimit
<1>3. Spec /\ [][Lowered]_vars => []LimitsHigh
  BY <1>2, LimitsInit, TurnInvariant, PTL DEF Spec
<1>4. [][Broken]_vars <=> OnlyAbortWastesASeat
  BY PTL DEF OnlyAbortWastesASeat
<1> QED
  BY <1>1, <1>3, <1>4, TurnInvariant, PTL DEF Spec

LEMMA SeatsInts ==
    ASSUME IsFiniteSet(Members), OneByOne
    PROVE  /\ SeatsTaken \in Nat /\ Cardinality(Going) \in Nat /\ Cardinality(Going) <= SeatsTaken
           /\ SeatsTaken' \in Nat
<1>p. PICK p : Processes = {p}
  BY DEF OneByOne
<1>1. Cardinality(Going) \in Nat /\ Cardinality(Going') \in Nat
  BY FS_Subset, FS_CardinalityType DEF Going
<1>2. PICK h \in {0, 1}, h2 \in {0, 1} :
          /\ h = IF InHand(p) /\ req[p].loaded = "going" THEN 1 ELSE 0
          /\ h2 = IF InHand(p)' /\ req'[p].loaded = "going" THEN 1 ELSE 0
  OBVIOUS
<1>3. SeatsTaken = Cardinality(Going) + h /\ SeatsTaken' = Cardinality(Going') + h2
  BY <1>p, <1>2, SeatsCounted, SeatsCountedNext
<1> QED
  BY <1>1, <1>3

\* With one request at a time, a capacity that is only raised and no promotion without a
\* seat, there is a seat for every attendee: of the two documents quoted under
\* GoingWithinCapacity and PromotionsHaveASeat the second is all that the first lacks
\* (normalize_rsvp_status_for_capacity, upsert_rsvp_status).
THEOREM OneByOneWithinCapacity ==
    ASSUME IsFiniteSet(Members), OneByOne
    PROVE  Spec /\ [][capacity' >= capacity]_vars /\ PromotionsHaveASeat => []GoingWithinCapacity
<1> DEFINE Seated == \A p \in Processes :
               CommitPromotion(p) => req[p].loaded = "going" \/ Cardinality(Going) < capacity
           Raised == capacity' >= capacity
           Fits == SeatsTaken <= capacity
           SeatsInv == TurnInv /\ LimitsLow /\ Fits
<1>1. ASSUME SeatsInv, [Next]_vars, [Raised]_vars, [Seated]_vars, TurnInv' PROVE SeatsInv'
  <2>1. CASE UNCHANGED vars
    BY <1>1, <2>1 DEF vars, SeatsTaken, Going, LimitsLow, UsesLimit
  <2>2. CASE Raised /\ Seated
    <3>1. capacity \in Nat /\ capacity' \in Nat /\ SeatsTaken \in Nat /\ SeatsTaken' \in Nat
      BY <1>1, SeatsInts DEF TurnInv, RsvpInv, TypeOK
    <3>2. ~(SeatsTaken' > SeatsTaken /\ SeatsTaken' > capacity) => Fits'
      BY <1>1, <2>2, <3>1
    \* A promotion that no attendee made way for has found a free seat.
    <3>3. ASSUME NEW p \in Processes, CommitPromotion(p), req[p].loaded # "going" PROVE Fits'
      <4>1. Processes = {p} /\ Cardinality(Going) < capacity
        BY <2>2, <3>3 DEF OneByOne
      <4>2. /\ candidate[p] \in Members /\ status[candidate[p]] = "waitlist"
            /\ status' = [status EXCEPT ![candidate[p]] = "going"] /\ ~InHand(p)'
            /\ TypeOK
        BY <1>1, <3>3 DEF CommitPromotion, At, Leave, Goto, InHand, TurnInv, RsvpInv, TypeOK,
                          LocksHoldWaiters
      <4>3. Cardinality(Going) \in Nat /\ Cardinality(Going') = Cardinality(Going) + 1
        BY <4>2, GoingWritten
      <4>4. SeatsTaken' = Cardinality(Going')
        BY <4>1, <4>2, <4>3, SeatsCountedNext
      <4> QED
        BY <2>2, <3>1, <4>1, <4>3, <4>4
    <3>4. Fits'
      BY <1>1, <3>2, <3>3, AccountedStep
    <3> QED
      BY <1>1, <2>2, <3>4, LimitsStep DEF TurnInv, RsvpInv
  <2> QED
    BY <1>1, <2>1, <2>2
<1>2. ASSUME Init PROVE SeatsInv
  <2>1. Going = {} /\ capacity \in Nat
    BY <1>2, RsvpAssumption DEF Init, Going
  <2>p. PICK p : Processes = {p}
    BY DEF OneByOne
  <2>2. ~InHand(p)
    BY <1>2, <2>p DEF Init, InHand
  <2>3. SeatsTaken = 0
    BY <2>p, <2>1, <2>2, SeatsCounted, FS_EmptySet
  <2> QED
    BY <1>2, <2>1, <2>3, TurnInit, LimitsInit
<1>3. SeatsInv => GoingWithinCapacity
  BY SeatsInts DEF GoingWithinCapacity, TurnInv, RsvpInv, TypeOK
<1>4. [][Seated]_vars <=> PromotionsHaveASeat
  BY PTL DEF PromotionsHaveASeat
<1>5. Spec /\ [][Raised]_vars /\ [][Seated]_vars => []SeatsInv
  BY <1>1, <1>2, TurnInvariant, PTL DEF Spec
<1> QED
  BY <1>3, <1>4, <1>5, PTL

\* Where one capacity can be set, it is neither raised nor lowered.
LEMMA CapacityFixed ==
    ASSUME InTurn
    PROVE  Spec => [][capacity' >= capacity]_vars /\ [][capacity' <= capacity]_vars
<1> DEFINE Raised == capacity' >= capacity
           Lowered == capacity' <= capacity
<1>1. OneByOne
  BY DEF InTurn
<1>2. TurnInv /\ TurnInv' => [Raised]_vars /\ [Lowered]_vars
  BY DEF TurnInv, RsvpInv, TypeOK, InTurn
<1>3. Spec => [][Raised]_vars /\ [][Lowered]_vars
  BY <1>1, <1>2, TurnInvariant, PTL
<1> QED
  BY <1>3, PTL

\* With one request at a time and a fixed capacity, only a promotion that follows a
\* cancellation which freed no seat takes more seats than there are
\* (normalize_rsvp_status_for_capacity, _promote_waitlist_candidate).
THEOREM SeatsAccounted ==
    ASSUME IsFiniteSet(Members), InTurn PROVE Spec => SeatsAreAccounted
<1>1. OneByOne
  BY DEF InTurn
<1> QED
  BY <1>1, CapacityFixed, RaisedNeverOverbooks, PTL

\* With one request at a time, a fixed capacity and nobody asking for the waitlist, only a
\* request that breaks off between its two commits leaves a seat empty while members wait.
THEOREM AbortWastes ==
    ASSUME IsFiniteSet(Members), InTurn, "waitlist" \notin Requests PROVE Spec => OnlyAbortWastesASeat
<1>1. OneByOne
  BY DEF InTurn
<1> QED
  BY <1>1, CapacityFixed, LoweredNeverWastes, PTL

-----------------------------------------------------------------------------
(* Seats that are passed on *)

\* A request under way asks for one of the statuses it may ask for.
Asked == \A p \in Processes : pc[p] # "idle" => req[p].wanted \in Requests

LEMMA AskedStep == ASSUME TypeOK, Asked, [Next]_vars PROVE Asked'
<1>1. ASSUME NEW p \in Processes, Leave(p) PROVE Asked'
  BY <1>1 DEF Leave, Goto, Asked, TypeOK
<1>2. ASSUME NEW p \in Processes, Begin(p) PROVE Asked'
  BY <1>2 DEF Begin, Goto, Asked, TypeOK
<1>3. ASSUME NEW p \in Processes, (ReadEvent(p) /\ exists) \/ LoadRow(p) \/ Count(p) PROVE Asked'
  <2>1. /\ pc[p] # "idle" /\ req'[p].wanted = req[p].wanted
        /\ \A q \in Processes : q # p => pc'[q] = pc[q] /\ req'[q] = req[q]
    BY <1>3 DEF ReadEvent, LoadRow, Count, At, Goto, TypeOK, RequestRecords
  <2> QED
    BY <2>1 DEF Asked
<1>4. ASSUME NEW p \in Processes,
             \/ Check(p) /\ status[req[p].member] = "none"
             \/ Update(p) /\ req[p].decided = "cancel"
             \/ LockCandidate(p)
      PROVE  Asked'
  BY <1>4 DEF Check, Update, LockCandidate, At, Goto, Asked, TypeOK
<1>5. CASE UNCHANGED <<pc, req>>
  BY <1>5 DEF Asked
<1> QED
  BY <1>1, <1>2, <1>3, <1>4, <1>5
     DEF Next, Request, Promote, ReadEvent, Check, Insert, Update, UpdateFails, NobodyWaits,
         CommitPromotion, Abort, Reject, UpdateEvent, DeleteEvent, vars

\* The promotions on their way, before and after one of them begins or ends.
LEMMA PromotingSize ==
    ASSUME IsFiniteSet(Processes)
    PROVE  /\ Cardinality(Promoting) \in Nat /\ Cardinality(Promoting') \in Nat
           /\ \A p \in Processes \ Promoting : Cardinality(Promoting \cup {p}) = Cardinality(Promoting) + 1
           /\ \A p \in Promoting : Cardinality(Promoting \ {p}) = Cardinality(Promoting) - 1
<1>1. Promoting \subseteq Processes /\ Promoting' \subseteq Processes
  BY DEF Promoting
<1> QED
  BY <1>1, FS_Subset, FS_CardinalityType, FS_AddElement, FS_RemoveElement

\* The seats taken or on their way to somebody do not get fewer, and no row joins those
\* that wait and are not locked, unless a request breaks off, writes "waitlist" or the
\* event is deleted.
LEMMA PassedOnStep ==
    ASSUME IsFiniteSet(Members), IsFiniteSet(Processes), RsvpInv, Asked, [Next]_vars,
           \A p \in Processes :
               ~Abort(p) /\ ~((Insert(p) \/ Update(p)) /\ req[p].decided = "waitlist"),
           ~DeleteEvent
    PROVE  /\ Waiting' \subseteq Waiting
           /\ Cardinality(Going') + Cardinality(Promoting') >= Cardinality(Going) + Cardinality(Promoting)
<1>0. TypeOK /\ LocksHoldWaiters /\ NoDoublePromotion /\ DecisionsFit
  BY DEF RsvpInv
<1>g. PICK g \in Nat, g2 \in Nat : g = Cardinality(Going) /\ g2 = Cardinality(Going')
  BY FS_Subset, FS_CardinalityType DEF Going
<1>n. PICK n \in Nat, n2 \in Nat : n = Cardinality(Promoting) /\ n2 = Cardinality(Promoting')
  BY PromotingSize
<1> SUFFICES Waiting' \subseteq Waiting /\ g2 + n2 >= g + n
  BY <1>g, <1>n
\* A step of no promotion that writes no row.
<1>1. ASSUME status' = status, UNCHANGED Promoting, \A m \in Members : Locked(m) => Locked(m)'
      PROVE  Waiting' \subseteq Waiting /\ g2 + n2 >= g + n
  BY <1>1, <1>g, <1>n DEF Waiting, Going
\* Whoever leaves without writing breaks off.
<1>2. ASSUME NEW p \in Processes,
             \/ Check(p) /\ status[req[p].member] # "none"
             \/ UpdateFails(p) \/ NobodyWaits(p)
      PROVE  FALSE
  BY <1>2 DEF Check, UpdateFails, NobodyWaits, Abort, At
<1>3. ASSUME NEW p \in Processes, Begin(p) \/ LoadRow(p) \/ Count(p)
      PROVE  Waiting' \subseteq Waiting /\ g2 + n2 >= g + n
  BY <1>0, <1>1, <1>3 DEF Begin, LoadRow, Count, Goto, table, Locked, At, Promoting, TypeOK
<1>4. ASSUME NEW p \in Processes, ReadEvent(p), exists
      PROVE  Waiting' \subseteq Waiting /\ g2 + n2 >= g + n
  BY <1>0, <1>1, <1>4 DEF ReadEvent, Goto, table, Locked, At, Promoting, TypeOK
<1>5. ASSUME NEW p \in Processes, Check(p), status[req[p].member] = "none"
      PROVE  Waiting' \subseteq Waiting /\ g2 + n2 >= g + n
  BY <1>0, <1>1, <1>5 DEF Check, Goto, table, Locked, At, Promoting, TypeOK
\* A request that does not write "waitlist": whoever gives up a seat goes on to promote.
<1>6. ASSUME NEW p \in Processes, Insert(p) \/ Update(p)
      PROVE  Waiting' \subseteq Waiting /\ g2 + n2 >= g + n
  <2>m. PICK m \in Members : m = req[p].member /\ pc[p] \in {"insert", "update"}
    BY <1>0, <1>6 DEF Insert, Update, At, TypeOK
  <2>d. PICK d : d = req[p].decided /\ d # "waitlist"
    BY <1>6
  <2>1. status' = status \/ status' = [status EXCEPT ![m] = d]
    BY <1>6, <2>m, <2>d DEF Insert, Update
  <2>2. \A o \in Members : Locked(o) => Locked(o)'
    BY <1>0, <1>6 DEF Insert, Update, Leave, Goto, Locked, At, TypeOK
  <2>3. Waiting' \subseteq Waiting
    BY <1>0, <2>d, <2>1, <2>2 DEF Waiting, TypeOK
  <2>4. g2 = g \/ (d # "going" /\ g2 = g - 1 /\ status[m] = "going") \/ (d = "going" /\ g2 >= g)
    <3>1. CASE status' = status
      BY <1>g, <3>1 DEF Going
    <3>2. CASE status' = [status EXCEPT ![m] = d]
      <4>1. g2 = IF d = "going" THEN IF status[m] = "going" THEN g ELSE g + 1
                                ELSE IF status[m] = "going" THEN g - 1 ELSE g
        BY <1>0, <1>g, <3>2, GoingWritten
      <4> QED
        BY <4>1
    <3> QED
      BY <2>1, <3>1, <3>2
  <2>5. CASE Update(p) /\ d = "cancel"
    <3>1. Promoting' = Promoting \cup {p} /\ p \notin Promoting
      BY <1>0, <2>5, <2>d DEF Update, At, Goto, Promoting, TypeOK
    <3>2. n2 = n + 1
      BY <1>n, <3>1, PromotingSize
    <3> QED
      BY <2>3, <2>4, <2>5, <3>2
  <2>6. CASE ~(Update(p) /\ d = "cancel")
    <3>1. Leave(p)
      BY <1>6, <2>6, <2>d DEF Insert, Update
    <3>2. Promoting' = Promoting
      BY <1>0, <2>m, <3>1 DEF Leave, Goto, Promoting, TypeOK
    <3>3. Update(p) => d = "going"
      BY <1>0, <2>6, <2>d, RsvpAssumption DEF Update, At, DecisionsFit, Asked
    <3>4. Insert(p) => status[m] = "none" \/ status' = status
      BY <2>m DEF Insert
    <3>5. g2 >= g
      BY <1>6, <1>g, <2>4, <3>3, <3>4 DEF Going
    <3> QED
      BY <1>n, <2>3, <3>2, <3>5
  <2> QED
    BY <2>5, <2>6
<1>8. ASSUME NEW p \in Processes, LockCandidate(p)
      PROVE  Waiting' \subseteq Waiting /\ g2 + n2 >= g + n
  <2>1. Promoting' = Promoting
    BY <1>0, <1>8 DEF LockCandidate, At, Goto, Promoting, TypeOK
  <2>2. \A m \in Members : Locked(m) => Locked(m)'
    BY <1>0, <1>8 DEF LockCandidate, Locked, At, Goto, TypeOK
  <2> QED
    BY <1>1, <1>8, <2>1, <2>2 DEF LockCandidate, table
\* The seat on its way arrives.
<1>10. ASSUME NEW p \in Processes, CommitPromotion(p)
       PROVE  Waiting' \subseteq Waiting /\ g2 + n2 >= g + n
  <2>c. PICK c \in Members : /\ c = candidate[p] /\ status[c] = "waitlist"
                             /\ status' = [status EXCEPT ![c] = "going"]
    BY <1>0, <1>10 DEF CommitPromotion, At, TypeOK, LocksHoldWaiters
  <2>1. g2 = g + 1
    BY <1>0, <1>g, <2>c, GoingWritten
  <2>2. Promoting' = Promoting \ {p} /\ p \in Promoting
    BY <1>0, <1>10 DEF CommitPromotion, At, Leave, Goto, Promoting, TypeOK
  <2>3. n2 = n - 1
    BY <1>n, <2>2, PromotingSize
  <2>4. \A m \in Members : Locked(m) /\ m # c => Locked(m)'
    BY <1>0, <1>10, <2>c DEF CommitPromotion, Leave, Goto, Locked, At, TypeOK
  <2> QED
    BY <1>0, <2>1, <2>3, <2>4, <2>c DEF Waiting, TypeOK
<1>11. CASE UNCHANGED <<status, pc, candidate>>
  BY <1>1, <1>11 DEF Promoting, Locked, At
<1>12. ASSUME NEW p \in Processes, Request(p) \/ Promote(p)
       PROVE  Waiting' \subseteq Waiting /\ g2 + n2 >= g + n
  <2>1. \/ Begin(p) \/ LoadRow(p) \/ Count(p) \/ ReadEvent(p) \/ Check(p)
        \/ Insert(p) \/ Update(p) \/ LockCandidate(p) \/ CommitPromotion(p)
    BY <1>2, <1>12 DEF Request, Promote
  <2>2. CASE Begin(p) \/ LoadRow(p) \/ Count(p)
    BY <1>3, <2>2
  <2>3. CASE ReadEvent(p)
    <3>1. CASE exists
      BY <1>4, <2>3, <3>1
    <3>2. CASE ~exists
      BY <2>3, <3>2 DEF ReadEvent, Abort, At
    <3> QED
      BY <3>1, <3>2
  <2>4. CASE Check(p)
    BY <1>2, <1>5, <2>4
  <2>5. CASE Insert(p) \/ Update(p)
    BY <1>6, <2>5
  <2> QED
    BY <1>8, <1>10, <2>1, <2>2, <2>3, <2>4, <2>5
<1> QED
  BY <1>11, <1>12 DEF Next, UpdateEvent, vars

\* However many requests cancel and promote at once, a seat that nothing on its way will
\* fill is left over a waiting row that is not locked only by a raised capacity, by a request
\* that breaks off or by one that writes "waitlist" (_promote_waitlist_candidate).
THEOREM SeatsArePassedOnHolds ==
    ASSUME IsFiniteSet(Members), IsFiniteSet(Processes) PROVE Spec => SeatsArePassedOn
<1> DEFINE Passed ==
      ~SeatLeft /\ SeatLeft'
      => \/ capacity' > capacity
         \/ \E p \in Processes :
                Abort(p) \/ ((Insert(p) \/ Update(p)) /\ req[p].decided = "waitlist")
<1>1. ASSUME RsvpInv, Asked, [Next]_vars, RsvpInv' PROVE [Passed]_vars
  <2> SUFFICES ASSUME ~SeatLeft, SeatLeft', ~(capacity' > capacity),
                      \A p \in Processes :
                          ~Abort(p) /\ ~((Insert(p) \/ Update(p)) /\ req[p].decided = "waitlist")
               PROVE  FALSE
    OBVIOUS
  <2>1. /\ capacity \in Nat /\ capacity' \in Nat
        /\ Cardinality(Going) \in Nat /\ Cardinality(Going') \in Nat
        /\ Cardinality(Promoting) \in Nat /\ Cardinality(Promoting') \in Nat
    BY <1>1, PromotingSize, FS_Subset, FS_CardinalityType DEF RsvpInv, TypeOK, Going
  <2>2. CASE DeleteEvent
    BY <2>2 DEF DeleteEvent, SeatLeft, Waiting
  <2>3. CASE ~DeleteEvent
    <3>1. /\ Waiting' \subseteq Waiting
          /\ Cardinality(Going') + Cardinality(Promoting')
                 >= Cardinality(Going) + Cardinality(Promoting)
      BY <1>1, <2>3, PassedOnStep
    <3> QED
      BY <2>1, <3>1 DEF SeatLeft
  <2> QED
    BY <2>2, <2>3
<1>2. Init => Asked
  BY DEF Init, Asked
<1>3. Spec => []Asked
  <2>1. RsvpInv /\ Asked /\ [Next]_vars => Asked'
    BY AskedStep DEF RsvpInv
  <2> QED
    BY <1>2, <2>1, RsvpInvariant, PTL DEF Spec
<1>4. [][Passed]_vars <=> SeatsArePassedOn
  BY PTL DEF SeatsArePassedOn
<1> QED
  BY <1>1, <1>3, <1>4, RsvpInvariant, PTL DEF Spec

-----------------------------------------------------------------------------
(* Many requests at a time *)

\* The requests that have counted a seat as free and have not written yet.
Taking == {p \in Processes : pc[p] \in {"check", "insert", "update"}
                             /\ req[p].decided = "going" /\ req[p].loaded # "going"}

\* Where nobody cancels, no request promotes, and one that inserts has loaded no row.
NobodyCancels ==
    \A p \in Processes :
        /\ pc[p] \notin {"promote", "commit"}
        /\ pc[p] # "idle" => req[p].wanted # "cancel"
        /\ pc[p] \in {"event", "load", "check", "insert"} => req[p].loaded = "none"

SeatsBound == Cardinality(Going) + Cardinality(Taking) <= capacity + Cardinality(Processes) - 1

CrowdInv == RsvpInv /\ LimitsLow /\ NobodyCancels /\ SeatsBound

LEMMA NobodyCancelsStep ==
    ASSUME RsvpInv, NobodyCancels, "cancel" \notin Requests, [Next]_vars
    PROVE  NobodyCancels'
<1>0. TypeOK /\ DecisionsFit
  BY DEF RsvpInv
<1>1. ASSUME NEW p \in Processes, Leave(p) PROVE NobodyCancels'
  BY <1>0, <1>1 DEF Leave, Goto, NobodyCancels, TypeOK
<1>2. ASSUME NEW p \in Processes, Begin(p) PROVE NobodyCancels'
  BY <1>0, <1>2 DEF Begin, Goto, NobodyCancels, TypeOK
<1>3. ASSUME NEW p \in Processes, ReadEvent(p), exists PROVE NobodyCancels'
  BY <1>0, <1>3 DEF ReadEvent, At, Goto, NobodyCancels, TypeOK, RequestRecords
<1>4. ASSUME NEW p \in Processes, LoadRow(p) PROVE NobodyCancels'
  BY <1>0, <1>4 DEF LoadRow, At, Goto, NobodyCancels, TypeOK, RequestRecords
<1>5. ASSUME NEW p \in Processes, Count(p) PROVE NobodyCancels'
  BY <1>0, <1>5 DEF Count, At, Goto, NobodyCancels, TypeOK, RequestRecords
<1>6. ASSUME NEW p \in Processes, Check(p), status[req[p].member] = "none" PROVE NobodyCancels'
  BY <1>0, <1>6 DEF Check, At, Goto, NobodyCancels, TypeOK
<1>7. ASSUME NEW p \in Processes, Update(p) PROVE req[p].decided # "cancel"
  BY <1>0, <1>7 DEF Update, At, NobodyCancels, DecisionsFit
<1>8. ASSUME NEW p \in Processes, LockCandidate(p) PROVE FALSE
  BY <1>8 DEF LockCandidate, At, NobodyCancels
<1>9. CASE UNCHANGED <<pc, req>>
  BY <1>9 DEF NobodyCancels
<1> QED
  BY <1>1, <1>2, <1>3, <1>4, <1>5, <1>6, <1>7, <1>8, <1>9
     DEF Next, Request, Promote, ReadEvent, Check, Insert, Update, UpdateFails, NobodyWaits,
         CommitPromotion, Abort, Reject, UpdateEvent, DeleteEvent, vars

\* The requests that take a seat, after the step of one of them.
LEMMA TakingSize ==
    ASSUME IsFiniteSet(Processes)
    PROVE  /\ Cardinality(Taking) \in Nat /\ Cardinality(Taking') \in Nat
           /\ Cardinality(Taking') <= Cardinality(Processes)
           /\ \A S \in SUBSET Taking : Cardinality(S) \in Nat /\ Cardinality(S) <= Cardinality(Taking)
           /\ \A p \in Taking : Cardinality(Taking \ {p}) = Cardinality(Taking) - 1
<1>1. Taking \subseteq Processes /\ Taking' \subseteq Processes
  BY DEF Taking
<1> QED
  BY <1>1, FS_Subset, FS_CardinalityType, FS_RemoveElement

LEMMA SeatsBoundStep ==
    ASSUME IsFiniteSet(Members), IsFiniteSet(Processes), "cancel" \notin Requests,
           CrowdInv, [Next]_vars, capacity' >= capacity
    PROVE  SeatsBound'
<1>0. TypeOK /\ DecisionsFit /\ LimitsLow /\ NobodyCancels /\ capacity \in Nat /\ capacity' \in Nat
  BY TypeStep DEF CrowdInv, RsvpInv, TypeOK
<1>n. PICK n \in Nat : n = Cardinality(Processes)
  BY FS_CardinalityType
<1>g. PICK g \in Nat, g2 \in Nat : g = Cardinality(Going) /\ g2 = Cardinality(Going')
  BY FS_Subset, FS_CardinalityType DEF Going
<1>t. PICK t \in Nat, t2 \in Nat : t = Cardinality(Taking) /\ t2 = Cardinality(Taking') /\ t2 <= n
  BY <1>n, TakingSize
<1>c. PICK c \in Nat, c2 \in Nat : c = capacity /\ c2 = capacity' /\ c <= c2
  BY <1>0
<1>b. g + t <= c + n - 1
  BY <1>n, <1>g, <1>t, <1>c DEF CrowdInv, SeatsBound
<1>s. SUFFICES g2 + t2 <= c2 + n - 1
  BY <1>n, <1>g, <1>t, <1>c DEF SeatsBound
\* A step that frees no seat and takes none.
<1>1. ASSUME status' = status, Taking' \subseteq Taking PROVE g2 + t2 <= c2 + n - 1
  <2>1. t2 <= t
    BY <1>1, <1>t, TakingSize
  <2>2. g2 = g
    BY <1>1, <1>g DEF Going
  <2> QED
    BY <1>n, <1>g, <1>t, <1>c, <1>b, <2>1, <2>2
\* Whoever leaves takes no seat any more.
<1>2. ASSUME NEW p \in Processes, Leave(p) PROVE Taking' = Taking \ {p}
  BY <1>0, <1>2 DEF Leave, Goto, Taking, TypeOK
<1>3. ASSUME NEW p \in Processes, Reject(p) PROVE g2 + t2 <= c2 + n - 1
  BY <1>1, <1>2, <1>3 DEF Reject, table
<1>4. ASSUME NEW p \in Processes, Begin(p) \/ LoadRow(p) PROVE Taking' \subseteq Taking
  BY <1>0, <1>4 DEF Begin, LoadRow, At, Goto, Taking, TypeOK
<1>5. ASSUME NEW p \in Processes, ReadEvent(p), exists PROVE Taking' \subseteq Taking
  BY <1>0, <1>5 DEF ReadEvent, At, Goto, Taking, TypeOK
<1>6. ASSUME NEW p \in Processes, Check(p), status[req[p].member] = "none"
      PROVE  Taking' \subseteq Taking
  BY <1>0, <1>6 DEF Check, At, Goto, Taking, TypeOK
\* Whoever decides to take a seat has counted one as free; so no more than all the
\* requests together are beyond the capacity, and this one is not.
<1>7. ASSUME NEW p \in Processes, Count(p) PROVE g2 + t2 <= c2 + n - 1
  <2> DEFINE r == req[p]
             d == Normalize(r.wanted, r.loaded, g, r.limit)
  <2>1. /\ status' = status /\ Going' = Going /\ req'[p].decided = d /\ req'[p].loaded = r.loaded
        /\ \A q \in Processes : q # p => pc'[q] = pc[q] /\ req'[q] = req[q]
    BY <1>0, <1>7, <1>g DEF Count, Goto, TypeOK, RequestRecords, table, Going
  <2>2. CASE d = "going" /\ r.loaded # "going"
    <3>1. g < r.limit
      BY <1>0, <2>2 DEF Normalize, TypeOK, RequestRecords
    <3>2. r.limit <= capacity /\ r.limit \in Nat
      BY <1>0, <1>7 DEF Count, At, LimitsLow, UsesLimit, TypeOK, RequestRecords
    <3>3. g2 = g
      BY <1>g, <2>1
    <3> HIDE DEF r
    <3> QED
      BY <1>n, <1>g, <1>c, <1>t, <3>1, <3>2, <3>3
  <2>3. CASE ~(d = "going" /\ r.loaded # "going")
    <3>1. Taking' \subseteq Taking
      BY <2>1, <2>3 DEF Taking
    <3> QED
      BY <1>1, <2>1, <3>1
  <2> QED
    BY <2>2, <2>3
\* Whoever writes a seat has been counted among those that take one.
<1>8. ASSUME NEW p \in Processes, Insert(p) \/ Update(p) PROVE g2 + t2 <= c2 + n - 1
  <2>1. PICK m \in Members : /\ m = req[p].member /\ pc[p] \in {"insert", "update"}
                             /\ pc[p] = "insert" => req[p].loaded = "none"
    BY <1>0, <1>8 DEF Insert, Update, At, TypeOK, NobodyCancels
  <2>2. Leave(p)
    BY <1>0, <1>8 DEF Insert, Update, At, NobodyCancels, DecisionsFit
  <2>3. Taking' = Taking \ {p}
    BY <1>2, <2>2
  <2>4. CASE status' = status
    BY <1>1, <2>3, <2>4
  <2>5. CASE status' # status
    <3>1. /\ status' = [status EXCEPT ![m] = req[p].decided]
          /\ pc[p] = "update" => req[p].decided # req[p].loaded
      BY <1>8, <2>1, <2>5 DEF Insert, Update, Writes, At
    <3>d. PICK d : d = req[p].decided
      OBVIOUS
    <3>w. g2 = IF d = "going" THEN IF status[m] = "going" THEN g ELSE g + 1
                              ELSE IF status[m] = "going" THEN g - 1 ELSE g
      BY <1>0, <1>g, <2>1, <3>1, <3>d, GoingWritten
    <3>2. CASE req[p].decided = "going"
      <4>1. p \in Taking
        BY <2>1, <3>1, <3>2 DEF Taking
      <4>2. t2 = t - 1
        BY <1>t, <2>3, <4>1, TakingSize
      <4>3. g2 <= g + 1
        BY <1>g, <3>2, <3>d, <3>w
      <4> QED
        BY <1>n, <1>g, <1>t, <1>c, <1>b, <4>2, <4>3
    <3>3. CASE req[p].decided # "going"
      <4>1. g2 <= g
        BY <1>g, <3>3, <3>d, <3>w
      <4>2. t2 <= t
        BY <1>t, <2>3, TakingSize
      <4> QED
        BY <1>n, <1>g, <1>t, <1>c, <1>b, <4>1, <4>2
    <3> QED
      BY <3>2, <3>3
  <2> QED
    BY <2>4, <2>5
<1>9. ASSUME NEW p \in Processes, LockCandidate(p) \/ NobodyWaits(p) \/ CommitPromotion(p) PROVE FALSE
  BY <1>0, <1>9 DEF LockCandidate, NobodyWaits, CommitPromotion, At, NobodyCancels
<1>10. CASE DeleteEvent
  <2>1. Going' = {} /\ Taking' = Taking
    BY <1>10 DEF DeleteEvent, Going, Taking
  <2>2. g2 = 0 /\ t2 = t
    BY <1>g, <1>t, <2>1, FS_EmptySet
  <2> QED
    BY <1>n, <1>g, <1>t, <1>c, <1>b, <2>2
<1>11. CASE UNCHANGED <<status, pc, req>>
  <2>1. Taking' = Taking
    BY <1>11 DEF Taking
  <2> QED
    BY <1>1, <1>11, <2>1
<1> QED
  BY <1>1, <1>3, <1>4, <1>5, <1>6, <1>7, <1>8, <1>9, <1>10, <1>11
     DEF Next, Request, Promote, Begin, LoadRow, ReadEvent, Check, UpdateFails, Abort,
         UpdateEvent, vars, table

\* How far the race for the last seat goes: with a capacity that is only raised and nobody
\* cancelling, the attendees exceed the capacity by fewer than the requests served at once,
\* in however many rounds they come (the count of upsert_rsvp_status and create_rsvp is
\* taken without a lock).
THEOREM OverbookingBounded ==
    ASSUME IsFiniteSet(Members), IsFiniteSet(Processes), Processes # {}, "cancel" \notin Requests
    PROVE  Spec /\ [][capacity' >= capacity]_vars
           => [](Cardinality(Going) <= capacity + Cardinality(Processes) - 1)
<1> DEFINE Raised == capacity' >= capacity
           Bounded == Cardinality(Going) <= capacity + Cardinality(Processes) - 1
<1>1. ASSUME CrowdInv, [Next]_vars, [Raised]_vars PROVE CrowdInv'
  <2>1. CASE UNCHANGED vars
    BY <1>1, <2>1, RsvpInvStep
       DEF vars, CrowdInv, LimitsLow, UsesLimit, NobodyCancels, SeatsBound, Going, Taking
  <2>2. CASE Raised
    BY <1>1, <2>2, RsvpInvStep, LimitsStep, NobodyCancelsStep, SeatsBoundStep DEF CrowdInv, RsvpInv
  <2> QED
    BY <1>1, <2>1, <2>2
<1>2. ASSUME Init PROVE CrowdInv
  <2>1. Going = {} /\ Taking = {} /\ capacity \in Nat
    BY <1>2, RsvpAssumption DEF Init, Going, Taking
  <2>2. Cardinality(Processes) \in Nat /\ Cardinality(Processes) # 0
    BY FS_CardinalityType, FS_EmptySet
  <2>3. SeatsBound
    BY <2>1, <2>2, FS_EmptySet DEF SeatsBound
  <2>4. NobodyCancels
    BY <1>2 DEF Init, NobodyCancels
  <2> QED
    BY <1>2, <2>3, <2>4, RsvpInvInit, LimitsInit DEF CrowdInv
<1>3. ASSUME CrowdInv PROVE Bounded
  <2>1. capacity \in Nat /\ Cardinality(Taking) \in Nat /\ Cardinality(Processes) \in Nat
    BY <1>3, TakingSize, FS_CardinalityType DEF CrowdInv, RsvpInv, TypeOK
  <2>2. Cardinality(Going) \in Nat
    BY FS_Subset, FS_CardinalityType DEF Going
  <2> QED
    BY <1>3, <2>1, <2>2 DEF CrowdInv, SeatsBound
<1> QED
  BY <1>1, <1>2, <1>3, PTL DEF Spec
=============================================================================
