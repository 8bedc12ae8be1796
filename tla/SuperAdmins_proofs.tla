------------------------ MODULE SuperAdmins_proofs ------------------------
(***************************************************************************)
(* Proofs about SuperAdmins, for any finite set of members, any number of  *)
(* concurrent requests and any requests administrators may send.           *)
(***************************************************************************)
EXTENDS SuperAdmins, FiniteSetTheorems, TLAPS

-----------------------------------------------------------------------------
(* Frame: what a step of one process leaves alone *)

LEMMA RejectFrame ==
    ASSUME TypeOK, NEW p \in Processes, Reject(p)
    PROVE  /\ pc' = [pc EXCEPT ![p] = "idle"]
           /\ req' = [req EXCEPT ![p] = NoRequest]
           /\ UNCHANGED <<grade, status, blind>>
BY DEF Reject, Leave, Goto, table

LEMMA Frame ==
    ASSUME TypeOK, NEW p \in Processes, Authorize(p) \/ Step(p) \/ Abort(p)
    PROVE  /\ \A q \in Processes \ {p} : pc'[q] = pc[q] /\ req'[q] = req[q]
           /\ Commit(p) \/ UNCHANGED <<grade, status, blind>>
<1> USE RejectFrame DEF TypeOK, Goto, table
<1>1. CASE Authorize(p)
  BY <1>1 DEF Authorize
<1>2. CASE Load(p)
  BY <1>2 DEF Load
<1>3. CASE Check(p)
  BY <1>3 DEF Check
<1>4. CASE AcquireLock(p)
  BY <1>4 DEF AcquireLock
<1>5. CASE Count(p)
  BY <1>5 DEF Count
<1>6. CASE Write(p)
  BY <1>6 DEF Write
<1>7. CASE Commit(p)
  BY <1>7 DEF Commit, Leave
<1>8. CASE Abort(p)
  BY <1>8 DEF Abort
<1> QED
  BY <1>1, <1>2, <1>3, <1>4, <1>5, <1>6, <1>7, <1>8 DEF Step

\* What a step of p does to its own request.
LEMMA OwnStep ==
    ASSUME TypeOK, NEW p \in Processes, Authorize(p) \/ Step(p) \/ Abort(p)
    PROVE  \/ pc'[p] = "idle" /\ req'[p] = NoRequest
           \/ /\ pc[p] = "idle" /\ pc'[p] = "load"
              /\ req'[p].locked = req[p].locked
           \/ pc[p] = "load" /\ pc'[p] = "check" /\ req'[p].locked = req[p].locked
           \/ pc[p] = "lock" /\ AcquireLock(p)
           \/ /\ pc[p] = "check" /\ req'[p] = req[p]
              /\ pc'[p] = IF Counts(req[p]) THEN "lock" ELSE "write"
           \/ pc[p] = "count" /\ pc'[p] = "write" /\ req'[p] = req[p] /\ Count(p)
           \/ /\ pc[p] = "write" /\ pc'[p] = "commit" /\ req'[p] = req[p]
              /\ ~RowLocked(req[p].target)
              /\ Inserts(req[p]) => status[req[p].target] = "none"
<1> USE RejectFrame DEF TypeOK, Goto, table, At
<1>1. CASE Authorize(p)
  BY <1>1 DEF Authorize, NewRequest
<1>2. CASE Load(p)
  BY <1>2 DEF Load, Loaded, RequestRecords
<1>3. CASE Check(p)
  BY <1>3 DEF Check
<1>4. CASE AcquireLock(p)
  BY <1>4 DEF AcquireLock
<1>5. CASE Count(p)
  <2>1. CASE Reject(p)
    BY <2>1
  <2>2. CASE ~Reject(p)
    BY <1>5, <2>2 DEF Count
  <2> QED
    BY <2>1, <2>2
<1>6. CASE Write(p)
  BY <1>6 DEF Write
<1>7. CASE Commit(p)
  BY <1>7 DEF Commit, Leave
<1>8. CASE Abort(p)
  BY <1>8 DEF Abort
<1> QED
  BY <1>1, <1>2, <1>3, <1>4, <1>5, <1>6, <1>7, <1>8 DEF Step

-----------------------------------------------------------------------------
(* Types *)

LEMMA NoRequestType == NoRequest \in RequestRecords
BY DEF NoRequest, RequestRecords, Grades, Statuses

LEMMA AskedType ==
    ASSUME NEW kind \in Kinds, NEW next \in Asked(kind)
    PROVE  /\ next \in Grades \cup Statuses
           /\ kind \in {"roles", "create"} => next \in Grades
           /\ kind = "status" => next \in Statuses \ {"none"}
BY SuperAdminsAssumption DEF Asked, Grades, Statuses

LEMMA CommitType ==
    ASSUME TypeOK, RequestsFit, NEW p \in Processes, At(p, "commit")
    PROVE  /\ req[p].target \in Members
           /\ NewGrade(p) \in Grades
           /\ NewStatus(p) \in Statuses
<1>1. /\ req[p].kind \in Kinds
      /\ req[p].target \in Members
      /\ req[p].next \in Asked(req[p].kind)
  BY DEF RequestsFit, At
<1>2. grade[req[p].target] \in Grades /\ status[req[p].target] \in Statuses
  BY <1>1 DEF TypeOK
<1>3. NewGrade(p) \in Grades
  BY <1>1, <1>2, AskedType DEF NewGrade, Grades
<1>4. NewStatus(p) \in Statuses
  BY <1>1, <1>2, AskedType DEF NewStatus, Statuses
<1> QED
  BY <1>1, <1>3, <1>4

LEMMA TypeStep ==
    TypeOK /\ RequestsFit /\ [Next]_vars => TypeOK' /\ RequestsFit'
<1> SUFFICES ASSUME TypeOK, RequestsFit, [Next]_vars
             PROVE  TypeOK' /\ RequestsFit'
  OBVIOUS
<1>1. CASE UNCHANGED vars
  BY <1>1 DEF vars, TypeOK, RequestsFit, At
<1>2. ASSUME NEW p \in Processes, Authorize(p) \/ Step(p) \/ Abort(p)
      PROVE  TypeOK' /\ RequestsFit'
  <2>1. ASSUME Reject(p) PROVE TypeOK' /\ RequestsFit'
    BY <2>1, RejectFrame, NoRequestType DEF TypeOK, RequestsFit, At, Steps
  <2>2. CASE Authorize(p)
    <3>1. PICK kind \in Kinds, a \in Members, t \in Members :
             \E next \in Asked(kind) :
                req' = [req EXCEPT ![p] = NewRequest(p, kind, a, t, next)]
      BY <2>2 DEF Authorize
    <3>2. PICK next \in Asked(kind) :
             req' = [req EXCEPT ![p] = NewRequest(p, kind, a, t, next)]
      BY <3>1
    <3> DEFINE r == NewRequest(p, kind, a, t, next)
    <3>3. req[p].locked \in BOOLEAN
      BY DEF TypeOK, RequestRecords
    <3>4. r \in RequestRecords
      BY <3>3, AskedType DEF NewRequest, RequestRecords, Grades, Statuses
    <3>5. /\ r.kind \in Kinds /\ r.target \in Members
          /\ r.next \in Asked(r.kind) /\ r.status = "none"
      BY DEF NewRequest
    <3> HIDE DEF r
    <3>6. req' = [req EXCEPT ![p] = r]
      BY <3>2 DEF r
    <3> QED
      BY <2>2, <3>4, <3>5, <3>6
      DEF Authorize, TypeOK, RequestsFit, At, Goto, Steps, table
  <2>3. CASE Load(p)
    <3>1. CASE Reject(p)
      BY <3>1, <2>1
    <3>2. CASE ~Reject(p)
      <4>1. /\ req' = [req EXCEPT ![p] = Loaded(req[p])]
            /\ pc' = [pc EXCEPT ![p] = "check"]
            /\ UNCHANGED <<grade, status, blind>>
            /\ pc[p] = "load"
            /\ req[p].kind = "create" => status[req[p].target] = "none"
        BY <2>3, <3>2 DEF Load, Goto, table, At
      <4>2. req[p].target \in Members
        BY <4>1 DEF RequestsFit, At
      <4>3. grade[req[p].target] \in Grades /\ status[req[p].target] \in Statuses
        BY <4>2 DEF TypeOK
      <4>4. req[p] \in RequestRecords
        BY DEF TypeOK
      <4>5. /\ Loaded(req[p]) \in RequestRecords
            /\ Loaded(req[p]).kind = req[p].kind
            /\ Loaded(req[p]).target = req[p].target
            /\ Loaded(req[p]).next = req[p].next
            /\ Loaded(req[p]).status = status[req[p].target]
        BY <4>3, <4>4 DEF Loaded, RequestRecords
      <4>6. TypeOK'
        BY <4>1, <4>5 DEF TypeOK, Steps
      <4>7. RequestsFit'
        BY <4>1, <4>5 DEF TypeOK, RequestsFit, At
      <4> QED
        BY <4>6, <4>7
    <3> QED
      BY <3>1, <3>2
  <2>4. CASE Check(p)
    <3>1. CASE Reject(p)
      BY <3>1, <2>1
    <3>2. CASE ~Reject(p)
      BY <2>4, <3>2 DEF Check, Goto, table, At, TypeOK, Steps, RequestsFit
    <3> QED
      BY <3>1, <3>2
  <2>5. CASE AcquireLock(p)
    BY <2>5 DEF AcquireLock, Goto, table, At, TypeOK, Steps, RequestsFit,
                RequestRecords
  <2>6. CASE Count(p)
    <3>1. CASE Reject(p)
      BY <3>1, <2>1
    <3>2. CASE ~Reject(p)
      BY <2>6, <3>2 DEF Count, Goto, table, At, TypeOK, Steps, RequestsFit
    <3> QED
      BY <3>1, <3>2
  <2>7. CASE Write(p)
    <3>1. CASE Reject(p)
      BY <3>1, <2>1
    <3>2. CASE ~Reject(p)
      BY <2>7, <3>2 DEF Write, Goto, table, At, TypeOK, Steps, RequestsFit
    <3> QED
      BY <3>1, <3>2
  <2>8. CASE Commit(p)
    <3>1. blind' \in BOOLEAN
      BY <2>8 DEF Commit, TypeOK
    <3>2. grade' \in [Members -> Grades] /\ status' \in [Members -> Statuses]
      BY <2>8, CommitType DEF Commit, TypeOK
    <3>3. /\ pc' = [pc EXCEPT ![p] = "idle"]
          /\ req' = [req EXCEPT ![p] = NoRequest]
      BY <2>8 DEF Commit, Leave, Goto
    <3> QED
      BY <3>1, <3>2, <3>3, NoRequestType DEF TypeOK, RequestsFit, At, Steps
  <2>9. CASE Abort(p)
    BY <2>9, <2>1 DEF Abort
  <2> QED
    BY <1>2, <2>2, <2>3, <2>4, <2>5, <2>6, <2>7, <2>8, <2>9 DEF Step
<1> QED
  BY <1>1, <1>2 DEF Next

\* A request that has been refused or has ended holds nothing and asks for
\* nothing.
LEMMA IdleRequest == ~NoRequest.locked
BY DEF NoRequest

-----------------------------------------------------------------------------
(* The locks *)

LEMMA LockStep ==
    ASSUME TypeOK, LockExclusive, NEW p \in Processes,
           Authorize(p) \/ Step(p) \/ Abort(p)
    PROVE  LockExclusive'
<1>1. \A q \in Processes \ {p} : req'[q].locked = req[q].locked
  BY Frame
<1>2. CASE AcquireLock(p)
  <2>1. \A q \in Processes \ {p} : ~req[q].locked
    BY <1>2 DEF AcquireLock
  <2> QED
    BY <1>1, <2>1 DEF LockExclusive
<1>3. CASE ~AcquireLock(p)
  <2>1. req'[p].locked => req[p].locked
    BY <1>3, OwnStep, IdleRequest
  <2> QED
    BY <1>1, <2>1 DEF LockExclusive
<1> QED
  BY <1>2, <1>3

LEMMA AcquireFrame ==
    ASSUME TypeOK, NEW p \in Processes, AcquireLock(p)
    PROVE  /\ pc'[p] = "count"
           /\ req'[p].locked
           /\ req'[p].target = req[p].target
           /\ Counts(req[p]) => Counts(req'[p])
<1>1. req[p] \in RequestRecords
  BY DEF TypeOK
<1>2. req'[p] = [req[p] EXCEPT !.locked = TRUE] /\ pc'[p] = "count"
  BY DEF AcquireLock, Goto, TypeOK
<1> QED
  BY <1>1, <1>2 DEF RequestRecords, Counts, Removes

LEMMA RowStep ==
    ASSUME TypeOK, RowExclusive, NEW p \in Processes,
           Authorize(p) \/ Step(p) \/ Abort(p)
    PROVE  RowExclusive'
<1>1. \A q \in Processes \ {p} : pc'[q] = pc[q] /\ req'[q] = req[q]
  BY Frame
<1>2. CASE pc'[p] = "commit"
  <2>1. req'[p] = req[p] /\ ~RowLocked(req[p].target)
    BY <1>2, OwnStep, AcquireFrame
  <2> QED
    BY <1>1, <2>1 DEF RowExclusive, RowLocked, At
<1>3. CASE pc'[p] # "commit"
  BY <1>1, <1>3 DEF RowExclusive, At
<1> QED
  BY <1>2, <1>3

\* A commit changes the row of its own target only.
LEMMA CommitRow ==
    ASSUME TypeOK, RequestsFit, NEW p \in Processes, Commit(p)
    PROVE  /\ req[p].target \in Members
           /\ \A m \in Members \ {req[p].target} :
                  grade'[m] = grade[m] /\ status'[m] = status[m]
           /\ grade'[req[p].target] = NewGrade(p)
           /\ status'[req[p].target] = NewStatus(p)
<1>1. req[p].target \in Members
  BY CommitType DEF Commit
<1> QED
  BY <1>1 DEF Commit, TypeOK

LEMMA InsertStep ==
    ASSUME TypeOK, RequestsFit, RowExclusive, InsertsAreNew,
           NEW p \in Processes, Authorize(p) \/ Step(p) \/ Abort(p)
    PROVE  InsertsAreNew'
<1>1. \A q \in Processes \ {p} : pc'[q] = pc[q] /\ req'[q] = req[q]
  BY Frame
<1>2. CASE Commit(p)
  <2>1. pc'[p] = "idle"
    BY <1>2 DEF Commit, Leave, Goto, TypeOK
  <2>2. \A q \in Processes \ {p} :
            At(q, "commit") => /\ req[q].target \in Members
                               /\ req[q].target # req[p].target
    BY <1>2 DEF RowExclusive, RequestsFit, At, Commit
  <2>3. \A q \in Processes \ {p} :
            At(q, "commit") => status'[req[q].target] = status[req[q].target]
    BY <1>2, <2>2, CommitRow
  <2> QED
    BY <1>1, <2>1, <2>3 DEF InsertsAreNew, At
<1>3. CASE ~Commit(p)
  <2>1. UNCHANGED status
    BY <1>3, Frame
  <2>2. pc'[p] = "commit" =>
            /\ req'[p] = req[p]
            /\ Inserts(req[p]) => status[req[p].target] = "none"
    BY OwnStep, AcquireFrame
  <2> QED
    BY <1>1, <2>1, <2>2 DEF InsertsAreNew, At
<1> QED
  BY <1>2, <1>3

-----------------------------------------------------------------------------
(* The office *)

\* A count of two or more leaves one beside any member.
LEMMA AnotherSuper ==
    ASSUME NEW m, ~(Cardinality(ActiveSupers) <= 1)
    PROVE  ActiveSupers \ {m} # {}
<1>1. IsFiniteSet(ActiveSupers)
  BY SuperAdminsAssumption, FS_Subset DEF ActiveSupers
<1>2. Cardinality(ActiveSupers) \in Nat
  BY <1>1, FS_CardinalityType
<1>3. Cardinality(ActiveSupers \ {m}) >= 1
  BY <1>1, <1>2, FS_RemoveElement
<1> QED
  BY <1>3, FS_EmptySet

\* Only a request that removes an active super_admin loses one.
LEMMA CommitKeeps ==
    ASSUME TypeOK, RequestsFit, InsertsAreNew, NEW p \in Processes, Commit(p),
           NEW m \in Members, ActiveSuper(m), ~ActiveSuper(m)'
    PROVE  m = req[p].target /\ Removes(req[p])
<1>1. m = req[p].target
  BY CommitRow DEF ActiveSuper
<1>2. ~Inserts(req[p])
  BY <1>1 DEF InsertsAreNew, ActiveSuper, Commit
<1>3. ~(NewGrade(p) = "super_admin" /\ NewStatus(p) = "active")
  BY <1>1, CommitRow DEF ActiveSuper
<1>4. /\ req[p].kind \in {"roles", "status", "create", "approve"}
      /\ req[p].kind = "create" => req[p].status = "none"
  BY SuperAdminsAssumption DEF RequestsFit, Commit, At
<1>5. req[p].kind \in {"roles", "status"}
  <2>1. req[p].kind # "create"
    BY <1>2, <1>4 DEF Inserts
  <2>2. req[p].kind # "approve"
    BY <1>1, <1>2, <1>3 DEF NewGrade, NewStatus, Inserts, ActiveSuper
  <2> QED
    BY <1>4, <2>1, <2>2
<1>6. CASE req[p].kind = "roles"
  <2>1. NewGrade(p) = req[p].next
    BY <1>2, <1>6 DEF NewGrade
  <2>2. NewStatus(p) = "active"
    BY <1>1, <1>6 DEF NewStatus, ActiveSuper
  <2> QED
    BY <1>1, <1>3, <1>6, <2>1, <2>2 DEF Removes
<1>7. CASE req[p].kind = "status"
  <2>1. NewStatus(p) = req[p].next
    BY <1>7 DEF NewStatus
  <2>2. NewGrade(p) = "super_admin"
    BY <1>1, <1>2, <1>7 DEF NewGrade, ActiveSuper
  <2> QED
    BY <1>1, <1>3, <1>7, <2>1, <2>2 DEF Removes
<1> QED
  BY <1>5, <1>6, <1>7

\* The removal of a super_admin that the request has seen as one is guarded.
LEMMA SeenIsGuarded ==
    ASSUME TypeOK, CountStillHolds, NEW p \in Processes, Commit(p), ~blind',
           Removes(req[p]), ActiveSuper(req[p].target)
    PROVE  /\ req[p].locked
           /\ ActiveSupers \ {req[p].target} # {}
<1>1. ~blind /\ SawOffice(req[p])
  BY DEF Commit
<1>2. Counts(req[p])
  BY <1>1 DEF Counts, SawOffice
<1> QED
  BY <1>1, <1>2 DEF CountStillHolds, Commit, At

LEMMA RemainStep ==
    ASSUME TypeOK, RequestsFit, InsertsAreNew, CountStillHolds, GuardedRemains,
           NEW p \in Processes, Authorize(p) \/ Step(p) \/ Abort(p)
    PROVE  GuardedRemains'
<1>1. CASE ~Commit(p)
  BY <1>1, Frame DEF GuardedRemains, SuperAdminRemains, ActiveSupers, ActiveSuper
<1>2. CASE Commit(p) /\ ~blind'
  <2>1. PICK m \in Members : ActiveSuper(m)
    BY <1>2 DEF Commit, GuardedRemains, SuperAdminRemains, ActiveSupers
  <2>2. CASE ActiveSuper(m)'
    BY <2>2 DEF GuardedRemains, SuperAdminRemains, ActiveSupers
  <2>3. CASE ~ActiveSuper(m)'
    <3>1. m = req[p].target /\ Removes(req[p])
      BY <1>2, <2>1, <2>3, CommitKeeps
    <3>2. ActiveSupers \ {req[p].target} # {}
      BY <1>2, <2>1, <3>1, SeenIsGuarded
    <3>3. PICK o \in Members \ {req[p].target} : ActiveSuper(o)
      BY <3>2 DEF ActiveSupers
    <3>4. ActiveSuper(o)'
      BY <1>2, <3>3, CommitRow DEF ActiveSuper
    <3> QED
      BY <3>4 DEF GuardedRemains, SuperAdminRemains, ActiveSupers
  <2> QED
    BY <2>2, <2>3
<1>3. CASE Commit(p) /\ blind'
  BY <1>3 DEF GuardedRemains
<1> QED
  BY <1>1, <1>2, <1>3

LEMMA CountStep ==
    ASSUME TypeOK, RequestsFit, LockExclusive, InsertsAreNew, CountStillHolds,
           CountsLocked,
           NEW p \in Processes, Authorize(p) \/ Step(p) \/ Abort(p)
    PROVE  CountStillHolds'
<1> DEFINE Guarding(q) == (At(q, "write") \/ At(q, "commit")) /\ Counts(req[q])
<1>1. \A q \in Processes \ {p} : pc'[q] = pc[q] /\ req'[q] = req[q]
  BY Frame
<1>2. CASE ~Commit(p)
  <2>1. UNCHANGED <<grade, status, blind>>
    BY <1>2, Frame
  <2>2. (ActiveSupers = ActiveSupers')
    BY <2>1 DEF ActiveSupers, ActiveSuper
  <2>3. Guarding(p)' => /\ req'[p] = req[p]
                        /\ Guarding(p) \/ (At(p, "count") /\ Count(p))
    BY OwnStep, AcquireFrame DEF At
  <2>4. Guarding(p)' => /\ req[p].locked
                        /\ blind \/ ActiveSupers \ {req[p].target} # {}
    <3>1. CASE Guarding(p)
      BY <3>1 DEF CountStillHolds
    <3>2. CASE At(p, "count") /\ Count(p) /\ Guarding(p)'
      <4>1. ~(Cardinality(ActiveSupers) <= 1)
        BY <3>2 DEF Count, Reject, Leave, Goto, TypeOK, At
      <4> QED
        BY <3>2, <4>1, AnotherSuper DEF CountsLocked
    <3> QED
      BY <2>3, <3>1, <3>2
  <2>5. \A q \in Processes \ {p} : Guarding(q)' =>
            /\ req[q].locked
            /\ blind \/ ActiveSupers \ {req[q].target} # {}
    BY <1>1 DEF CountStillHolds, At
  <2> QED
    BY <1>1, <2>1, <2>2, <2>3, <2>4, <2>5 DEF CountStillHolds
<1>3. CASE Commit(p)
  <2>1. ~Guarding(p)'
    BY <1>3 DEF Commit, Leave, Goto, TypeOK, At
  <2>2. ASSUME NEW q \in Processes \ {p}, Guarding(q)'
        PROVE  /\ req'[q].locked
               /\ blind' \/ (ActiveSupers \ {req[q].target} # {})'
    <3>1. Guarding(q) /\ req'[q] = req[q]
      BY <1>1, <2>2 DEF At
    <3>2. req[q].locked /\ (blind \/ ActiveSupers \ {req[q].target} # {})
      BY <3>1 DEF CountStillHolds
    <3>3. CASE ~blind'
      <4>1. ~blind
        BY <1>3, <3>3 DEF Commit
      <4>2. PICK o \in Members : o # req[q].target /\ ActiveSuper(o)
        BY <3>2, <4>1 DEF ActiveSupers
      <4>3. ActiveSuper(o)'
        <5>1. ~req[p].locked
          BY <3>2 DEF LockExclusive
        <5> SUFFICES ASSUME ~ActiveSuper(o)' PROVE FALSE
          OBVIOUS
        <5>2. o = req[p].target /\ Removes(req[p])
          BY <1>3, <4>2, CommitKeeps
        <5> QED
          BY <1>3, <3>3, <4>2, <5>1, <5>2, SeenIsGuarded
      <4> QED
        BY <3>1, <3>2, <4>2, <4>3 DEF ActiveSupers
    <3> QED
      BY <3>1, <3>2, <3>3
  <2> QED
    BY <1>1, <2>1, <2>2 DEF CountStillHolds
<1> QED
  BY <1>2, <1>3

-----------------------------------------------------------------------------
(* The theorems *)

LEMMA CountsLockedStep ==
    ASSUME TypeOK, CountsLocked, NEW p \in Processes,
           Authorize(p) \/ Step(p) \/ Abort(p)
    PROVE  CountsLocked'
<1>1. \A q \in Processes \ {p} : pc'[q] = pc[q] /\ req'[q] = req[q]
  BY Frame
<1>2. pc'[p] = "count" => req'[p].locked
  BY OwnStep, AcquireFrame
<1> QED
  BY <1>1, <1>2 DEF CountsLocked, At

LEMMA SuperAdminInit == Init => SuperAdminInv
<1> SUFFICES ASSUME Init PROVE SuperAdminInv
  OBVIOUS
<1>1. \A p \in Processes : pc[p] = "idle" /\ req[p] = NoRequest
  BY DEF Init
<1>2. TypeOK
  BY NoRequestType DEF Init, TypeOK, Steps
<1>3. LockExclusive
  BY <1>1, IdleRequest DEF LockExclusive
<1>4. /\ RowExclusive /\ RequestsFit /\ InsertsAreNew
      /\ CountStillHolds /\ CountsLocked
  BY <1>1 DEF RowExclusive, RequestsFit, InsertsAreNew, CountStillHolds,
              CountsLocked, At
<1>5. GuardedRemains
  BY DEF Init, GuardedRemains, SuperAdminRemains
<1> QED
  BY <1>2, <1>3, <1>4, <1>5 DEF SuperAdminInv

LEMMA SuperAdminStep ==
    SuperAdminInv /\ [Next]_vars => SuperAdminInv'
<1> SUFFICES ASSUME SuperAdminInv, [Next]_vars PROVE SuperAdminInv'
  OBVIOUS
<1> USE DEF SuperAdminInv
<1>1. CASE UNCHANGED vars
  BY <1>1 DEF vars, TypeOK, LockExclusive, RowExclusive, RequestsFit,
              InsertsAreNew, CountStillHolds, CountsLocked, GuardedRemains,
              SuperAdminRemains, ActiveSupers, ActiveSuper, At
<1>2. ASSUME NEW p \in Processes, Authorize(p) \/ Step(p) \/ Abort(p)
      PROVE  SuperAdminInv'
  <2>1. TypeOK' /\ RequestsFit'
    BY TypeStep
  <2>2. LockExclusive' /\ RowExclusive' /\ CountsLocked'
    BY <1>2, LockStep, RowStep, CountsLockedStep
  <2>3. InsertsAreNew'
    BY <1>2, InsertStep
  <2>4. CountStillHolds'
    BY <1>2, CountStep
  <2>5. GuardedRemains'
    BY <1>2, RemainStep
  <2> QED
    BY <2>1, <2>2, <2>3, <2>4, <2>5
<1> QED
  BY <1>1, <1>2 DEF Next

\* The locks exclude, and a count stays valid until its request commits, in
\* every reachable state (count_active_members_with_role).
THEOREM SuperAdminInvariant == Spec => []SuperAdminInv
BY SuperAdminInit, SuperAdminStep, PTL DEF Spec

\* Every variable keeps its type.
THEOREM SuperAdminTypeCorrect == Spec => []TypeOK
<1>1. SuperAdminInv => TypeOK
  BY DEF SuperAdminInv
<1> QED
  BY <1>1, SuperAdminInvariant, PTL

\* An active super_admin is left unless some request removed one that it had
\* loaded as something else (update_member_roles, update_member_profile_admin).
THEOREM GuardedRemainsHolds == Spec => []GuardedRemains
<1>1. SuperAdminInv => GuardedRemains
  BY DEF SuperAdminInv
<1> QED
  BY <1>1, SuperAdminInvariant, PTL

-----------------------------------------------------------------------------
(* Without promotions the guard is enough *)

\* Nobody who has a row is promoted or reactivated.
NoPromotions ==
    /\ Kinds \subseteq {"roles", "status", "create"}
    /\ "super_admin" \notin RoleChanges
    /\ "active" \notin StatusChanges

\* Whoever is an active super_admin was one when a request loaded the row.
LoadedIsCurrent ==
    \A p \in Processes :
        /\ pc[p] \in {"check", "lock", "count", "write", "commit"}
        /\ req[p].kind \in {"roles", "status"}
        => /\ status[req[p].target] # "none"
           /\ ActiveSuper(req[p].target) => SawOffice(req[p])

LEMMA LoadedFrame ==
    ASSUME NEW r \in RequestRecords
    PROVE  LET l == Loaded(r) IN
           /\ l.kind = r.kind /\ l.target = r.target
           /\ l.grade = grade[r.target] /\ l.status = status[r.target]
BY DEF Loaded, RequestRecords

\* What a step of p leaves of its own request once the row is loaded.
LEMMA OwnLoaded ==
    ASSUME TypeOK, RequestsFit, LoadedIsCurrent, NEW p \in Processes,
           Authorize(p) \/ Step(p) \/ Abort(p), ~Commit(p),
           pc'[p] \in {"check", "lock", "count", "write", "commit"},
           req'[p].kind \in {"roles", "status"}
    PROVE  /\ status[req'[p].target] # "none"
           /\ ActiveSuper(req'[p].target) => SawOffice(req'[p])
<1>1. req[p] \in RequestRecords
  BY DEF TypeOK
<1>2. CASE Load(p)
  <2>1. ~Reject(p)
    BY RejectFrame DEF TypeOK
  <2>2. /\ req'[p] = Loaded(req[p])
        /\ req[p].kind \in {"roles", "status"} => status[req[p].target] # "none"
    BY <1>2, <2>1 DEF Load, TypeOK
  <2> QED
    BY <1>1, <2>2, LoadedFrame DEF ActiveSuper, SawOffice
<1>3. CASE AcquireLock(p)
  <2>1. req'[p] = [req[p] EXCEPT !.locked = TRUE] /\ pc[p] = "lock"
    BY <1>3 DEF AcquireLock, TypeOK, At
  <2>2. /\ req'[p].kind = req[p].kind /\ req'[p].target = req[p].target
        /\ req'[p].grade = req[p].grade /\ req'[p].status = req[p].status
    BY <1>1, <2>1 DEF RequestRecords
  <2> QED
    BY <2>1, <2>2 DEF LoadedIsCurrent, SawOffice
<1>4. CASE ~Load(p) /\ ~AcquireLock(p)
  <2>1. req'[p] = req[p] /\ pc[p] \in {"check", "count", "write"}
    <3>1. ~(pc[p] = "load" /\ pc'[p] = "check")
      <4>1. pc[p] = "load" => Abort(p)
        BY <1>4 DEF Authorize, Step, Check, Count, Write, Commit, AcquireLock, At
      <4> QED
        BY <4>1, RejectFrame DEF Abort, TypeOK
    <3> QED
      BY <1>4, <3>1, OwnStep
  <2> QED
    BY <2>1 DEF LoadedIsCurrent
<1> QED
  BY <1>2, <1>3, <1>4

\* A commit makes nobody with a row an active super_admin and deletes no row.
LEMMA CommitOnlyLowers ==
    ASSUME NoPromotions, TypeOK, RequestsFit, InsertsAreNew, LoadedIsCurrent,
           NEW p \in Processes, Commit(p), NEW m \in Members, status[m] # "none"
    PROVE  status'[m] # "none" /\ (ActiveSuper(m)' => ActiveSuper(m))
<1>1. CASE m # req[p].target
  BY <1>1, CommitRow DEF ActiveSuper
<1>2. CASE m = req[p].target
  <2>1. /\ req[p].kind \in {"roles", "status", "create"}
        /\ req[p].next \in Asked(req[p].kind)
        /\ req[p].kind = "create" => req[p].status = "none"
    BY DEF NoPromotions, RequestsFit, Commit, At
  <2>2. grade'[m] = NewGrade(p) /\ status'[m] = NewStatus(p)
    BY <1>2, CommitRow
  <2>3. req[p].kind # "create"
    BY <1>2, <2>1 DEF InsertsAreNew, Inserts, Commit
  <2>4. CASE req[p].kind = "roles"
    <3>1. req[p].next # "super_admin"
      BY <2>1, <2>4 DEF NoPromotions, Asked
    <3>2. NewGrade(p) = req[p].next
      BY <2>4 DEF NewGrade, Inserts
    <3>3. NewStatus(p) = status[m]
      BY <1>2, <2>4 DEF NewStatus
    <3> QED
      BY <2>2, <3>1, <3>2, <3>3 DEF ActiveSuper
  <2>5. CASE req[p].kind = "status"
    <3>1. req[p].next # "active" /\ req[p].next # "none"
      BY <2>1, <2>5, SuperAdminsAssumption DEF NoPromotions, Asked
    <3>2. NewStatus(p) = req[p].next
      BY <2>5 DEF NewStatus
    <3> QED
      BY <2>2, <3>1, <3>2 DEF ActiveSuper
  <2> QED
    BY <2>1, <2>3, <2>4, <2>5
<1> QED
  BY <1>1, <1>2

LEMMA LoadedStep ==
    ASSUME NoPromotions, SuperAdminInv, LoadedIsCurrent, ~blind, [Next]_vars
    PROVE  LoadedIsCurrent' /\ ~blind'
<1> USE DEF SuperAdminInv
<1>1. CASE UNCHANGED vars
  BY <1>1 DEF vars, LoadedIsCurrent, ActiveSuper
<1>2. ASSUME NEW p \in Processes, Authorize(p) \/ Step(p) \/ Abort(p)
      PROVE  LoadedIsCurrent' /\ ~blind'
  <2>1. \A q \in Processes \ {p} : pc'[q] = pc[q] /\ req'[q] = req[q]
    BY <1>2, Frame
  <2>2. CASE ~Commit(p)
    <3>1. UNCHANGED <<grade, status, blind>>
      BY <1>2, <2>2, Frame
    <3>2. ASSUME NEW q \in Processes,
                 pc'[q] \in {"check", "lock", "count", "write", "commit"},
                 req'[q].kind \in {"roles", "status"}
          PROVE  /\ status[req'[q].target] # "none"
                 /\ ActiveSuper(req'[q].target) => SawOffice(req'[q])
      <4>1. CASE q = p
        BY <1>2, <2>2, <3>2, <4>1, OwnLoaded
      <4>2. CASE q # p
        BY <2>1, <3>2, <4>2 DEF LoadedIsCurrent
      <4> QED
        BY <4>1, <4>2
    <3> QED
      BY <3>1, <3>2 DEF LoadedIsCurrent, ActiveSuper, SawOffice
  <2>3. CASE Commit(p)
    <3>1. pc'[p] = "idle"
      BY <2>3 DEF Commit, Leave, Goto, TypeOK
    <3>2. ASSUME NEW q \in Processes \ {p},
                 pc[q] \in {"check", "lock", "count", "write", "commit"},
                 req[q].kind \in {"roles", "status"}
          PROVE  /\ status'[req[q].target] # "none"
                 /\ ActiveSuper(req[q].target)' => SawOffice(req'[q])
      <4>1. req[q].target \in Members
        BY <3>2 DEF RequestsFit, At
      <4>2. /\ status[req[q].target] # "none"
            /\ ActiveSuper(req[q].target) => SawOffice(req[q])
        BY <3>2 DEF LoadedIsCurrent
      <4>3. \A m \in Members : status[m] # "none" =>
                status'[m] # "none" /\ (ActiveSuper(m)' => ActiveSuper(m))
        BY <2>3, CommitOnlyLowers
      <4> QED
        BY <2>1, <4>1, <4>2, <4>3 DEF ActiveSuper
    <3>3. LoadedIsCurrent'
      BY <2>1, <3>1, <3>2 DEF LoadedIsCurrent, ActiveSuper
    <3>4. ~blind'
      BY <2>3 DEF Commit, LoadedIsCurrent, Removes, At
    <3> QED
      BY <3>3, <3>4
  <2> QED
    BY <2>2, <2>3
<1> QED
  BY <1>1, <1>2 DEF Next

\* Demotions, deactivations and direct creations alone, however many race,
\* always leave an active super_admin (the advisory lock of
\* count_active_members_with_role).
THEOREM SuperAdminRemainsWithoutPromotions ==
    ASSUME NoPromotions
    PROVE  Spec => []SuperAdminRemains
<1>1. Init => LoadedIsCurrent /\ ~blind
  BY DEF Init, LoadedIsCurrent
<1>2. SuperAdminInv /\ LoadedIsCurrent /\ ~blind /\ [Next]_vars
          => LoadedIsCurrent' /\ ~blind'
  BY LoadedStep
<1>3. SuperAdminInv /\ ~blind => SuperAdminRemains
  BY DEF SuperAdminInv, GuardedRemains
<1> QED
  BY <1>1, <1>2, <1>3, SuperAdminInvariant, PTL DEF Spec

-----------------------------------------------------------------------------
(* Waiting *)

\* Request p cannot go on before q has ended: for the advisory lock, or for the row that
\* q has written.
Awaits(p, q) ==
    \/ At(p, "lock") /\ q # p /\ req[q].locked
    \/ At(p, "write") /\ At(q, "commit") /\ req[q].target = req[p].target

\* The advisory lock is held only on the way from the count to the commit.
LockedOnTheWay ==
    \A p \in Processes : req[p].locked => pc[p] \in {"count", "write", "commit"}

LEMMA OnTheWayStep ==
    ASSUME TypeOK, LockedOnTheWay, [Next]_vars
    PROVE  LockedOnTheWay'
<1>1. CASE UNCHANGED vars
  BY <1>1 DEF vars, LockedOnTheWay
<1>2. ASSUME NEW p \in Processes, Authorize(p) \/ Step(p) \/ Abort(p)
      PROVE  LockedOnTheWay'
  <2>1. \A q \in Processes \ {p} : pc'[q] = pc[q] /\ req'[q] = req[q]
    BY <1>2, Frame
  <2>2. req'[p].locked => pc'[p] \in {"count", "write", "commit"}
    <3>1. CASE pc[p] = "lock" /\ AcquireLock(p)
      BY <3>1 DEF AcquireLock, Goto, TypeOK
    <3>2. CASE ~(pc[p] = "lock" /\ AcquireLock(p))
      BY <1>2, <3>2, OwnStep, IdleRequest DEF LockedOnTheWay
    <3> QED
      BY <3>1, <3>2
  <2> QED
    BY <2>1, <2>2 DEF LockedOnTheWay
<1> QED
  BY <1>1, <1>2 DEF Next

\* No deadlock: who waits for the advisory lock waits at most for a request that itself
\* waits for a row, and who holds a row waits for nobody, whatever requests race
\* (update_member_roles and update_member_profile_admin take the advisory lock before they
\* write a row).
THEOREM WaitsAreShort ==
    Spec => [](\A p, q, r, s \in Processes : Awaits(p, q) /\ Awaits(q, r) => ~Awaits(r, s))
<1>1. Init => LockedOnTheWay
  BY IdleRequest DEF Init, LockedOnTheWay
<1>2. SuperAdminInv /\ LockedOnTheWay /\ [Next]_vars => LockedOnTheWay'
  BY OnTheWayStep DEF SuperAdminInv
<1>3. LockedOnTheWay
      => \A p, q, r, s \in Processes : Awaits(p, q) /\ Awaits(q, r) => ~Awaits(r, s)
  BY DEF LockedOnTheWay, Awaits, At
<1> QED
  BY <1>1, <1>2, <1>3, SuperAdminInvariant, PTL DEF Spec
=============================================================================
