---------------------------- MODULE SuperAdmins ----------------------------
(***************************************************************************)
(* Who is an active super_admin. Four kinds of requests write the role and *)
(* status of a member; the two that can take the grade away count the      *)
(* remaining super_admins under an advisory lock, but decide whether to    *)
(* count from a row they read before they had the lock.                    *)
(***************************************************************************)
EXTENDS Integers, FiniteSets

CONSTANTS
    Members,
    Processes,      \* sessions serving an administrator's request
    Kinds,          \* the kinds of requests administrators send
    RoleChanges,    \* the grades PATCH /roles may assign
    StatusChanges,  \* the statuses PATCH /{member_id} may set
    None            \* no member

Grades   == {"member", "admin", "super_admin"}
\* "suspended" stands for pending, suspended and rejected: the code only asks
\* whether a member is active. "none": no row.
Statuses == {"none", "active", "suspended"}

ASSUME SuperAdminsAssumption ==
    /\ IsFiniteSet(Members)
    /\ Kinds \subseteq {"roles", "status", "create", "approve"}
    /\ RoleChanges \subseteq Grades
    /\ StatusChanges \subseteq Statuses \ {"none"}
    /\ None \notin Members

VARIABLES
    grade,      \* grade[m]: the highest role token of member m
    status,     \* status[m]: members.status
    pc,         \* pc[p]: the next step of process p
    req,        \* req[p]: its request, what it read of the target, its lock
    blind       \* ghost: a request has removed an active super_admin that it
                \* had not loaded as one

table == <<grade, status>>
vars  == <<grade, status, pc, req, blind>>

Steps == {"idle", "load", "check", "lock", "count", "write", "commit"}

RequestRecords ==
    [kind   : Kinds \cup {"none"},
     target : Members \cup {None},
     own    : BOOLEAN,              \* the actor is the target
     next   : Grades \cup Statuses, \* the grade or status asked for
     grade  : Grades,               \* the target as loaded
     status : Statuses,
     locked : BOOLEAN]              \* holds the advisory lock

NoRequest == [kind |-> "none", target |-> None, own |-> FALSE, next |-> "member",
              grade |-> "member", status |-> "none", locked |-> FALSE]

\* A member holds the office if the count of the guard includes it.
ActiveSuper(m) == grade[m] = "super_admin" /\ status[m] = "active"
ActiveSupers   == {m \in Members : ActiveSuper(m)}

\* The production seed leaves one active super_admin behind.
Init ==
    /\ grade \in [Members -> Grades]
    /\ status \in [Members -> Statuses]
    /\ \A m \in Members : status[m] = "none" => grade[m] = "member"
    /\ ActiveSupers # {}
    /\ pc = [p \in Processes |-> "idle"]
    /\ req = [p \in Processes |-> NoRequest]
    /\ blind = FALSE

-----------------------------------------------------------------------------
(* Helpers *)

At(p, step)   == pc[p] = step
Goto(p, step) == pc' = [pc EXCEPT ![p] = step]

\* The row is locked from an UPDATE or INSERT to its commit.
RowLocked(m) == \E p \in Processes : At(p, "commit") /\ req[p].target = m

\* Mutant: the lock belongs to the connection and stays when the request ends.
Leave_KeepsLock(p) ==
    /\ Goto(p, "idle")
    /\ req' = [req EXCEPT ![p] = [NoRequest EXCEPT !.locked = req[p].locked]]

\* The request ends; closing the session ends its transaction and with it the
\* advisory lock.
Leave(p) ==
    /\ Goto(p, "idle")
    /\ req' = [req EXCEPT ![p] = NoRequest]

Reject(p) == Leave(p) /\ UNCHANGED <<table, blind>>

\* The target had no row: the request adds a member.
Inserts(r) == r.kind \in {"create", "approve"} /\ r.status = "none"

\* Mutant: the value asked for is stored as the role whatever the request.
NewGrade_Swapped(p) == req[p].next

\* The request as a change of the target's row.
NewGrade(p)  == CASE req[p].kind \in {"roles", "create"} -> req[p].next
                  [] Inserts(req[p])                     -> "member"
                  [] OTHER                               -> grade[req[p].target]
NewStatus(p) == CASE req[p].kind = "roles"  -> status[req[p].target]
                  [] req[p].kind = "status" -> req[p].next
                  [] OTHER                  -> "active"

\* Asks for a change that takes the grade or the activity away.
Removes(r) ==
    \/ r.kind = "roles"  /\ r.next # "super_admin"
    \/ r.kind = "status" /\ r.next # "active"

\* The request loaded its target as an active super_admin.
SawOffice(r) == r.grade = "super_admin" /\ r.status = "active"

-----------------------------------------------------------------------------
(* update_member_roles, update_member_profile_admin, create_member_direct  *)
(* and approve_signup_request                                              *)

Asked(kind) == CASE kind = "roles"   -> RoleChanges
                 [] kind = "create"  -> Grades
                 [] kind = "status"  -> StatusChanges
                 [] kind = "approve" -> {"active"}

NewRequest(p, kind, actor, target, next) ==
    [kind |-> kind, target |-> target, own |-> (actor = target), next |-> next,
     grade |-> "member", status |-> "none", locked |-> req[p].locked]

\* require_super_admin refreshes the session from the database; approving a
\* signup takes a permission that administrators hold. Nothing is locked.
Authorize(p) ==
    /\ At(p, "idle")
    /\ \E kind \in Kinds, a, t \in Members : \E next \in Asked(kind) :
           /\ status[a] = "active"
           /\ \/ grade[a] = "super_admin"
              \/ kind = "approve" /\ grade[a] = "admin"
           /\ req' = [req EXCEPT ![p] = NewRequest(p, kind, a, t, next)]
    /\ Goto(p, "load")
    /\ UNCHANGED <<table, blind>>

Loaded(r) == [r EXCEPT !.grade = grade[r.target], !.status = status[r.target]]

\* The target's row, or 404 for a change and 409 for a creation.
Load(p) ==
    /\ At(p, "load")
    /\ LET r == req[p] IN
       IF \/ r.kind \in {"roles", "status"} /\ status[r.target] = "none"
          \/ r.kind = "create"  /\ status[r.target] # "none"
          \/ r.kind = "approve" /\ status[r.target] = "active"
       THEN Reject(p)
       ELSE /\ req' = [req EXCEPT ![p] = Loaded(r)]
            /\ Goto(p, "check")
            /\ UNCHANGED <<table, blind>>

\* Mutant: the guard of the status change is missing.
Counts_RolesOnly(r) == r.kind = "roles" /\ Removes(r) /\ r.grade = "super_admin"

\* Whether the last super_admin must be looked after, by the row as loaded.
Counts(r) ==
    /\ Removes(r)
    /\ r.grade = "super_admin"
    /\ r.kind = "status" => r.status = "active"

Check(p) ==
    /\ At(p, "check")
    /\ LET r == req[p] IN
       IF r.kind = "roles" /\ r.own /\ r.grade = "super_admin" /\ Removes(r)
       THEN Reject(p)
       ELSE /\ Goto(p, IF Counts(r) THEN "lock" ELSE "write")
            /\ UNCHANGED <<table, req, blind>>

\* pg_advisory_xact_lock waits for the transaction that has it.
AcquireLock(p) ==
    /\ At(p, "lock")
    /\ \A q \in Processes \ {p} : ~req[q].locked
    /\ req' = [req EXCEPT ![p].locked = TRUE]
    /\ Goto(p, "count")
    /\ UNCHANGED <<table, blind>>

\* Mutant: the lock lasts for the counting statement only.
Count_Unlocks(p) ==
    /\ At(p, "count")
    /\ IF Cardinality(ActiveSupers) <= 1 THEN Reject(p)
       ELSE /\ Goto(p, "write")
            /\ req' = [req EXCEPT ![p].locked = FALSE]
            /\ UNCHANGED <<table, blind>>

\* The count is a statement of its own and sees what is committed.
Count(p) ==
    /\ At(p, "count")
    /\ IF Cardinality(ActiveSupers) <= 1 THEN Reject(p)
       ELSE Goto(p, "write") /\ UNCHANGED <<table, req, blind>>

\* The row already has the value asked for; the ORM then sends nothing. Two
\* role lists of one grade, or two inactive statuses, may differ.
MayKeep(r) ==
    \/ r.kind = "roles"  /\ r.next = r.grade
    \/ r.kind = "status" /\ r.next = r.status
MustKeep(r) == r.kind = "status" /\ r.next = "active" /\ r.status = "active"

\* The flush: UPDATE or INSERT, waiting for whoever has written the row. A
\* student ID is unique, so an insert fails when another has been committed.
Write(p) ==
    /\ At(p, "write")
    /\ LET r == req[p] IN
       \/ MayKeep(r) /\ Reject(p)
       \/ /\ ~MustKeep(r)
          /\ ~RowLocked(r.target)
          /\ Inserts(r) => status[r.target] = "none"
          /\ Goto(p, "commit")
          /\ UNCHANGED <<table, req, blind>>
       \/ /\ Inserts(r) /\ status[r.target] # "none"
          /\ Reject(p)

\* The row becomes visible; the row lock and the advisory lock end.
Commit(p) ==
    /\ At(p, "commit")
    /\ grade'  = [grade  EXCEPT ![req[p].target] = NewGrade(p)]
    /\ status' = [status EXCEPT ![req[p].target] = NewStatus(p)]
    /\ blind' = \/ blind
                \/ /\ Removes(req[p]) /\ ~SawOffice(req[p])
                   /\ ActiveSuper(req[p].target)
    /\ Leave(p)

\* A conflict on email or phone, a database error or a closed connection.
Abort(p) == ~At(p, "idle") /\ Reject(p)

-----------------------------------------------------------------------------
(* Specification *)

Step(p) ==
    \/ Load(p) \/ Check(p) \/ AcquireLock(p) \/ Count(p) \/ Write(p) \/ Commit(p)

Next == \E p \in Processes : Authorize(p) \/ Step(p) \/ Abort(p)

Spec == Init /\ [][Next]_vars

\* A request awaits nothing but the database, which grants a lock in the order
\* it was asked for.
FairSpec == Spec /\ \A p \in Processes : SF_vars(Step(p))

-----------------------------------------------------------------------------
(* Properties *)

\* Every variable keeps its type.
TypeOK ==
    /\ grade \in [Members -> Grades]
    /\ status \in [Members -> Statuses]
    /\ pc \in [Processes -> Steps]
    /\ req \in [Processes -> RequestRecords]
    /\ blind \in BOOLEAN

\* The last active super_admin is never removed, by demotion or by status
\* (docs/architecture.md:86). Requests that read the row before the lock break
\* it.
SuperAdminRemains == ActiveSupers # {}

\* What the guard does achieve: whatever requests race, the last super_admin is
\* lost only after some request removed one that it had not loaded as one, so
\* that the guard let it pass (_ensure_not_deactivating_last_super_admin and
\* update_member_roles return or skip before they count).
GuardedRemains == blind \/ SuperAdminRemains

\* No two transactions hold the advisory lock.
LockExclusive ==
    \A p, q \in Processes : req[p].locked /\ req[q].locked => p = q

\* No two transactions have written one row.
RowExclusive ==
    \A p, q \in Processes :
        At(p, "commit") /\ At(q, "commit") /\ req[p].target = req[q].target => p = q

\* While a request counts it holds the lock.
CountsLocked == \A p \in Processes : At(p, "count") => req[p].locked

\* A request whose target is to be looked after keeps the lock from the count
\* to its commit, and while it does another super_admin is left.
CountStillHolds ==
    \A p \in Processes :
        (At(p, "write") \/ At(p, "commit")) /\ Counts(req[p]) =>
            /\ req[p].locked
            /\ blind \/ ActiveSupers \ {req[p].target} # {}

\* A request that inserts has a target without a row when it commits.
InsertsAreNew ==
    \A p \in Processes :
        At(p, "commit") /\ Inserts(req[p]) => status[req[p].target] = "none"

\* A request under way has a kind and a target, and asks for what that kind may
\* set.
RequestsFit ==
    \A p \in Processes :
        ~At(p, "idle") => /\ req[p].kind \in Kinds
                          /\ req[p].target \in Members
                          /\ req[p].next \in Asked(req[p].kind)
                          /\ req[p].kind = "create" => req[p].status = "none"

\* The inductive invariant: the locks of the advisory lock and of the rows do
\* what they are for, and a count stays valid until its commit.
SuperAdminInv ==
    /\ TypeOK
    /\ LockExclusive
    /\ RowExclusive
    /\ RequestsFit
    /\ InsertsAreNew
    /\ CountsLocked
    /\ CountStillHolds
    /\ GuardedRemains

\* Every request ends: the advisory lock and the row locks are taken in an
\* order that admits no deadlock, and no request leaves a lock behind.
RequestsEnd == \A p \in Processes : ~At(p, "idle") ~> At(p, "idle")
=============================================================================
