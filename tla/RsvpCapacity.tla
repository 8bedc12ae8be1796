---------------------------- MODULE RsvpCapacity ----------------------------
(***************************************************************************)
(* The seats of one event. A request reads the event, the member's row and *)
(* the number of attendees, decides, and commits the row; a cancellation   *)
(* then promotes the top of the waitlist in a transaction of its own. The  *)
(* reads are separate statements at READ COMMITTED, so requests interleave *)
(* between any two of them.                                                *)
(***************************************************************************)
EXTENDS Integers, FiniteSets

CONSTANTS
    Members,
    Processes,    \* sessions serving an RSVP request
    Capacities,   \* the capacities an administrator may set
    Requests,     \* the statuses a request may ask for
    MaxTicket,    \* bound on the start times of transactions kept apart
    None          \* no member

RsvpParameters ==
    /\ Capacities \subseteq Nat
    /\ Requests \subseteq {"going", "waitlist", "cancel"}
    /\ MaxTicket \in Nat
    /\ None \notin Members

ASSUME RsvpAssumption == RsvpParameters

VARIABLES
    exists,       \* the event has not been deleted
    capacity,     \* events.capacity
    status,       \* status[m]: rsvps.status of member m, "none" without a row
    joined,       \* joined[m]: rsvps.created_at, 0 without a row
    pc,           \* pc[p]: the next step of process p
    req,          \* req[p]: its request and what it has read
    candidate     \* candidate[p]: the row it has locked for promotion

table == <<exists, capacity, status, joined>>
vars  == <<exists, capacity, status, joined, pc, req, candidate>>

Status == {"none", "going", "waitlist", "cancel"}

\* The steps of a request; "open" is the insert, "update" the update of a row.
Steps == {"idle", "event", "load", "count", "check", "insert", "update",
          "promote", "commit"}

RequestRecords ==
    [member  : Members \cup {None},
     wanted  : Status,
     create  : BOOLEAN,        \* POST /rsvps/, which refuses an existing row
     started : 0..MaxTicket,   \* when its transaction began
     limit   : Nat,            \* the capacity it read
     loaded  : Status,         \* the status of its row as it read it
     decided : Status]

NoRequest == [member |-> None, wanted |-> "none", create |-> FALSE, started |-> 0,
              limit |-> 0, loaded |-> "none", decided |-> "none"]

Init ==
    /\ exists = TRUE
    /\ capacity \in Capacities
    /\ status = [m \in Members |-> "none"]
    /\ joined = [m \in Members |-> 0]
    /\ pc = [p \in Processes |-> "idle"]
    /\ req = [p \in Processes |-> NoRequest]
    /\ candidate = [p \in Processes |-> None]

-----------------------------------------------------------------------------
(* Helpers *)

At(p, step)   == pc[p] = step
Goto(p, step) == pc' = [pc EXCEPT ![p] = step]

Going == {m \in Members : status[m] = "going"}

\* A row is locked from the moment a promotion selects it FOR UPDATE.
Locked(m) == \E p \in Processes : At(p, "commit") /\ candidate[p] = m

\* Mutant: a locked row is selected too.
Waiting_Locked == {m \in Members : status[m] = "waitlist"}

\* FOR UPDATE SKIP LOCKED: the waitlist without the rows being promoted.
Waiting == {m \in Members : status[m] = "waitlist" /\ ~Locked(m)}

\* The request ends and its session is closed.
Leave(p) ==
    /\ Goto(p, "idle")
    /\ req' = [req EXCEPT ![p] = NoRequest]
    /\ candidate' = [candidate EXCEPT ![p] = None]

Reject(p) == Leave(p) /\ UNCHANGED table

-----------------------------------------------------------------------------
(* upsert_rsvp_status and create_rsvp *)

\* The first statement of the request starts its transaction, whose start
\* time becomes created_at if it inserts a row.
Begin(p) ==
    /\ At(p, "idle")
    /\ \E m \in Members, wanted \in Requests, create \in BOOLEAN, t \in 1..MaxTicket :
           /\ \A o \in Members : joined[o] < t
           /\ \A q \in Processes : req[q].started < t
           /\ \/ t = 1
              \/ \E o \in Members : joined[o] = t - 1
              \/ \E q \in Processes : req[q].started = t - 1
           /\ req' = [req EXCEPT ![p] =
                         [member |-> m, wanted |-> wanted, create |-> create,
                          started |-> t, limit |-> 0, loaded |-> "none",
                          decided |-> "none"]]
    /\ Goto(p, "event")
    /\ UNCHANGED <<table, candidate>>

\* get_event, 404 for a deleted event. The create path does not look for a
\* row before it decides.
ReadEvent(p) ==
    /\ At(p, "event")
    /\ IF ~exists THEN Reject(p)
       ELSE /\ req' = [req EXCEPT ![p].limit = capacity]
            /\ Goto(p, IF req[p].create THEN "count" ELSE "load")
            /\ UNCHANGED <<table, candidate>>

LoadRow(p) ==
    /\ At(p, "load")
    /\ req' = [req EXCEPT ![p].loaded = status[req[p].member]]
    /\ Goto(p, "count")
    /\ UNCHANGED <<table, candidate>>

\* Mutants: one seat is kept free; one seat too many is given.
Normalize_Spare(wanted, loaded, going, limit) ==
    LET others == IF loaded = "going" THEN going - 1 ELSE going IN
    IF wanted = "going" /\ others + 1 >= limit THEN "waitlist" ELSE wanted
Normalize_OneOver(wanted, loaded, going, limit) ==
    LET others == IF loaded = "going" THEN going - 1 ELSE going IN
    IF wanted = "going" /\ others > limit THEN "waitlist" ELSE wanted

\* normalize_rsvp_status_for_capacity: an attendee's own seat is not counted.
Normalize(wanted, loaded, going, limit) ==
    LET others == IF loaded = "going" THEN going - 1 ELSE going IN
    IF wanted = "going" /\ others >= limit THEN "waitlist" ELSE wanted

Count(p) ==
    LET r == req[p] IN
    /\ At(p, "count")
    /\ req' = [req EXCEPT ![p].decided =
                  Normalize(r.wanted, r.loaded, Cardinality(Going), r.limit)]
    /\ Goto(p, IF r.loaded = "none" THEN "check" ELSE "update")
    /\ UNCHANGED <<table, candidate>>

\* The repository looks for the row once more: 409 if there is one.
Check(p) ==
    /\ At(p, "check")
    /\ IF status[req[p].member] # "none" THEN Reject(p)
       ELSE Goto(p, "insert") /\ UNCHANGED <<table, req, candidate>>

\* The primary key refuses a second row, the foreign key a deleted event.
Insert(p) ==
    LET m == req[p].member IN
    /\ At(p, "insert")
    /\ IF status[m] # "none" \/ ~exists THEN UNCHANGED <<status, joined>>
       ELSE /\ status' = [status EXCEPT ![m] = req[p].decided]
            /\ joined' = [joined EXCEPT ![m] = req[p].started]
    /\ Leave(p)
    /\ UNCHANGED <<exists, capacity>>

\* Mutant: the row is written unconditionally.
Writes_Always(r) == TRUE

\* The ORM writes the status only when it differs from the one it loaded.
Writes(r) == r.decided # r.loaded

\* Mutant: the promotion has not locked the row.
Update_NoWait(p) ==
    LET m == req[p].member IN
    /\ At(p, "update")
    /\ status[m] # "none"
    /\ status' = IF Writes(req[p]) THEN [status EXCEPT ![m] = req[p].decided]
                 ELSE status
    /\ IF req[p].decided = "cancel" THEN Goto(p, "promote") /\ UNCHANGED <<req, candidate>>
       ELSE Leave(p)
    /\ UNCHANGED <<exists, capacity, joined>>

\* Mutant: only a member who had a seat when the row was loaded passes it on.
Update_LoadedSeat(p) ==
    LET m == req[p].member IN
    /\ At(p, "update")
    /\ status[m] # "none"
    /\ Writes(req[p]) => ~Locked(m)
    /\ status' = IF Writes(req[p]) THEN [status EXCEPT ![m] = req[p].decided]
                 ELSE status
    /\ IF req[p].decided = "cancel" /\ req[p].loaded = "going"
       THEN Goto(p, "promote") /\ UNCHANGED <<req, candidate>>
       ELSE Leave(p)
    /\ UNCHANGED <<exists, capacity, joined>>

\* Committing the update. It waits for a promotion that has locked the row.
Update(p) ==
    LET m == req[p].member IN
    /\ At(p, "update")
    /\ status[m] # "none"
    /\ Writes(req[p]) => ~Locked(m)
    /\ status' = IF Writes(req[p]) THEN [status EXCEPT ![m] = req[p].decided]
                 ELSE status
    /\ IF req[p].decided = "cancel" THEN Goto(p, "promote") /\ UNCHANGED <<req, candidate>>
       ELSE Leave(p)
    /\ UNCHANGED <<exists, capacity, joined>>

\* The row went with its event: the update or the refresh after it raises.
UpdateFails(p) ==
    /\ At(p, "update")
    /\ status[req[p].member] = "none"
    /\ Reject(p)

-----------------------------------------------------------------------------
(* _promote_waitlist_candidate *)

\* The top of the waitlist, by created_at.
Oldest(m) == m \in Waiting /\ \A o \in Waiting : joined[m] <= joined[o]

\* Mutant: the check that somebody waits is dropped.
LockCandidate_Nobody(p) ==
    /\ At(p, "promote")
    /\ \E m \in Members \cup {None} :
           /\ Oldest(m) \/ (Waiting = {} /\ m = None)
           /\ candidate' = [candidate EXCEPT ![p] = m]
    /\ Goto(p, "commit")
    /\ UNCHANGED <<table, req>>

LockCandidate(p) ==
    /\ At(p, "promote")
    /\ \E m \in Members :
           /\ Oldest(m)
           /\ candidate' = [candidate EXCEPT ![p] = m]
    /\ Goto(p, "commit")
    /\ UNCHANGED <<table, req>>

NobodyWaits(p) ==
    /\ At(p, "promote")
    /\ Waiting = {}
    /\ Reject(p)

CommitPromotion(p) ==
    /\ At(p, "commit")
    /\ status' = [status EXCEPT ![candidate[p]] = "going"]
    /\ Leave(p)
    /\ UNCHANGED <<exists, capacity, joined>>

\* The request is cancelled, a statement fails or the process dies: what is
\* not committed is rolled back, and so are its locks.
Abort(p) ==
    /\ pc[p] # "idle"
    /\ Reject(p)

-----------------------------------------------------------------------------
(* Administration *)

UpdateEvent(c) ==
    /\ exists
    /\ capacity # c
    /\ capacity' = c
    /\ UNCHANGED <<exists, status, joined, pc, req, candidate>>

\* The rows go with the event; a locked row makes the deletion wait.
DeleteEvent ==
    /\ exists
    /\ \A m \in Members : ~Locked(m)
    /\ exists' = FALSE
    /\ status' = [m \in Members |-> "none"]
    /\ joined' = [m \in Members |-> 0]
    /\ UNCHANGED <<capacity, pc, req, candidate>>

Request(p) ==
    \/ Begin(p) \/ ReadEvent(p) \/ LoadRow(p) \/ Count(p) \/ Check(p)
    \/ Insert(p) \/ Update(p) \/ UpdateFails(p)

Promote(p) == LockCandidate(p) \/ NobodyWaits(p) \/ CommitPromotion(p)

Next ==
    \/ \E p \in Processes : Request(p) \/ Promote(p) \/ Abort(p)
    \/ \E c \in Capacities : UpdateEvent(c)
    \/ DeleteEvent

Spec == Init /\ [][Next]_vars

-----------------------------------------------------------------------------
(* Properties *)

\* Every variable keeps its type; a request past its first step has a member
\* and a promotion that is about to commit a candidate.
TypeOK ==
    /\ exists \in BOOLEAN
    /\ capacity \in Nat
    /\ status \in [Members -> Status]
    /\ joined \in [Members -> 0..MaxTicket]
    /\ pc \in [Processes -> Steps]
    /\ req \in [Processes -> RequestRecords]
    /\ candidate \in [Processes -> Members \cup {None}]
    /\ \A p \in Processes :
           /\ pc[p] # "idle" => req[p].member \in Members
           /\ pc[p] = "commit" => candidate[p] \in Members

\* Two cancellations never promote the same member, which would waste one of
\* the seats they freed (FOR UPDATE SKIP LOCKED).
NoDoublePromotion ==
    \A p, q \in Processes :
        At(p, "commit") /\ At(q, "commit") /\ candidate[p] = candidate[q] => p = q

\* While the event exists, a member's row is changed by requests for that
\* member only, or else from waitlist to going: nobody who has cancelled in
\* the meantime is put back on the list by somebody else's cancellation.
OthersOnlyPromote ==
    [][\A m \in Members :
          status'[m] # status[m] /\ exists'
          => \/ \E p \in Processes : (Insert(p) \/ Update(p)) /\ req[p].member = m
             \/ status[m] = "waitlist" /\ status'[m] = "going"]_vars

\* A member who was waiting when a repeated request for a seat loaded the row,
\* and was promoted before that request commits, keeps the seat
\* (upsert_rsvp_status writes nothing then).
PromotionSurvivesRequest ==
    [][\A p \in Processes :
          LET r == req[p] IN
          /\ Update(p) /\ r.wanted = "going" /\ r.loaded = "waitlist"
          /\ status[r.member] = "going"
          => status'[r.member] = "going"]_vars

\* With one request at a time and a fixed capacity, the seats taken or about
\* to be passed on by an attendee grow beyond the capacity only when a
\* promotion follows a cancellation that freed no seat
\* (normalize_rsvp_status_for_capacity, upsert_rsvp_status).
SeatsTaken ==
    Cardinality(Going)
    + Cardinality({p \in Processes : pc[p] \in {"promote", "commit"}
                                     /\ req[p].loaded = "going"})
SeatsAreAccounted ==
    [][SeatsTaken' > SeatsTaken /\ SeatsTaken' > capacity
       => \E p \in Processes : CommitPromotion(p) /\ req[p].loaded # "going"]_vars

\* With one request at a time, a fixed capacity and nobody asking for the
\* waitlist, a seat is left empty while members wait only by a request that
\* breaks off between its two commits.
Promoting == {p \in Processes : pc[p] \in {"promote", "commit"}}
SeatWasted ==
    /\ Cardinality(Going) + Cardinality(Promoting) < capacity
    /\ \E m \in Members : status[m] = "waitlist"
OnlyAbortWastesASeat ==
    [][~SeatWasted /\ SeatWasted' => \E p \in Processes : Abort(p)]_vars

\* However many requests cancel and promote at once: a seat that no promotion on
\* its way will fill is left over a row that waits and is not locked only when the
\* capacity is raised, a request breaks off, or a request writes "waitlist" on a
\* count from before the seat was free. A cancellation that freed a seat may find
\* the waiting rows locked by others (SKIP LOCKED), who then fill it.
SeatLeft ==
    /\ Cardinality(Going) + Cardinality(Promoting) < capacity
    /\ Waiting # {}
SeatsArePassedOn ==
    [][~SeatLeft /\ SeatLeft'
       => \/ capacity' > capacity
          \/ \E p \in Processes :
                 Abort(p) \/ ((Insert(p) \/ Update(p)) /\ req[p].decided = "waitlist")]_vars

-----------------------------------------------------------------------------
(* Documented properties the code does not have *)

\* docs/architecture.md:83: a request beyond the capacity is forced onto the
\* waitlist.
GoingWithinCapacity == Cardinality(Going) <= capacity

\* docs/architecture.md:83-85: the cancellation of an attendee promotes, so that the
\* promotion has the seat which it freed. Any other would at least need a free one.
PromotionsHaveASeat ==
    [][\A p \in Processes :
          CommitPromotion(p) => req[p].loaded = "going" \/ Cardinality(Going) < capacity]_vars

-----------------------------------------------------------------------------
(* The inductive invariant behind the properties of concurrent requests *)

\* What a promotion has locked cannot change until it commits.
LocksHoldWaiters ==
    \A p \in Processes : At(p, "commit") => status[candidate[p]] = "waitlist"

\* What a request is about to write is what it asked for, or the waitlist.
DecisionsFit ==
    \A p \in Processes :
        At(p, "update") => \/ req[p].decided = req[p].wanted
                           \/ req[p].wanted = "going" /\ req[p].decided = "waitlist"

RsvpInv == TypeOK /\ NoDoublePromotion /\ LocksHoldWaiters /\ DecisionsFit
=============================================================================
