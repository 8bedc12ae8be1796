--------------------------- MODULE ProfileChanges ---------------------------
(***************************************************************************)
(* The change of a member's name or cohort: the member asks on the profile *)
(* page, an administrator approves or rejects, and the server reads a      *)
(* request without a lock and writes it, with the member's row, later.     *)
(* The administrators' own form for a member writes the same two fields.   *)
(***************************************************************************)
EXTENDS Naturals, FiniteSets

CONSTANTS Keys,      \* the fields: name and cohort
          NoKey,
          MaxAsks,   \* bound: requests stored
          MaxPosts   \* bound: calls of the member and of the administrators

ChangesAssumption == NoKey \notin Keys /\ MaxAsks \in Nat /\ MaxPosts \in Nat

VARIABLES
  current,  \* the member's row: the request each value came from, 0 at the start, or Direct
  asks,     \* the requests stored, by number; history: whether two calls on it overlapped
  posts,    \* the calls on their way
  section,  \* the member's section: the fields seen as pending, the form that is open
  review    \* the administrators' page: the cached requests, the panel that rejects;
            \* calls used

changeVars == <<current, asks, posts, section, review>>

Ids  == 1..MaxAsks

\* The mark of a value that came without a request: above every request.
Direct == MaxAsks + 1

Used == {i \in Ids : asks[i].status # "none"}

PendingOf(k) == {i \in Ids : asks[i].key = k /\ asks[i].status = "pending"}
pendingFields == {k \in Keys : PendingOf(k) # {}}
statuses == [i \in Ids |-> asks[i].status]

MaySend == review.posts < MaxPosts
Counted == [review EXCEPT !.posts = @ + 1]

Post(kind, k, i) == [kind |-> kind, key |-> k, id |-> i, open |-> kind = "create", stage |-> "sent"]
Moved(p, stage)  == (posts \ {p}) \cup {[p EXCEPT !.stage = stage]}

isPending(kind) == \E p \in posts : p.kind = kind

----------------------------------------------------------------------------
Init ==
  /\ current = [k \in Keys |-> 0]
  /\ asks = [i \in Ids |-> [key |-> NoKey, status |-> "none", overlapped |-> FALSE]]
  /\ posts = {}
  /\ section = [pending |-> {}, editing |-> NoKey]
  /\ review = [data |-> statuses, target |-> 0, posts |-> 0]

\* -- the member's section -------------------------------------------------

\* The query of the member's requests: at the mount, after a request, when stale.
MyListAnswered ==
  /\ section.pending # pendingFields
  /\ section' = [section EXCEPT !.pending = pendingFields]
  /\ UNCHANGED <<current, asks, posts, review>>

\* A form that is closed leaves its request on the way.
Unmounted == {[p EXCEPT !.open = FALSE] : p \in posts}

\* The button of the other field stays enabled: one form takes the place of another.
OpenForm(k) ==
  /\ section.editing # k /\ k \notin section.pending
  /\ section' = [section EXCEPT !.editing = k] /\ posts' = Unmounted
  /\ UNCHANGED <<current, asks, review>>

\* The form can be closed, and opened anew, while its request is on its way; a form whose
\* field is seen as pending has no buttons.
CloseForm ==
  /\ section.editing \notin {NoKey} \cup section.pending
  /\ section' = [section EXCEPT !.editing = NoKey] /\ posts' = Unmounted
  /\ UNCHANGED <<current, asks, review>>

\* The form that is open has sent its request.
Asking == \E p \in posts : p.open

Ask ==
  /\ section.editing \notin {NoKey} \cup section.pending /\ ~Asking /\ MaySend
  /\ posts' = posts \cup {Post("create", section.editing, 0)}
  /\ review' = Counted
  /\ UNCHANGED <<current, asks, section>>

\* onSuccess closes the form that is open, also that of the other field.
AskAnswered(p) ==
  /\ p.kind = "create" /\ p.stage = "served"
  /\ posts' = {[q EXCEPT !.open = FALSE] : q \in posts \ {p}}
  /\ section' = [section EXCEPT !.editing = NoKey]
  /\ UNCHANGED <<current, asks, review>>

\* -- the server -----------------------------------------------------------

\* The handler reads: no request of the field is pending, or this one is.
Reads(p) ==
  /\ p.stage = "sent"
  /\ posts' = Moved(p, IF p.kind = "create"
                       THEN IF PendingOf(p.key) = {} THEN "read" ELSE "refused"
                       ELSE IF asks[p.id].status = "pending" THEN "read" ELSE "refused")
  /\ UNCHANGED <<current, asks, section, review>>

\* Mutant: no index keeps a second pending request out.
Stores_NoIndex(p) ==
  /\ p.kind = "create" /\ p.stage = "read" /\ Used # Ids
  /\ posts' = Moved(p, "served")
  /\ asks' = [asks EXCEPT ![Cardinality(Used) + 1] =
                [key |-> p.key, status |-> "pending", overlapped |-> FALSE]]
  /\ UNCHANGED <<current, section, review>>

\* The unique index on the pending request of a field refuses a second one.
Stores(p) ==
  /\ p.kind = "create" /\ p.stage = "read"
  /\ IF PendingOf(p.key) # {} \/ Used = Ids
     THEN posts' = Moved(p, "refused") /\ UNCHANGED asks
     ELSE /\ posts' = Moved(p, "served")
          /\ asks' = [asks EXCEPT ![Cardinality(Used) + 1] =
                        [key |-> p.key, status |-> "pending", overlapped |-> FALSE]]
  /\ UNCHANGED <<current, section, review>>

\* The status, and the member's field if approved, in one commit, whatever the status
\* has become since it was read.
Decided(p) ==
  [asks[p.id] EXCEPT !.status = IF p.kind = "approve" THEN "approved" ELSE "rejected",
     !.overlapped = @ \/ \E q \in posts \ {p} : q.id = p.id /\ q.stage = "read"]

Decides(p) ==
  /\ p.kind # "create" /\ p.stage = "read"
  /\ posts' = Moved(p, "served")
  /\ asks' = [asks EXCEPT ![p.id] = Decided(p)]
  /\ current' = IF p.kind = "approve" THEN [current EXCEPT ![asks[p.id].key] = p.id] ELSE current
  /\ UNCHANGED <<section, review>>

\* A failure before the commit, or of the answer.
Fails(p) ==
  /\ p.stage # "refused"
  /\ posts' = Moved(p, "refused")
  /\ UNCHANGED <<current, asks, section, review>>

Refused(p) ==
  /\ p.stage = "refused"
  /\ posts' = posts \ {p}
  /\ UNCHANGED <<current, asks, section, review>>

\* PATCH /admin/members/{id}, or a renewed signup, writes the field whatever is asked for:
\* it reads no request, and leaves all of them as they are.
EditMember(k) ==
  /\ MaySend
  /\ current' = [current EXCEPT ![k] = Direct] /\ review' = Counted
  /\ UNCHANGED <<asks, posts, section>>

\* -- the administrators' page ---------------------------------------------

ListAnswered ==
  /\ review.data # statuses
  /\ review' = [review EXCEPT !.data = statuses]
  /\ UNCHANGED <<current, asks, posts, section>>

\* RowActions look at the cached row; only "approve" looks at its own mutation.
Approve(i) ==
  /\ review.data[i] = "pending" /\ ~isPending("approve") /\ MaySend
  /\ posts' = posts \cup {Post("approve", NoKey, i)}
  /\ review' = Counted
  /\ UNCHANGED <<current, asks, section>>

StartReject(i) ==
  /\ review.data[i] = "pending" /\ review.target # i
  /\ review' = [review EXCEPT !.target = i]
  /\ UNCHANGED <<current, asks, posts, section>>

CancelReject ==
  /\ review.target # 0
  /\ review' = [review EXCEPT !.target = 0]
  /\ UNCHANGED <<current, asks, posts, section>>

\* A reason is required; its text is not followed.
ConfirmReject ==
  /\ review.target # 0 /\ ~isPending("reject") /\ MaySend
  /\ posts' = posts \cup {Post("reject", NoKey, review.target)}
  /\ review' = Counted
  /\ UNCHANGED <<current, asks, section>>

\* A rejection closes the panel, also one opened for another row meanwhile.
DecisionAnswered(p) ==
  /\ p.kind # "create" /\ p.stage = "served"
  /\ posts' = posts \ {p}
  /\ review' = IF p.kind = "reject" THEN [review EXCEPT !.target = 0] ELSE review
  /\ UNCHANGED <<current, asks, section>>

Next ==
  \/ MyListAnswered \/ CloseForm \/ Ask
  \/ \E k \in Keys : OpenForm(k) \/ EditMember(k)
  \/ \E p \in posts :
       \/ Reads(p) \/ Stores(p) \/ Decides(p) \/ Fails(p) \/ Refused(p)
       \/ AskAnswered(p) \/ DecisionAnswered(p)
  \/ ListAnswered \/ CancelReject \/ ConfirmReject
  \/ \E i \in Used : Approve(i) \/ StartReject(i)

Spec == Init /\ [][Next]_changeVars

----------------------------------------------------------------------------
Statuses == {"none", "pending", "approved", "rejected"}
Records == [key : Keys \cup {NoKey}, overlapped : BOOLEAN, status : Statuses]
Stages   == {"sent", "read", "served", "refused"}
Creations == [kind : {"create"}, key : Keys, id : {0}, open : BOOLEAN, stage : Stages]
Decisions == [kind : {"approve", "reject"}, key : {NoKey}, id : Ids, open : BOOLEAN, stage : Stages]

TypeOK ==
  /\ current \in [Keys -> 0..Direct]
  /\ asks \in [Ids -> Records]
  /\ posts \subseteq Creations \cup Decisions
  /\ section \in [pending : SUBSET Keys, editing : Keys \cup {NoKey}]
  /\ review \in [data : [Ids -> Statuses], target : 0..MaxAsks, posts : 0..MaxPosts]

\* The name or cohort in effect is that of the last request that was approved, or was
\* written by an administrator since: a request that ends as rejected has changed nothing,
\* and an approval that comes late does not bring an older request back. The exception is
\* the value of one request whose own approval and rejection, both possible from one page,
\* overlapped at the server; it ends with the next approval or direct edit.
ApprovedIsInEffect ==
  \A k \in Keys :
    LET approved == {i \in Used : asks[i].key = k /\ asks[i].status = "approved"}
    IN  \/ current[k] \in Used /\ asks[current[k]].overlapped
        \/ current[k] \in approved \cup {0, Direct} /\ \A i \in approved : i <= current[k]
============================================================================
