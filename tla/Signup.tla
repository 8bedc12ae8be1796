------------------------------- MODULE Signup -------------------------------
(***************************************************************************)
(* The way of a student from the signup form to the first password: the    *)
(* public signup page, the administrators' page that approves, rejects and *)
(* reissues tokens, the page that activates with a token, and the server's *)
(* handlers, which read a request without a lock and commit later.         *)
(***************************************************************************)
EXTENDS Naturals, FiniteSets

CONSTANTS Students,  \* each applies at most once, and some have when the run starts (bound)
          NoStudent,
          MaxCalls   \* bound: calls of the administrators and of the students

SignupAssumption == NoStudent \notin Students /\ IsFiniteSet(Students) /\ MaxCalls \in Nat

VARIABLES
  request,  \* a student's request, member row and password at the server
  calls,    \* the calls on their way, each with how far the server has come
  desk,     \* the administrators' page: the cached list, the panel that rejects
  card,     \* the token last issued, the log shown with it, the logs being fetched
  visitor,  \* the page each student has open
  past      \* calls used; history: students two of whose calls overlapped

signupVars == <<request, calls, desk, card, visitor, past>>

Statuses == {"none", "pending", "approved", "rejected", "activated"}
Lists    == [Students -> Statuses]

statusOf == [s \in Students |-> request[s].status]

\* What a visitor sees: the form, its receipt, the page of the link, the welcome.
VisitorPages == {"signup", "waiting", "activate", "completed"}

MayCall == past.used < MaxCalls
Used(p) == [p EXCEPT !.used = @ + 1]

Call(kind, s, by) == [kind |-> kind, student |-> s, by |-> by, stage |-> "sent", saw |-> "none"]

\* The mutation of the kind is pending on the administrators' page.
isPending(kind) == \E c \in calls : c.by = "desk" /\ c.kind = kind

----------------------------------------------------------------------------
Init ==
  /\ request \in [Students -> [status : {"none", "pending"}, member : {"none"}, password : {0}]]
  /\ calls = {}
  /\ desk = [data |-> [s \in Students |-> "none"], target |-> NoStudent]
  /\ card = [issued |-> NoStudent, logs |-> NoStudent, fetching |-> {}]
  /\ visitor = [s \in Students |-> [page |-> IF request[s].status = "none" THEN "signup" ELSE "waiting",
                                   feedback |-> "none"]]
  /\ past = [used |-> 0, overlapped |-> {}]

\* -- the public pages -----------------------------------------------------

\* The form with its button enabled.
FormShown(s) ==
  visitor[s].page = "signup" /\ ~\E c \in calls : c.kind = "create" /\ c.student = s

\* A form without a cohort or a phone number is kept back.
SubmitSignup(s) ==
  /\ FormShown(s) /\ MayCall
  /\ calls' = calls \cup {Call("create", s, "visitor")}
  /\ visitor' = [visitor EXCEPT ![s].feedback = "none"]
  /\ past' = Used(past)
  /\ UNCHANGED <<request, desk, card>>

\* The link of the token on the card, handed over by the administrator.
OpenActivation(s) ==
  /\ card.issued = s /\ visitor[s].page \in {"signup", "waiting"}
  /\ ~\E c \in calls : c.by = "visitor" /\ c.student = s
  /\ visitor' = [visitor EXCEPT ![s] = [page |-> "activate", feedback |-> "none"]]
  /\ UNCHANGED <<request, calls, desk, card, past>>

\* The page of a second window sends the token too.
SubmitActivation(s, by) ==
  /\ visitor[s].page = "activate" /\ MayCall
  /\ ~\E c \in calls : c.kind = "activate" /\ c.student = s /\ c.by = by
  /\ calls' = calls \cup {Call("activate", s, by)}
  /\ visitor' = [visitor EXCEPT ![s].feedback = "none"]
  /\ past' = Used(past)
  /\ UNCHANGED <<request, desk, card>>

\* Mutant: whatever the error, the student is told to log in.
activationErrorFeedback_Login(c) == "login"

\* The error that offers what to do next: to log in, or to ask the office.
activationErrorFeedback(c) == IF c.saw = "activated" THEN "login" ELSE "contact"

\* The panel "the office is checking", or an error above the form.
SignupAnswered(c) ==
  /\ c.kind = "create" /\ c.stage \in {"served", "refused"}
  /\ calls' = calls \ {c}
  /\ visitor' = [visitor EXCEPT ![c.student] =
        IF c.stage = "served" THEN [page |-> "waiting", feedback |-> "none"]
        ELSE [@ EXCEPT !.feedback = "error"]]
  /\ UNCHANGED <<request, desk, card, past>>

\* After the activation the page asks who is logged in; if that fails it shows an
\* error as if the activation had.
ActivationAnswered(c) ==
  /\ c.kind = "activate" /\ c.by = "visitor" /\ c.stage \in {"served", "refused"}
  /\ calls' = calls \ {c}
  /\ \/ /\ c.stage = "served"
        /\ visitor' = [visitor EXCEPT ![c.student] = [page |-> "completed", feedback |-> "none"]]
     \/ visitor' = [visitor EXCEPT ![c.student].feedback =
                      IF c.stage = "served" THEN "contact" ELSE activationErrorFeedback(c)]
  /\ UNCHANGED <<request, desk, card, past>>

\* The other window and the other administrator are not followed further.
ForgetAnswer(c) ==
  /\ c.by = "other" /\ c.stage \in {"served", "refused"}
  /\ calls' = calls \ {c}
  /\ UNCHANGED <<request, desk, card, visitor, past>>

\* -- the server -----------------------------------------------------------

\* Mutant: a request that was decided can be rejected.
Serves_DecidedToo(c) ==
  LET r == request[c.student]
  IN  CASE c.kind = "create"   -> r.member # "active" /\ r.status = "none"
        [] c.kind = "approve"  -> r.status = "pending" /\ r.member # "active"
        [] c.kind = "reject"   -> r.status # "none"
        [] c.kind = "reissue"  -> r.status = "approved"
        [] c.kind = "activate" -> r.status = "approved" /\ r.member = "active"

\* Mutant: a used token is taken again.
Serves_UsedToken(c) ==
  LET r == request[c.student]
  IN  CASE c.kind = "create"   -> r.member # "active" /\ r.status = "none"
        [] c.kind = "approve"  -> r.status = "pending" /\ r.member # "active"
        [] c.kind = "reject"   -> r.status = "pending"
        [] c.kind = "reissue"  -> r.status = "approved"
        [] c.kind = "activate" -> r.status \in {"approved", "activated"} /\ r.member = "active"

Serves(c) ==
  LET r == request[c.student]
  IN  CASE c.kind = "create"   -> r.member # "active" /\ r.status = "none"
        [] c.kind = "approve"  -> r.status = "pending" /\ r.member # "active"
        [] c.kind = "reject"   -> r.status = "pending"
        [] c.kind = "reissue"  -> r.status = "approved"
        [] c.kind = "activate" -> r.status = "approved" /\ r.member = "active"

\* A second application, after a rejection, is not followed (bound): it can only fail.
ReadRow(c) ==
  /\ c.stage = "sent"
  /\ c.kind = "create" => request[c.student].status # "rejected"
  /\ calls' = (calls \ {c}) \cup
       {IF Serves(c)
        THEN [c EXCEPT !.stage = "read", !.saw = request[c.student].member]
        ELSE [c EXCEPT !.stage = "refused", !.saw = request[c.student].status]}
  /\ UNCHANGED <<request, desk, card, visitor, past>>

\* Another call on the student has read its row and not committed.
Overlaps(c) == \E d \in calls \ {c} : d.student = c.student /\ d.stage \in {"read", "half"}

Overlapping(c) == [past EXCEPT !.overlapped = IF Overlaps(c) THEN @ \cup {c.student} ELSE @]

\* A member row or a pending request inserted meanwhile makes the insertion fail.
Inserts(c) ==
  \/ c.kind = "create"  /\ request[c.student].status # "none"
  \/ c.kind = "approve" /\ c.saw = "none" /\ request[c.student].member # "none"

\* What one commit writes, whatever the row says by then.
Written(c) ==
  LET r == request[c.student]
  IN  CASE c.kind = "create"   -> [r EXCEPT !.status = "pending"]
        [] c.kind = "approve"  -> [r EXCEPT !.status = "approved", !.member = "active"]
        [] c.kind = "reject"   -> [r EXCEPT !.status = "rejected"]
        [] c.kind = "reissue"  -> r
        [] c.kind = "activate" -> [r EXCEPT !.status = "activated"]

CommitRow(c) ==
  /\ c.stage = (IF c.kind = "activate" THEN "half" ELSE "read")
  /\ IF Inserts(c)
     THEN /\ calls' = (calls \ {c}) \cup {[c EXCEPT !.stage = "refused"]}
          /\ UNCHANGED request
     ELSE /\ calls' = (calls \ {c}) \cup {[c EXCEPT !.stage = "served"]}
          /\ request' = [request EXCEPT ![c.student] = Written(c)]
  /\ past' = Overlapping(c)
  /\ UNCHANGED <<desk, card, visitor>>

\* The first of the two commits of an activation.
CommitPassword(c) ==
  /\ c.kind = "activate" /\ c.stage = "read"
  /\ request' = [request EXCEPT ![c.student].password = IF @ = 2 THEN 1 ELSE @ + 1]
  /\ calls' = (calls \ {c}) \cup {[c EXCEPT !.stage = "half"]}
  /\ past' = Overlapping(c)
  /\ UNCHANGED <<desk, card, visitor>>

\* The connection, the database or the server fails, before a commit or after it.
CallFails(c) ==
  /\ c.stage # "refused"
  /\ calls' = (calls \ {c}) \cup {[c EXCEPT !.stage = "refused", !.saw = "none"]}
  /\ UNCHANGED <<request, desk, card, visitor, past>>

\* -- the administrators' page ---------------------------------------------

\* The list is fetched: at the start, by a search, after each mutation.  One fetch is
\* on its way at a time, so its answer is as old as the copy can be anyway.
ListAnswered ==
  /\ desk.data # statusOf
  /\ desk' = [desk EXCEPT !.data = statusOf]
  /\ UNCHANGED <<request, calls, card, visitor, past>>

\* The buttons of a row look at the row of the cached list.
Approve(s) ==
  /\ desk.data[s] = "pending" /\ ~isPending("approve") /\ MayCall
  /\ calls' = calls \cup {Call("approve", s, "desk")}
  /\ past' = Used(past)
  /\ UNCHANGED <<request, desk, card, visitor>>

Reissue(s) ==
  /\ desk.data[s] = "approved" /\ ~isPending("reissue") /\ MayCall
  /\ calls' = calls \cup {Call("reissue", s, "desk")}
  /\ past' = Used(past)
  /\ UNCHANGED <<request, desk, card, visitor>>

CanStartReject(s) == desk.data[s] = "pending" /\ ~isPending("reject")

StartReject(s) ==
  /\ CanStartReject(s)
  /\ desk' = [desk EXCEPT !.target = s]
  /\ UNCHANGED <<request, calls, card, visitor, past>>

\* The panel can be closed while its rejection is pending.
CancelReject ==
  /\ desk.target # NoStudent
  /\ desk' = [desk EXCEPT !.target = NoStudent]
  /\ UNCHANGED <<request, calls, card, visitor, past>>

\* A reason is required; its text is not followed.
ConfirmReject ==
  /\ desk.target # NoStudent /\ ~isPending("reject") /\ MayCall
  /\ calls' = calls \cup {Call("reject", desk.target, "desk")}
  /\ past' = Used(past)
  /\ UNCHANGED <<request, desk, card, visitor>>

\* applyActivationIssue: the token is shown at once, the log when it comes.
applyActivationIssue(s) ==
  [card EXCEPT !.issued = s, !.fetching = @ \cup {s}]

DeskAnswered(c) ==
  /\ c.by = "desk" /\ c.stage = "served"
  /\ calls' = calls \ {c}
  /\ IF c.kind = "reject"
     THEN desk' = [desk EXCEPT !.target = NoStudent] /\ card' = card
     ELSE desk' = desk /\ card' = applyActivationIssue(c.student)
  /\ UNCHANGED <<request, visitor, past>>

DeskRefused(c) ==
  /\ c.by = "desk" /\ c.stage = "refused"
  /\ calls' = calls \ {c}
  /\ UNCHANGED <<request, desk, card, visitor, past>>

\* refreshActivationLogs: the answer is shown with whatever token is shown by then.
LogsAnswered(s) ==
  /\ s \in card.fetching
  /\ \E logs \in {s, NoStudent} :
       card' = [card EXCEPT !.logs = logs, !.fetching = @ \ {s}]
  /\ UNCHANGED <<request, calls, desk, visitor, past>>

\* Another administrator decides on the request.
OtherDecides(s) ==
  /\ MayCall
  /\ \E kind \in {"approve", "reject"} :
       calls' = calls \cup {Call(kind, s, "other")}
  /\ past' = Used(past)
  /\ UNCHANGED <<request, desk, card, visitor>>

Next ==
  \/ \E s \in Students :
       \/ SubmitSignup(s) \/ OpenActivation(s)
       \/ SubmitActivation(s, "visitor") \/ SubmitActivation(s, "other")
       \/ Approve(s) \/ Reissue(s) \/ StartReject(s) \/ LogsAnswered(s) \/ OtherDecides(s)
  \/ \E c \in calls :
       \/ ReadRow(c) \/ CommitRow(c) \/ CommitPassword(c) \/ CallFails(c)
       \/ SignupAnswered(c) \/ ActivationAnswered(c) \/ ForgetAnswer(c) \/ DeskAnswered(c) \/ DeskRefused(c)
  \/ ListAnswered \/ CancelReject \/ ConfirmReject

Spec == Init /\ [][Next]_signupVars

----------------------------------------------------------------------------
Some == Students \cup {NoStudent}

Standings == {"none", "pending", "active"}
Applications == [status : Statuses, member : Standings, password : 0..2]
Calls == [kind : {"create", "approve", "reject", "reissue", "activate"}, student : Students,
          by : {"visitor", "desk", "other"}, stage : {"sent", "read", "half", "served", "refused"},
          saw : Statuses \cup Standings]
Visits == [page : VisitorPages, feedback : {"none", "error", "login", "contact"}]

TypeOK ==
  /\ request \in [Students -> Applications]
  /\ calls \subseteq Calls
  /\ desk \in [data : Lists, target : Some]
  /\ card \in [issued : Some, logs : Some, fetching : SUBSET Students]
  /\ visitor \in [Students -> Visits]
  /\ past \in [used : 0..MaxCalls, overlapped : SUBSET Students]

\* A student is an active member exactly when the request was approved, however many
\* administrators decide and whatever fails, unless two calls on the student
\* overlapped: then the later commit may leave an active member whose request is
\* rejected, who can neither use the token, nor get another one, nor apply again.
ActiveIffApproved ==
  \A s \in Students \ past.overlapped :
    request[s].member = "active" <=> request[s].status \in {"approved", "activated"}

\* A token that was used does not set the password again, from whatever window, unless
\* its two uses overlapped; a use that failed between its commits can be repeated.
UsedTokenIsSpent ==
  [][\A s \in Students \ past'.overlapped :
       request[s].status = "activated" => request'[s].password = request[s].password]_signupVars

\* The student who is told to log in has a password.
LoginAdviceIsTrue ==
  \A s \in Students : visitor[s].feedback = "login" => request[s].password # 0

============================================================================
