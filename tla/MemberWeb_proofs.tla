--------------------------- MODULE MemberWeb_proofs ---------------------------
(***************************************************************************)
(* Proofs about the members' half of the system: the signup, the requests  *)
(* to change a name or a cohort, and the page of an event.                 *)
(***************************************************************************)
EXTENDS MCMemberWeb, FiniteSetTheorems, TLAPS

-----------------------------------------------------------------------------
(* The parts of the whole *)

\* Each behaviour of the whole is one of each part.
LEMMA PartsBehave ==
    Spec => /\ PostPages!Spec /\ SignupPages!Spec /\ ProfilePage!Spec /\ ChangesPages!Spec
            /\ DirectoryPage!Spec /\ Rsvps!Spec /\ EventPages!PageSpec
<1>1. Init => /\ PostPages!Init /\ SignupPages!Init /\ ProfilePage!Init /\ ChangesPages!Init
              /\ DirectoryPage!Init /\ Rsvps!Init /\ EventPages!PageInit
  BY DEF Init
<1>2. [Next]_vars => /\ [PostPages!Next]_PostPages!editorVars /\ [SignupPages!Next]_SignupPages!signupVars
                     /\ [ProfilePage!Next]_ProfilePage!profileVars /\ [ChangesPages!Next]_ChangesPages!changeVars
                     /\ [DirectoryPage!Next]_DirectoryPage!directoryVars /\ [Rsvps!Next]_Rsvps!vars
                     /\ [EventPages!PageNext]_EventPages!pageVars
  BY DEF Next, vars, editorVars, signupVars, profileVars, changeVars, directoryVars, rsvpVars, eventVars,
     PostPages!editorVars, SignupPages!signupVars, ProfilePage!profileVars, ChangesPages!changeVars,
     DirectoryPage!directoryVars, DirectoryPage!browserVars, DirectoryPage!filterVars, DirectoryPage!queryVars,
     Rsvps!vars, EventPages!pageVars, EventPages!vars
<1> QED
  BY <1>1, <1>2, PTL DEF Spec, PostPages!Spec, SignupPages!Spec, ProfilePage!Spec, ChangesPages!Spec,
     DirectoryPage!Spec, Rsvps!Spec, EventPages!PageSpec

-----------------------------------------------------------------------------
(* The signup *)

(* What a call has read still holds when it commits, unless another call on the student
   overlapped. *)
ReadsHold ==
  \A c \in calls : c.stage \in {"read", "half"} /\ c.student \notin past.overlapped => SignupPages!Serves(c)

(* A password is set before the request is marked as used, and nobody is told that it is
   used before. *)
PasswordFirst ==
  /\ \A c \in calls : /\ c.stage = "half" => c.kind = "activate" /\ request[c.student].password # 0
                      /\ c.saw = "activated" => request[c.student].password # 0
  /\ \A s \in Students : /\ request[s].status = "activated" => request[s].password # 0
                         /\ visitor[s].feedback = "login" => request[s].password # 0

SignupInv == SignupPages!TypeOK /\ SignupPages!ActiveIffApproved /\ ReadsHold /\ PasswordFirst

LEMMA CallType ==
    ASSUME NEW kind \in {"create", "approve", "reject", "reissue", "activate"}, NEW s \in Students,
           NEW by \in {"visitor", "desk", "other"}
    PROVE  /\ SignupPages!Call(kind, s, by) \in SignupPages!Calls
           /\ SignupPages!Call(kind, s, by).stage = "sent" /\ SignupPages!Call(kind, s, by).saw = "none"
BY DEF SignupPages!Call, SignupPages!Calls, SignupPages!Statuses

LEMMA SignupInit == ASSUME SignupPages!SignupAssumption, SignupPages!Init PROVE SignupInv
<1> USE DEF SignupPages!Init, SignupPages!SignupAssumption
<1>1. request \in [Students -> SignupPages!Applications]
  BY DEF SignupPages!Applications, SignupPages!Statuses, SignupPages!Standings
<1>2. visitor \in [Students -> SignupPages!Visits]
  <2>1. \A s \in Students : [page |-> IF request[s].status = "none" THEN "signup" ELSE "waiting",
                             feedback |-> "none"] \in SignupPages!Visits
    BY DEF SignupPages!Visits, SignupPages!VisitorPages
  <2> QED
    BY <2>1
<1>3. desk \in [data : SignupPages!Lists, target : SignupPages!Some]
  BY DEF SignupPages!Lists, SignupPages!Some, SignupPages!Statuses
<1>4. card \in [issued : SignupPages!Some, logs : SignupPages!Some, fetching : SUBSET Students]
  BY DEF SignupPages!Some
<1>5. SignupPages!TypeOK
  BY <1>1, <1>2, <1>3, <1>4 DEF SignupPages!TypeOK
<1>6. SignupPages!ActiveIffApproved
  BY DEF SignupPages!ActiveIffApproved
<1>7. PasswordFirst
  BY DEF PasswordFirst
<1> QED
  BY <1>5, <1>6, <1>7 DEF SignupInv, ReadsHold

LEMMA SignupTypeStep ==
    ASSUME SignupPages!SignupAssumption, SignupPages!TypeOK, SignupPages!Next
    PROVE  SignupPages!TypeOK'
<1> USE DEF SignupPages!TypeOK
<1>1. ASSUME SignupPages!MayCall, past' = SignupPages!Used(past)
      PROVE  past' \in [used : 0..MaxCalls, overlapped : SUBSET Students]
  BY <1>1 DEF SignupPages!MayCall, SignupPages!Used, SignupPages!SignupAssumption
<1>2. ASSUME NEW s \in Students, SignupPages!SubmitSignup(s) PROVE SignupPages!TypeOK'
  <2>1. visitor' \in [Students -> SignupPages!Visits]
    BY <1>2 DEF SignupPages!SubmitSignup, SignupPages!Visits
  <2> QED
    BY <1>1, <1>2, <2>1, CallType DEF SignupPages!SubmitSignup
<1>3. ASSUME NEW s \in Students, SignupPages!OpenActivation(s) PROVE SignupPages!TypeOK'
  <2>1. visitor' \in [Students -> SignupPages!Visits]
    BY <1>3 DEF SignupPages!OpenActivation, SignupPages!Visits, SignupPages!VisitorPages
  <2> QED
    BY <1>3, <2>1 DEF SignupPages!OpenActivation
<1>4. ASSUME NEW s \in Students, NEW by \in {"visitor", "other"}, SignupPages!SubmitActivation(s, by)
      PROVE  SignupPages!TypeOK'
  <2>1. visitor' \in [Students -> SignupPages!Visits]
    BY <1>4 DEF SignupPages!SubmitActivation, SignupPages!Visits
  <2> QED
    BY <1>1, <1>4, <2>1, CallType DEF SignupPages!SubmitActivation
<1>5. ASSUME NEW c \in calls, SignupPages!SignupAnswered(c) \/ SignupPages!ActivationAnswered(c)
      PROVE  SignupPages!TypeOK'
  <2>1. \A s \in Students : \A f \in {"none", "error", "login", "contact"} :
           /\ [visitor[s] EXCEPT !.feedback = f] \in SignupPages!Visits
           /\ \A p \in SignupPages!VisitorPages : [page |-> p, feedback |-> f] \in SignupPages!Visits
    BY DEF SignupPages!Visits
  <2>2. {"waiting", "completed"} \subseteq SignupPages!VisitorPages
    BY DEF SignupPages!VisitorPages
  <2>3. visitor' \in [Students -> SignupPages!Visits]
    <3>1. CASE SignupPages!SignupAnswered(c)
      BY <2>1, <2>2, <3>1 DEF SignupPages!SignupAnswered
    <3>2. CASE SignupPages!ActivationAnswered(c)
      <4>1. c.student \in Students
        BY DEF SignupPages!Calls
      <4>2. SignupPages!activationErrorFeedback(c) \in {"login", "contact"}
        BY DEF SignupPages!activationErrorFeedback
      <4>3. PICK f \in {"none", "error", "login", "contact"} :
              \/ visitor' = [visitor EXCEPT ![c.student] = [page |-> "completed", feedback |-> "none"]]
              \/ visitor' = [visitor EXCEPT ![c.student].feedback = f]
        BY <3>2, <4>2 DEF SignupPages!ActivationAnswered
      <4>4. CASE visitor' = [visitor EXCEPT ![c.student] = [page |-> "completed", feedback |-> "none"]]
        BY <2>1, <2>2, <4>4
      <4>5. CASE visitor' = [visitor EXCEPT ![c.student].feedback = f]
        BY <2>1, <4>1, <4>5
      <4> QED
        BY <4>3, <4>4, <4>5
    <3> QED
      BY <1>5, <3>1, <3>2
  <2> QED
    BY <1>5, <2>3 DEF SignupPages!SignupAnswered, SignupPages!ActivationAnswered
<1>6. ASSUME NEW c \in calls, SignupPages!ForgetAnswer(c) \/ SignupPages!DeskRefused(c)
      PROVE  SignupPages!TypeOK'
  BY <1>6 DEF SignupPages!ForgetAnswer, SignupPages!DeskRefused
<1>7. ASSUME NEW c \in calls, SignupPages!ReadRow(c) PROVE SignupPages!TypeOK'
  <2>1. c.student \in Students /\ request[c.student].member \in SignupPages!Standings
        /\ request[c.student].status \in SignupPages!Statuses
    BY DEF SignupPages!Calls, SignupPages!Applications
  <2>2. [c EXCEPT !.stage = "read", !.saw = request[c.student].member] \in SignupPages!Calls
        /\ [c EXCEPT !.stage = "refused", !.saw = request[c.student].status] \in SignupPages!Calls
    BY <2>1 DEF SignupPages!Calls
  <2> QED
    BY <1>7, <2>2 DEF SignupPages!ReadRow
<1>8. ASSUME NEW c \in calls, past' = SignupPages!Overlapping(c)
      PROVE  past' \in [used : 0..MaxCalls, overlapped : SUBSET Students]
  BY <1>8 DEF SignupPages!Overlapping, SignupPages!Calls
<1>9. ASSUME NEW c \in calls, SignupPages!CommitRow(c) PROVE SignupPages!TypeOK'
  <2>1. [c EXCEPT !.stage = "refused"] \in SignupPages!Calls /\ [c EXCEPT !.stage = "served"] \in SignupPages!Calls
    BY DEF SignupPages!Calls
  <2>2. calls' \subseteq SignupPages!Calls
    BY <1>9, <2>1 DEF SignupPages!CommitRow
  <2>3. request' \in [Students -> SignupPages!Applications]
    <3>1. SignupPages!Written(c) \in SignupPages!Applications
      <4> DEFINE r == request[c.student]
      <4>1. /\ r \in SignupPages!Applications
            /\ c.kind \in {"create", "approve", "reject", "reissue", "activate"}
        BY DEF SignupPages!Calls
      <4>2. ASSUME NEW q \in SignupPages!Applications
            PROVE  /\ [q EXCEPT !.status = "pending"] \in SignupPages!Applications
                   /\ [q EXCEPT !.status = "approved", !.member = "active"] \in SignupPages!Applications
                   /\ [q EXCEPT !.status = "rejected"] \in SignupPages!Applications
                   /\ [q EXCEPT !.status = "activated"] \in SignupPages!Applications
        BY <4>2 DEF SignupPages!Applications, SignupPages!Statuses, SignupPages!Standings
      <4>3. CASE c.kind = "create"
        BY <4>1, <4>2, <4>3 DEF SignupPages!Written
      <4>4. CASE c.kind = "approve"
        BY <4>1, <4>2, <4>4 DEF SignupPages!Written
      <4>5. CASE c.kind = "reject"
        BY <4>1, <4>2, <4>5 DEF SignupPages!Written
      <4>6. CASE c.kind = "reissue"
        BY <4>1, <4>6 DEF SignupPages!Written
      <4>7. CASE c.kind = "activate"
        BY <4>1, <4>2, <4>7 DEF SignupPages!Written
      <4> QED
        BY <4>1, <4>3, <4>4, <4>5, <4>6, <4>7
    <3> QED
      BY <1>9, <3>1 DEF SignupPages!CommitRow
  <2> QED
    BY <1>8, <1>9, <2>2, <2>3 DEF SignupPages!CommitRow
<1>10. ASSUME NEW c \in calls, SignupPages!CommitPassword(c) PROVE SignupPages!TypeOK'
  <2>1. calls' \subseteq SignupPages!Calls
    BY <1>10 DEF SignupPages!CommitPassword, SignupPages!Calls
  <2>2. request' \in [Students -> SignupPages!Applications]
    <3>1. c.student \in Students /\ request[c.student] \in SignupPages!Applications
      BY DEF SignupPages!Calls
    <3> DEFINE old == request[c.student].password
               n   == IF old = 2 THEN 1 ELSE old + 1
    <3>2. request' = [request EXCEPT ![c.student].password = n]
      BY <1>10, <3>1 DEF SignupPages!CommitPassword
    <3>3. n \in 0..2
      BY <3>1 DEF SignupPages!Applications
    <3> HIDE DEF n
    <3>4. ASSUME NEW q \in SignupPages!Applications PROVE [q EXCEPT !.password = n] \in SignupPages!Applications
      BY <3>3, <3>4 DEF SignupPages!Applications
    <3> QED
      BY <3>1, <3>2, <3>4
  <2> QED
    BY <1>8, <1>10, <2>1, <2>2 DEF SignupPages!CommitPassword
<1>11. ASSUME NEW c \in calls, SignupPages!CallFails(c) PROVE SignupPages!TypeOK'
  <2>1. calls' \subseteq SignupPages!Calls
    BY <1>11 DEF SignupPages!CallFails, SignupPages!Calls, SignupPages!Standings
  <2> QED
    BY <1>11, <2>1 DEF SignupPages!CallFails
<1>12. CASE SignupPages!ListAnswered
  <2>1. SignupPages!statusOf \in SignupPages!Lists
    BY DEF SignupPages!statusOf, SignupPages!Lists, SignupPages!Applications
  <2> QED
    BY <1>12, <2>1 DEF SignupPages!ListAnswered
<1>13. ASSUME NEW s \in Students, SignupPages!Approve(s) \/ SignupPages!Reissue(s) \/ SignupPages!OtherDecides(s)
       PROVE  SignupPages!TypeOK'
  BY <1>1, <1>13, CallType DEF SignupPages!Approve, SignupPages!Reissue, SignupPages!OtherDecides
<1>14. ASSUME NEW s \in Students, SignupPages!StartReject(s) PROVE SignupPages!TypeOK'
  BY <1>14 DEF SignupPages!StartReject, SignupPages!Some
<1>15. CASE SignupPages!CancelReject
  BY <1>15 DEF SignupPages!CancelReject, SignupPages!Some
<1>16. CASE SignupPages!ConfirmReject
  <2>1. desk.target \in Students
    BY <1>16 DEF SignupPages!ConfirmReject, SignupPages!Some
  <2> QED
    BY <1>1, <1>16, <2>1, CallType DEF SignupPages!ConfirmReject
<1>17. ASSUME NEW c \in calls, SignupPages!DeskAnswered(c) PROVE SignupPages!TypeOK'
  <2>1. c.student \in Students
    BY DEF SignupPages!Calls
  <2>2. desk' \in [data : SignupPages!Lists, target : SignupPages!Some]
    BY <1>17 DEF SignupPages!DeskAnswered, SignupPages!Some
  <2>3. card' \in [issued : SignupPages!Some, logs : SignupPages!Some, fetching : SUBSET Students]
    <3>1. [card EXCEPT !.issued = c.student, !.fetching = @ \cup {c.student}]
          \in [issued : SignupPages!Some, logs : SignupPages!Some, fetching : SUBSET Students]
      BY <2>1 DEF SignupPages!Some
    <3> QED
      BY <1>17, <3>1 DEF SignupPages!DeskAnswered, SignupPages!applyActivationIssue
  <2> QED
    BY <1>17, <2>2, <2>3 DEF SignupPages!DeskAnswered
<1>18. ASSUME NEW s \in Students, SignupPages!LogsAnswered(s) PROVE SignupPages!TypeOK'
  <2>1. card' \in [issued : SignupPages!Some, logs : SignupPages!Some, fetching : SUBSET Students]
    BY <1>18 DEF SignupPages!LogsAnswered, SignupPages!Some
  <2> QED
    BY <1>18, <2>1 DEF SignupPages!LogsAnswered
<1> QED
  BY <1>2, <1>3, <1>4, <1>5, <1>6, <1>7, <1>9, <1>10, <1>11, <1>12, <1>13, <1>14, <1>15, <1>16, <1>17, <1>18
  DEF SignupPages!Next

SignupSafe == SignupPages!ActiveIffApproved /\ ReadsHold /\ PasswordFirst

\* A step that leaves the rows alone, lets no call read and tells nobody to log in.
LEMMA SignupQuietStep ==
    ASSUME SignupPages!TypeOK, SignupSafe,
           UNCHANGED request, past'.overlapped = past.overlapped,
           \A d \in calls' : d \in calls \/ (d.stage \notin {"read", "half"} /\ d.saw # "activated"),
           \A s \in Students : visitor'[s].feedback = "login"
              => visitor[s].feedback = "login" \/ request[s].password # 0
    PROVE  SignupSafe'
<1>1. SignupPages!ActiveIffApproved'
  BY DEF SignupSafe, SignupPages!ActiveIffApproved
<1>2. ReadsHold'
  BY DEF SignupSafe, ReadsHold, SignupPages!Serves
<1>3. PasswordFirst'
  BY DEF SignupSafe, PasswordFirst
<1> QED
  BY <1>1, <1>2, <1>3 DEF SignupSafe

\* The handler's read: what it has read holds, and a used request has a password.
LEMMA SignupReadStep ==
    ASSUME SignupPages!TypeOK, SignupSafe, NEW c \in calls, SignupPages!ReadRow(c)
    PROVE  SignupSafe'
<1> DEFINE d == IF SignupPages!Serves(c)
                THEN [c EXCEPT !.stage = "read", !.saw = request[c.student].member]
                ELSE [c EXCEPT !.stage = "refused", !.saw = request[c.student].status]
<1>1. c \in SignupPages!Calls /\ c.student \in Students /\ request[c.student] \in SignupPages!Applications
  BY DEF SignupPages!TypeOK, SignupPages!Calls
<1>2. /\ UNCHANGED <<request, visitor, past>> /\ calls' = (calls \ {c}) \cup {d}
  BY DEF SignupPages!ReadRow
<1>3. /\ d.kind = c.kind /\ d.student = c.student
      /\ d.stage = "read" => SignupPages!Serves(c)
      /\ d.stage # "half"
      /\ d.saw = "activated" => request[c.student].status = "activated"
  BY <1>1 DEF SignupPages!Calls, SignupPages!Applications, SignupPages!Standings
<1>4. SignupPages!Serves(c) => SignupPages!Serves(d)
  BY <1>3 DEF SignupPages!Serves
<1> HIDE DEF d
<1>5. SignupPages!ActiveIffApproved'
  BY <1>2 DEF SignupSafe, SignupPages!ActiveIffApproved
<1>6. ReadsHold'
  BY <1>2, <1>3, <1>4 DEF SignupSafe, ReadsHold, SignupPages!Serves
<1>7. PasswordFirst'
  BY <1>1, <1>2, <1>3 DEF SignupSafe, PasswordFirst
<1> QED
  BY <1>5, <1>6, <1>7 DEF SignupSafe

\* A commit that no other call on the student overlaps finds what its handler has read.
LEMMA SignupAlone ==
    ASSUME SignupPages!TypeOK, SignupSafe, NEW c \in calls, c.stage \in {"read", "half"},
           past' = SignupPages!Overlapping(c), c.student \notin past'.overlapped
    PROVE  /\ SignupPages!Serves(c) /\ c.student \notin past.overlapped
           /\ \A d \in calls \ {c} : d.student = c.student => d.stage \notin {"read", "half"}
<1>1. c.student \in Students
  BY DEF SignupPages!TypeOK, SignupPages!Calls
<1>2. past'.overlapped = IF SignupPages!Overlaps(c) THEN past.overlapped \cup {c.student} ELSE past.overlapped
  BY DEF SignupPages!Overlapping, SignupPages!TypeOK
<1>3. ~SignupPages!Overlaps(c) /\ c.student \notin past.overlapped
  BY <1>2
<1> QED
  BY <1>3 DEF SignupPages!Overlaps, SignupSafe, ReadsHold

LEMMA SignupOverlapGrows ==
    ASSUME SignupPages!TypeOK, NEW c \in calls, past' = SignupPages!Overlapping(c)
    PROVE  past.overlapped \subseteq past'.overlapped
BY DEF SignupPages!Overlapping, SignupPages!TypeOK

\* The commit of a status.
LEMMA SignupCommitStep ==
    ASSUME SignupPages!TypeOK, SignupSafe, NEW c \in calls, SignupPages!CommitRow(c)
    PROVE  SignupSafe'
<1> DEFINE s == c.student
           r == request[s]
<1>1. /\ c \in SignupPages!Calls /\ s \in Students /\ r \in SignupPages!Applications
      /\ past' = SignupPages!Overlapping(c) /\ UNCHANGED visitor
      /\ c.stage \in {"read", "half"} /\ (c.stage = "half" <=> c.kind = "activate")
  BY DEF SignupPages!TypeOK, SignupPages!Calls, SignupPages!CommitRow
<1>2. past.overlapped \subseteq past'.overlapped
  BY <1>1, SignupOverlapGrows
<1>3. PICK q \in SignupPages!Calls :
        /\ calls' = (calls \ {c}) \cup {q}
        /\ q.stage \in {"refused", "served"} /\ q.student = s /\ q.saw = c.saw /\ q.kind = c.kind
        /\ q.stage = "refused" => UNCHANGED request
        /\ q.stage = "served"  => request' = [request EXCEPT ![s] = SignupPages!Written(c)]
  <2> DEFINE x == [c EXCEPT !.stage = "refused"]
             y == [c EXCEPT !.stage = "served"]
  <2>1. /\ x \in SignupPages!Calls /\ x.stage = "refused" /\ x.student = s /\ x.saw = c.saw /\ x.kind = c.kind
        /\ y \in SignupPages!Calls /\ y.stage = "served" /\ y.student = s /\ y.saw = c.saw /\ y.kind = c.kind
    BY <1>1 DEF SignupPages!Calls
  <2>2. \/ calls' = (calls \ {c}) \cup {x} /\ UNCHANGED request
        \/ calls' = (calls \ {c}) \cup {y} /\ request' = [request EXCEPT ![s] = SignupPages!Written(c)]
    BY DEF SignupPages!CommitRow
  <2> HIDE DEF x, y, s
  <2> QED
    BY <2>1, <2>2
<1>4. s \notin past'.overlapped => /\ SignupPages!Serves(c) /\ s \notin past.overlapped
                                   /\ \A d \in calls \ {c} : d.student = s => d.stage \notin {"read", "half"}
  BY <1>1, SignupAlone
<1>5. /\ \A t \in Students : t # s => request'[t] = request[t]
      /\ q.stage = "refused" => request'[s] = r
      /\ q.stage = "served"  => request'[s] = SignupPages!Written(c)
  BY <1>1, <1>3 DEF SignupPages!TypeOK
<1>6. /\ SignupPages!Written(c).password = r.password
      /\ SignupPages!Written(c).status = "activated" => c.stage = "half" \/ r.status = "activated"
      /\ SignupPages!Serves(c) /\ (r.member = "active" <=> r.status \in {"approved", "activated"})
         => (SignupPages!Written(c).member = "active"
               <=> SignupPages!Written(c).status \in {"approved", "activated"})
  <2>0. c.kind \in {"create", "approve", "reject", "reissue", "activate"}
    BY <1>1 DEF SignupPages!Calls
  <2>1. CASE c.kind = "create"
    BY <1>1, <2>1 DEF SignupPages!Written, SignupPages!Serves, SignupPages!Applications
  <2>2. CASE c.kind = "approve"
    BY <1>1, <2>2 DEF SignupPages!Written, SignupPages!Serves, SignupPages!Applications
  <2>3. CASE c.kind = "reject"
    BY <1>1, <2>3 DEF SignupPages!Written, SignupPages!Serves, SignupPages!Applications
  <2>4. CASE c.kind = "reissue"
    BY <1>1, <2>4 DEF SignupPages!Written, SignupPages!Serves, SignupPages!Applications
  <2>5. CASE c.kind = "activate"
    BY <1>1, <2>5 DEF SignupPages!Written, SignupPages!Serves, SignupPages!Applications
  <2> QED
    BY <2>0, <2>1, <2>2, <2>3, <2>4, <2>5
<1>7. \A t \in Students : request'[t].password = request[t].password
  BY <1>3, <1>5, <1>6
<1>8. SignupPages!ActiveIffApproved'
  <2> SUFFICES ASSUME NEW t \in Students, t \notin past'.overlapped
               PROVE  request'[t].member = "active" <=> request'[t].status \in {"approved", "activated"}
    BY DEF SignupPages!ActiveIffApproved
  <2>1. request[t].member = "active" <=> request[t].status \in {"approved", "activated"}
    BY <1>2 DEF SignupSafe, SignupPages!ActiveIffApproved
  <2> QED
    BY <1>3, <1>4, <1>5, <1>6, <2>1
<1>9. ReadsHold'
  <2> SUFFICES ASSUME NEW d \in calls', d.stage \in {"read", "half"}, d.student \notin past'.overlapped
               PROVE  SignupPages!Serves(d)'
    BY DEF ReadsHold
  <2>1. d \in calls /\ d # c /\ d.student \in Students
    BY <1>3 DEF SignupPages!TypeOK, SignupPages!Calls
  <2>2. d.student # s
    BY <1>4, <2>1
  <2>3. request'[d.student] = request[d.student] /\ SignupPages!Serves(d)
    BY <1>2, <1>5, <2>1, <2>2 DEF SignupSafe, ReadsHold
  <2> QED
    BY <2>3 DEF SignupPages!Serves
<1>10. PasswordFirst'
  <2>1. \A d \in calls : d.student \in Students
    BY DEF SignupPages!TypeOK, SignupPages!Calls
  <2>2. /\ c.stage = "half" => request[s].password # 0
        /\ c.saw = "activated" => request[s].password # 0
        /\ \A t \in Students : visitor[t].feedback = "login" => request[t].password # 0
    BY DEF SignupSafe, PasswordFirst
  <2>3. \A d \in calls' : /\ d.stage = "half" => d.kind = "activate" /\ request'[d.student].password # 0
                          /\ d.saw = "activated" => request'[d.student].password # 0
    BY <1>1, <1>3, <1>7, <2>1 DEF SignupSafe, PasswordFirst
  <2>4. \A t \in Students : request'[t].status = "activated" => request'[t].password # 0
    BY <1>3, <1>5, <1>6, <1>7, <2>2 DEF SignupSafe, PasswordFirst
  <2> QED
    BY <1>1, <1>7, <2>2, <2>3, <2>4 DEF PasswordFirst
<1> QED
  BY <1>8, <1>9, <1>10 DEF SignupSafe

\* The commit of a password.
LEMMA SignupPasswordStep ==
    ASSUME SignupPages!TypeOK, SignupSafe, NEW c \in calls, SignupPages!CommitPassword(c)
    PROVE  SignupSafe'
<1> DEFINE s == c.student
           q == [c EXCEPT !.stage = "half"]
<1>1. /\ c \in SignupPages!Calls /\ s \in Students /\ request[s] \in SignupPages!Applications
      /\ past' = SignupPages!Overlapping(c) /\ UNCHANGED visitor
      /\ c.stage = "read" /\ c.kind = "activate"
      /\ calls' = (calls \ {c}) \cup {q}
  BY DEF SignupPages!TypeOK, SignupPages!Calls, SignupPages!CommitPassword
<1>2. past.overlapped \subseteq past'.overlapped
  BY <1>1, SignupOverlapGrows
<1>3. q.stage = "half" /\ q.student = s /\ q.saw = c.saw /\ q.kind = "activate"
  BY <1>1 DEF SignupPages!Calls
<1>4. s \notin past'.overlapped => /\ SignupPages!Serves(c) /\ s \notin past.overlapped
                                   /\ \A d \in calls \ {c} : d.student = s => d.stage \notin {"read", "half"}
  BY <1>1, SignupAlone
<1>5. /\ \A t \in Students : t # s => request'[t] = request[t]
      /\ request'[s].status = request[s].status /\ request'[s].member = request[s].member
      /\ request'[s].password # 0
  <2> DEFINE old == request[s].password
             n   == IF old = 2 THEN 1 ELSE old + 1
  <2>1. request' = [request EXCEPT ![s].password = n]
    BY <1>1 DEF SignupPages!CommitPassword
  <2>2. n # 0
    BY <1>1 DEF SignupPages!Applications
  <2> HIDE DEF n
  <2> QED
    BY <1>1, <2>1, <2>2 DEF SignupPages!TypeOK, SignupPages!Applications
<1> HIDE DEF q
<1>6. SignupPages!ActiveIffApproved'
  BY <1>1, <1>2, <1>5 DEF SignupSafe, SignupPages!ActiveIffApproved
<1>7. ReadsHold'
  <2> SUFFICES ASSUME NEW d \in calls', d.stage \in {"read", "half"}, d.student \notin past'.overlapped
               PROVE  SignupPages!Serves(d)'
    BY DEF ReadsHold
  <2>1. CASE d = q
    BY <1>1, <1>3, <1>4, <1>5, <2>1 DEF SignupPages!Serves
  <2>2. CASE d # q
    <3>1. d \in calls /\ d # c /\ d.student \in Students
      BY <1>1, <2>2 DEF SignupPages!TypeOK, SignupPages!Calls
    <3>2. d.student # s
      BY <1>4, <3>1
    <3>3. request'[d.student] = request[d.student] /\ SignupPages!Serves(d)
      BY <1>2, <1>5, <3>1, <3>2 DEF SignupSafe, ReadsHold
    <3> QED
      BY <3>3 DEF SignupPages!Serves
  <2> QED
    BY <2>1, <2>2
<1>8. PasswordFirst'
  BY <1>1, <1>3, <1>5 DEF SignupSafe, PasswordFirst, SignupPages!TypeOK, SignupPages!Calls
<1> QED
  BY <1>6, <1>7, <1>8 DEF SignupSafe

LEMMA SignupSafeStep ==
    ASSUME SignupPages!SignupAssumption, SignupPages!TypeOK, SignupSafe, SignupPages!Next
    PROVE  SignupSafe'
<1>1. ASSUME NEW s \in Students,
             \/ SignupPages!SubmitSignup(s) \/ SignupPages!OpenActivation(s)
             \/ SignupPages!SubmitActivation(s, "visitor") \/ SignupPages!SubmitActivation(s, "other")
             \/ SignupPages!Approve(s) \/ SignupPages!Reissue(s) \/ SignupPages!OtherDecides(s)
      PROVE  SignupSafe'
  <2>1. UNCHANGED request /\ past'.overlapped = past.overlapped
    BY <1>1 DEF SignupPages!SubmitSignup, SignupPages!OpenActivation, SignupPages!SubmitActivation,
       SignupPages!Approve, SignupPages!Reissue, SignupPages!OtherDecides, SignupPages!Used, SignupPages!TypeOK
  <2>2. \A d \in calls' : d \in calls \/ (d.stage = "sent" /\ d.saw = "none")
    BY <1>1 DEF SignupPages!SubmitSignup, SignupPages!OpenActivation, SignupPages!SubmitActivation,
       SignupPages!Approve, SignupPages!Reissue, SignupPages!OtherDecides, SignupPages!Call
  <2>3. \A t \in Students : visitor'[t].feedback = "login" => visitor[t].feedback = "login"
    BY <1>1 DEF SignupPages!SubmitSignup, SignupPages!OpenActivation, SignupPages!SubmitActivation,
       SignupPages!Approve, SignupPages!Reissue, SignupPages!OtherDecides, SignupPages!TypeOK, SignupPages!Visits
  <2> QED
    BY <2>1, <2>2, <2>3, SignupQuietStep
<1>2. ASSUME NEW s \in Students, SignupPages!StartReject(s) \/ SignupPages!LogsAnswered(s) PROVE SignupSafe'
  BY <1>2, SignupQuietStep DEF SignupPages!StartReject, SignupPages!LogsAnswered
<1>3. ASSUME NEW c \in calls, SignupPages!ReadRow(c) PROVE SignupSafe'
  BY <1>3, SignupReadStep
<1>4. ASSUME NEW c \in calls, SignupPages!CommitRow(c) PROVE SignupSafe'
  BY <1>4, SignupCommitStep
<1>5. ASSUME NEW c \in calls, SignupPages!CommitPassword(c) PROVE SignupSafe'
  BY <1>5, SignupPasswordStep
<1>6. ASSUME NEW c \in calls, SignupPages!CallFails(c) PROVE SignupSafe'
  <2>1. \A d \in calls' : d \in calls \/ (d.stage = "refused" /\ d.saw = "none")
    BY <1>6 DEF SignupPages!CallFails, SignupPages!TypeOK, SignupPages!Calls
  <2> QED
    BY <1>6, <2>1, SignupQuietStep DEF SignupPages!CallFails
<1>7. ASSUME NEW c \in calls, SignupPages!SignupAnswered(c) PROVE SignupSafe'
  <2>1. \A t \in Students : visitor'[t].feedback = "login" => visitor[t].feedback = "login"
    BY <1>7 DEF SignupPages!SignupAnswered, SignupPages!TypeOK, SignupPages!Visits
  <2> QED
    BY <1>7, <2>1, SignupQuietStep DEF SignupPages!SignupAnswered
<1>8. ASSUME NEW c \in calls, SignupPages!ActivationAnswered(c) PROVE SignupSafe'
  <2>1. c.student \in Students
    BY DEF SignupPages!TypeOK, SignupPages!Calls
  <2>2. visitor'[c.student].feedback = "login" => c.saw = "activated"
    BY <1>8, <2>1 DEF SignupPages!ActivationAnswered, SignupPages!activationErrorFeedback, SignupPages!TypeOK,
       SignupPages!Visits
  <2>3. \A t \in Students : t # c.student => visitor'[t] = visitor[t]
    BY <1>8 DEF SignupPages!ActivationAnswered, SignupPages!TypeOK
  <2>4. c.saw = "activated" => request[c.student].password # 0
    BY DEF SignupSafe, PasswordFirst
  <2>5. UNCHANGED request /\ past' = past /\ calls' \subseteq calls
    BY <1>8 DEF SignupPages!ActivationAnswered
  <2> QED
    BY <2>2, <2>3, <2>4, <2>5, SignupQuietStep
<1>9. ASSUME NEW c \in calls,
             SignupPages!ForgetAnswer(c) \/ SignupPages!DeskAnswered(c) \/ SignupPages!DeskRefused(c)
      PROVE  SignupSafe'
  BY <1>9, SignupQuietStep DEF SignupPages!ForgetAnswer, SignupPages!DeskAnswered, SignupPages!DeskRefused
<1>10. CASE SignupPages!ListAnswered \/ SignupPages!CancelReject
  BY <1>10, SignupQuietStep DEF SignupPages!ListAnswered, SignupPages!CancelReject
<1>11. CASE SignupPages!ConfirmReject
  <2>1. UNCHANGED <<request, visitor>> /\ past'.overlapped = past.overlapped
    BY <1>11 DEF SignupPages!ConfirmReject, SignupPages!Used, SignupPages!TypeOK
  <2>2. \A d \in calls' : d \in calls \/ (d.stage = "sent" /\ d.saw = "none")
    BY <1>11 DEF SignupPages!ConfirmReject, SignupPages!Call
  <2> QED
    BY <2>1, <2>2, SignupQuietStep
<1> QED
  BY <1>1, <1>2, <1>3, <1>4, <1>5, <1>6, <1>7, <1>8, <1>9, <1>10, <1>11 DEF SignupPages!Next

(* The signup never leaves its invariant. *)
THEOREM SignupInvariant == Spec => []SignupInv
<1>0. SignupPages!SignupAssumption
  BY MemberAssumption
<1>1. SignupPages!Init => SignupInv
  BY <1>0, SignupInit
<1>2. SignupInv /\ [SignupPages!Next]_SignupPages!signupVars => SignupInv'
  <2> SUFFICES ASSUME SignupInv, [SignupPages!Next]_SignupPages!signupVars PROVE SignupInv'
    OBVIOUS
  <2>1. CASE SignupPages!Next
    BY <1>0, <2>1, SignupTypeStep, SignupSafeStep DEF SignupInv, SignupSafe
  <2>2. CASE UNCHANGED SignupPages!signupVars
    BY <2>2 DEF SignupInv, SignupPages!TypeOK, SignupPages!ActiveIffApproved, ReadsHold, PasswordFirst,
       SignupPages!Serves, SignupPages!signupVars
  <2> QED
    BY <2>1, <2>2
<1> QED
  BY <1>1, <1>2, PartsBehave, PTL DEF SignupPages!Spec

(* A student is an active member exactly when the request was approved, unless two calls
   on the student overlapped at the server. *)
THEOREM ActiveIffApprovedHolds == Spec => []ActiveIffApproved
<1>1. SignupInv => ActiveIffApproved
  BY DEF SignupInv, ActiveIffApproved
<1> QED
  BY <1>1, SignupInvariant, PTL

(* The student who is told to log in has a password. *)
THEOREM LoginAdviceIsTrueHolds == Spec => []LoginAdviceIsTrue
<1>1. SignupInv => LoginAdviceIsTrue
  BY DEF SignupInv, PasswordFirst, LoginAdviceIsTrue, SignupPages!LoginAdviceIsTrue
<1> QED
  BY <1>1, SignupInvariant, PTL

(* A token that was used does not set the password again, unless its two uses overlapped. *)
THEOREM UsedTokenIsSpentHolds == Spec => UsedTokenIsSpent
<1> DEFINE Spent == \A s \in Students \ past'.overlapped :
                      request[s].status = "activated" => request'[s].password = request[s].password
<1>0. SignupPages!SignupAssumption
  BY MemberAssumption
<1>1. SignupInv /\ [SignupPages!Next]_SignupPages!signupVars => [Spent]_SignupPages!signupVars
  <2> SUFFICES ASSUME SignupInv, SignupPages!Next,
                      NEW s \in Students, s \notin past'.overlapped, request[s].status = "activated"
               PROVE  request'[s].password = request[s].password
    OBVIOUS
  <2>0. SignupPages!TypeOK /\ SignupSafe
    BY DEF SignupInv, SignupSafe
  <2>1. ASSUME NEW c \in calls, SignupPages!CommitRow(c) PROVE request'[s].password = request[s].password
    <3>1. c.student \in Students /\ request[c.student] \in SignupPages!Applications
          /\ c.kind \in {"create", "approve", "reject", "reissue", "activate"}
      BY <2>0 DEF SignupPages!TypeOK, SignupPages!Calls
    <3>2. SignupPages!Written(c).password = request[c.student].password
      BY <3>1 DEF SignupPages!Written, SignupPages!Applications
    <3>3. \/ UNCHANGED request
          \/ request' = [request EXCEPT ![c.student] = SignupPages!Written(c)]
      BY <2>1 DEF SignupPages!CommitRow
    <3> QED
      BY <2>0, <3>1, <3>2, <3>3 DEF SignupPages!TypeOK
  <2>2. ASSUME NEW c \in calls, SignupPages!CommitPassword(c) PROVE request'[s].password = request[s].password
    <3>1. c.stage \in {"read", "half"} /\ c.kind = "activate" /\ past' = SignupPages!Overlapping(c)
      BY <2>2 DEF SignupPages!CommitPassword
    <3>2. c.student # s
      BY <2>0, <3>1, SignupAlone DEF SignupPages!Serves
    <3> QED
      BY <2>0, <2>2, <3>2 DEF SignupPages!CommitPassword, SignupPages!TypeOK
  <2>3. CASE UNCHANGED request
    BY <2>3
  <2> QED
    BY <2>1, <2>2, <2>3 DEF SignupPages!Next, SignupPages!SubmitSignup, SignupPages!OpenActivation,
       SignupPages!SubmitActivation, SignupPages!Approve, SignupPages!Reissue, SignupPages!OtherDecides,
       SignupPages!StartReject, SignupPages!LogsAnswered, SignupPages!ReadRow, SignupPages!CallFails,
       SignupPages!SignupAnswered, SignupPages!ActivationAnswered, SignupPages!ForgetAnswer,
       SignupPages!DeskAnswered, SignupPages!DeskRefused, SignupPages!ListAnswered, SignupPages!CancelReject,
       SignupPages!ConfirmReject
<1> QED
  BY <1>1, SignupInvariant, PartsBehave, PTL DEF UsedTokenIsSpent, SignupPages!UsedTokenIsSpent, SignupPages!Spec

-----------------------------------------------------------------------------
(* The requests to change a name or a cohort *)

(* The requests are numbered without gaps, and one that is pending is the last of its
   field. *)
ChangesInOrder ==
  /\ \E n \in 0..MaxAsks : ChangesPages!Used = 1..n
  /\ \A i \in ChangesPages!Used :
       /\ asks[i].key \in Keys
       /\ asks[i].status = "pending"
          => \A j \in ChangesPages!Used : asks[j].key = asks[i].key => j <= i

(* A decision is on a request that is stored, and what its handler has read of it holds,
   unless another decision overlapped. *)
DecisionsHold ==
  /\ review.target \in ChangesPages!Used \cup {0}
  /\ \A p \in posts : p.kind # "create"
       => /\ p.id \in ChangesPages!Used
          /\ p.stage = "read" /\ ~asks[p.id].overlapped => asks[p.id].status = "pending"

ChangesSafe == ChangesInOrder /\ DecisionsHold /\ ChangesPages!ApprovedIsInEffect
ChangesInv == ChangesPages!TypeOK /\ ChangesSafe

LEMMA ChangesInit == ASSUME ChangesPages!ChangesAssumption, ChangesPages!Init PROVE ChangesInv
<1> USE DEF ChangesPages!Init, ChangesPages!ChangesAssumption
<1>1. ChangesPages!Used = {}
  BY DEF ChangesPages!Used
<1>2. ChangesPages!TypeOK
  <2>1. asks \in [ChangesPages!Ids -> ChangesPages!Records]
    BY DEF ChangesPages!Records, ChangesPages!Statuses
  <2>2. ChangesPages!statuses \in [ChangesPages!Ids -> ChangesPages!Statuses]
    BY DEF ChangesPages!statuses, ChangesPages!Statuses
  <2>3. review \in [data : [ChangesPages!Ids -> ChangesPages!Statuses], target : 0..MaxAsks, posts : 0..MaxPosts]
    BY <2>2
  <2>4. current \in [Keys -> 0..ChangesPages!Direct] /\ section \in [pending : SUBSET Keys, editing : Keys \cup {NoKey}]
    BY DEF ChangesPages!Direct
  <2> QED
    BY <2>1, <2>3, <2>4 DEF ChangesPages!TypeOK
<1>3. ChangesInOrder
  BY <1>1 DEF ChangesInOrder
<1>4. DecisionsHold
  BY DEF DecisionsHold
<1>5. ChangesPages!ApprovedIsInEffect
  BY <1>1 DEF ChangesPages!ApprovedIsInEffect
<1> QED
  BY <1>2, <1>3, <1>4, <1>5 DEF ChangesInv, ChangesSafe

\* A call moves on, loses its form, or is sent, and stays a call.
LEMMA PostTypes ==
    ASSUME ChangesPages!TypeOK
    PROVE  /\ \A p \in posts : \A st \in ChangesPages!Stages :
                [p EXCEPT !.stage = st] \in ChangesPages!Creations \cup ChangesPages!Decisions
           /\ \A p \in posts : [p EXCEPT !.open = FALSE] \in ChangesPages!Creations \cup ChangesPages!Decisions
           /\ \A k \in Keys : ChangesPages!Post("create", k, 0) \in ChangesPages!Creations
           /\ \A i \in ChangesPages!Ids : /\ ChangesPages!Post("approve", NoKey, i) \in ChangesPages!Decisions
                                          /\ ChangesPages!Post("reject", NoKey, i) \in ChangesPages!Decisions
<1> DEFINE C == ChangesPages!Creations
           D == ChangesPages!Decisions
<1>1. \A p \in C : \A st \in ChangesPages!Stages : [p EXCEPT !.stage = st] \in C /\ [p EXCEPT !.open = FALSE] \in C
  BY DEF ChangesPages!Creations
<1>2. \A p \in D : \A st \in ChangesPages!Stages : [p EXCEPT !.stage = st] \in D /\ [p EXCEPT !.open = FALSE] \in D
  BY DEF ChangesPages!Decisions
<1>3. "sent" \in ChangesPages!Stages /\ posts \subseteq C \cup D
  BY DEF ChangesPages!Stages, ChangesPages!TypeOK
<1>4. \A k \in Keys : ChangesPages!Post("create", k, 0) \in C
  BY <1>3 DEF ChangesPages!Creations, ChangesPages!Post
<1>5. \A i \in ChangesPages!Ids : ChangesPages!Post("approve", NoKey, i) \in D
                                  /\ ChangesPages!Post("reject", NoKey, i) \in D
  BY <1>3 DEF ChangesPages!Decisions, ChangesPages!Post
<1> HIDE DEF C, D
<1>6. \A p \in posts : \A st \in ChangesPages!Stages : [p EXCEPT !.stage = st] \in C \cup D
  BY <1>1, <1>2, <1>3
<1>7. \A p \in posts : [p EXCEPT !.open = FALSE] \in C \cup D
  BY <1>1, <1>2, <1>3
<1> QED
  BY <1>4, <1>5, <1>6, <1>7 DEF C, D

\* The place of the next request: after all that are stored.
LEMMA NextPlace ==
    ASSUME ChangesPages!ChangesAssumption, ChangesInOrder
    PROVE  \E n \in 0..MaxAsks : /\ ChangesPages!Used = 1..n
                                 /\ ChangesPages!Cardinality(ChangesPages!Used) = n
                                 /\ ChangesPages!Used # ChangesPages!Ids => n + 1 \in ChangesPages!Ids
<1>1. MaxAsks \in Nat
  BY DEF ChangesPages!ChangesAssumption
<1>2. PICK n \in 0..MaxAsks : ChangesPages!Used = 1..n
  BY DEF ChangesInOrder
<1>3. Cardinality(1..n) = n
  BY <1>1, <1>2, FS_Interval
<1>4. ChangesPages!Cardinality(1..n) = Cardinality(1..n)
  BY DEF ChangesPages!Cardinality, Cardinality
<1>5. 1..n # 1..MaxAsks => n + 1 \in 1..MaxAsks
  BY <1>1, <1>2
<1> QED
  BY <1>2, <1>3, <1>4, <1>5 DEF ChangesPages!Ids

\* A step that leaves the rows and the requests alone, and lets no call read.
LEMMA ChangesQuietStep ==
    ASSUME ChangesPages!TypeOK, ChangesSafe, UNCHANGED <<current, asks>>,
           review'.target \in ChangesPages!Used \cup {0},
           \A q \in posts' : \/ q.kind = "create"
                             \/ q.id \in ChangesPages!Used /\ q.stage # "read"
                             \/ \E p \in posts : p.kind = q.kind /\ p.id = q.id /\ p.stage = q.stage
    PROVE  ChangesSafe'
<1>1. ChangesPages!Used' = ChangesPages!Used
  BY DEF ChangesPages!Used
<1>2. ChangesInOrder'
  BY <1>1 DEF ChangesSafe, ChangesInOrder
<1>3. DecisionsHold'
  BY <1>1 DEF ChangesSafe, DecisionsHold
<1>4. ChangesPages!ApprovedIsInEffect'
  BY <1>1 DEF ChangesSafe, ChangesPages!ApprovedIsInEffect
<1> QED
  BY <1>2, <1>3, <1>4 DEF ChangesSafe

\* The handler's read.
LEMMA ChangesReadStep ==
    ASSUME ChangesPages!TypeOK, ChangesSafe, NEW p \in posts, ChangesPages!Reads(p)
    PROVE  ChangesSafe'
<1>1. PICK q : /\ q.kind = p.kind /\ q.id = p.id /\ posts' = (posts \ {p}) \cup {q}
               /\ p.kind # "create" /\ q.stage = "read" => asks[p.id].status = "pending"
  <2> DEFINE st == IF p.kind = "create"
                   THEN IF ChangesPages!PendingOf(p.key) = {} THEN "read" ELSE "refused"
                   ELSE IF asks[p.id].status = "pending" THEN "read" ELSE "refused"
             q == [p EXCEPT !.stage = st]
  <2>1. posts' = (posts \ {p}) \cup {q}
    BY DEF ChangesPages!Reads, ChangesPages!Moved
  <2>2. q.kind = p.kind /\ q.id = p.id /\ q.stage = st
    BY DEF ChangesPages!TypeOK, ChangesPages!Creations, ChangesPages!Decisions
  <2>3. p.kind # "create" /\ st = "read" => asks[p.id].status = "pending"
    OBVIOUS
  <2> HIDE DEF q, st
  <2> QED
    BY <2>1, <2>2, <2>3
<1>2. UNCHANGED <<current, asks, review>> /\ ChangesPages!Used' = ChangesPages!Used
  BY DEF ChangesPages!Reads, ChangesPages!Used
<1>3. ChangesInOrder'
  BY <1>2 DEF ChangesSafe, ChangesInOrder
<1>4. DecisionsHold'
  BY <1>1, <1>2 DEF ChangesSafe, DecisionsHold
<1>5. ChangesPages!ApprovedIsInEffect'
  BY <1>2 DEF ChangesSafe, ChangesPages!ApprovedIsInEffect
<1> QED
  BY <1>3, <1>4, <1>5 DEF ChangesSafe

\* A request is stored only while none of its field is pending, after all the others.
LEMMA ChangesStoreStep ==
    ASSUME ChangesPages!ChangesAssumption, ChangesPages!TypeOK, ChangesSafe, NEW p \in posts,
           ChangesPages!Stores(p)
    PROVE  ChangesSafe'
<1>1. /\ p.kind = "create" /\ p.key \in Keys
      /\ \A st \in ChangesPages!Stages : [p EXCEPT !.stage = st].kind = "create"
  BY DEF ChangesPages!Stores, ChangesPages!TypeOK, ChangesPages!Creations, ChangesPages!Decisions
<1>2. UNCHANGED <<current, review>> /\ \A q \in posts' : q \in posts \/ q.kind = "create"
  BY <1>1 DEF ChangesPages!Stores, ChangesPages!Moved, ChangesPages!Stages
<1>3. CASE UNCHANGED asks
  <2>1. review.target \in ChangesPages!Used \cup {0}
    BY DEF ChangesSafe, DecisionsHold
  <2> QED
    BY <1>2, <1>3, <2>1, ChangesQuietStep
<1>4. CASE ~UNCHANGED asks
  <2>1. PICK n \in 0..MaxAsks : /\ ChangesPages!Used = 1..n
                                /\ ChangesPages!Cardinality(ChangesPages!Used) = n
                                /\ ChangesPages!Used # ChangesPages!Ids => n + 1 \in ChangesPages!Ids
    BY NextPlace DEF ChangesSafe
  <2> DEFINE new == [key |-> p.key, status |-> "pending", overlapped |-> FALSE]
  <2>2. /\ n + 1 \in ChangesPages!Ids /\ asks' = [asks EXCEPT ![n + 1] = new]
        /\ ChangesPages!PendingOf(p.key) = {}
    BY <1>4, <2>1 DEF ChangesPages!Stores
  <2>3. /\ asks'[n + 1] = new
        /\ \A i \in ChangesPages!Ids : i # n + 1 => asks'[i] = asks[i]
    BY <2>2 DEF ChangesPages!TypeOK
  <2>4. MaxAsks \in Nat
    BY DEF ChangesPages!ChangesAssumption
  <2>5. ChangesPages!Used' = 1..(n + 1) /\ ChangesPages!Used \subseteq ChangesPages!Ids
        /\ ChangesPages!Ids' = ChangesPages!Ids
    <3>1. ChangesPages!Used' = {i \in ChangesPages!Ids : asks'[i].status # "none"}
      BY DEF ChangesPages!Used, ChangesPages!Ids
    <3>2. ChangesPages!Used' = ChangesPages!Used \cup {n + 1}
      BY <2>2, <2>3, <3>1 DEF ChangesPages!Used
    <3> QED
      BY <2>1, <2>2, <2>4, <3>2 DEF ChangesPages!Ids
  <2>6. n + 1 \in 0..MaxAsks /\ n + 1 \notin ChangesPages!Used
    BY <2>1, <2>2, <2>4 DEF ChangesPages!Ids
  <2>7. ChangesInOrder'
    <3>1. ASSUME NEW i \in ChangesPages!Used'
          PROVE  /\ asks'[i].key \in Keys
                 /\ asks'[i].status = "pending"
                    => \A j \in ChangesPages!Used' : asks'[j].key = asks'[i].key => j <= i
      <4>1. CASE i = n + 1
        BY <1>1, <2>1, <2>3, <2>5, <4>1
      <4>2. CASE i # n + 1
        <5>1. i \in ChangesPages!Used /\ i \in ChangesPages!Ids /\ asks'[i] = asks[i]
          BY <2>1, <2>3, <2>5, <4>2
        <5>2. asks[i].status = "pending" => asks[i].key # p.key
          BY <2>2, <5>1 DEF ChangesPages!PendingOf
        <5>3. \A j \in ChangesPages!Used' : j = n + 1 \/ (j \in ChangesPages!Used /\ asks'[j] = asks[j])
          BY <2>1, <2>3, <2>5
        <5> QED
          BY <2>3, <5>1, <5>2, <5>3 DEF ChangesSafe, ChangesInOrder
      <4> QED
        BY <4>1, <4>2
    <3> QED
      BY <2>5, <2>6, <3>1 DEF ChangesInOrder
  <2>8. DecisionsHold'
    BY <1>2, <2>1, <2>3, <2>5, <2>6 DEF ChangesSafe, DecisionsHold
  <2>9. ChangesPages!ApprovedIsInEffect'
    <3>1. \A i \in ChangesPages!Used' : /\ i = n + 1 => asks'[i].status = "pending"
                                        /\ i # n + 1 => i \in ChangesPages!Used /\ asks'[i] = asks[i]
      BY <2>1, <2>3, <2>5
    <3>2. \A i \in ChangesPages!Used : i \in ChangesPages!Used' /\ asks'[i] = asks[i]
      BY <2>1, <2>3, <2>5, <2>6
    <3> QED
      BY <1>2, <3>1, <3>2 DEF ChangesSafe, ChangesPages!ApprovedIsInEffect
  <2> QED
    BY <2>7, <2>8, <2>9 DEF ChangesSafe
<1> QED
  BY <1>3, <1>4

\* A decision that no other overlapped finds the request pending: it is the last of its field.
LEMMA ChangesDecideStep ==
    ASSUME ChangesPages!TypeOK, ChangesSafe, NEW p \in posts, ChangesPages!Decides(p)
    PROVE  ChangesSafe'
<1> DEFINE i == p.id
           k == asks[i].key
<1>1. /\ p.kind \in {"approve", "reject"} /\ p.stage = "read"
      /\ i \in ChangesPages!Used /\ i \in ChangesPages!Ids /\ k \in Keys
      /\ asks[i] \in ChangesPages!Records
      /\ ~asks[i].overlapped => asks[i].status = "pending"
  BY DEF ChangesPages!Decides, ChangesPages!TypeOK, ChangesPages!Creations, ChangesPages!Decisions,
     ChangesSafe, DecisionsHold, ChangesInOrder, ChangesPages!Used
<1>2. PICK q : /\ posts' = (posts \ {p}) \cup {q} /\ q.kind = p.kind /\ q.id = i /\ q.stage = "served"
  <2> DEFINE q == [p EXCEPT !.stage = "served"]
  <2>1. posts' = (posts \ {p}) \cup {q} /\ q.kind = p.kind /\ q.id = i /\ q.stage = "served"
    BY DEF ChangesPages!Decides, ChangesPages!Moved, ChangesPages!TypeOK, ChangesPages!Creations,
       ChangesPages!Decisions
  <2> QED
    BY <2>1
<1>3. /\ asks'[i].key = k /\ asks'[i].status = (IF p.kind = "approve" THEN "approved" ELSE "rejected")
      /\ asks[i].overlapped => asks'[i].overlapped
      /\ \A r \in posts \ {p} : r.id = i /\ r.stage = "read" => asks'[i].overlapped
  <2>1. asks'[i] = ChangesPages!Decided(p)
    BY <1>1 DEF ChangesPages!Decides, ChangesPages!TypeOK
  <2>2. /\ ChangesPages!Decided(p).key = k
        /\ ChangesPages!Decided(p).status = (IF p.kind = "approve" THEN "approved" ELSE "rejected")
    BY <1>1 DEF ChangesPages!Decided, ChangesPages!Records
  <2>3. asks[i].overlapped => ChangesPages!Decided(p).overlapped
    BY <1>1 DEF ChangesPages!Decided, ChangesPages!Records
  <2>4. \A r \in posts \ {p} : r.id = i /\ r.stage = "read" => ChangesPages!Decided(p).overlapped
    BY <1>1 DEF ChangesPages!Decided, ChangesPages!Records
  <2> QED
    BY <2>1, <2>2, <2>3, <2>4
<1>4. \A j \in ChangesPages!Ids : j # i => asks'[j] = asks[j]
  BY <1>1 DEF ChangesPages!Decides, ChangesPages!TypeOK
<1>5. /\ UNCHANGED review
      /\ current' = IF p.kind = "approve" THEN [current EXCEPT ![k] = i] ELSE current
  BY DEF ChangesPages!Decides
<1>6. /\ ChangesPages!Used' = ChangesPages!Used
      /\ \A j \in ChangesPages!Used : j \in ChangesPages!Ids
  BY <1>1, <1>3, <1>4 DEF ChangesPages!Used, ChangesPages!Ids
<1> HIDE DEF i, k
<1>7. ChangesInOrder'
  <2>1. ASSUME NEW j \in ChangesPages!Used
        PROVE  asks'[j].key = asks[j].key /\ (asks'[j].status = "pending" => asks[j].status = "pending")
    BY <1>1, <1>3, <1>4, <1>6, <2>1 DEF k
  <2> QED
    BY <1>6, <2>1 DEF ChangesSafe, ChangesInOrder
<1>8. DecisionsHold'
  <2>1. review'.target \in ChangesPages!Used' \cup {0}
    BY <1>5, <1>6 DEF ChangesSafe, DecisionsHold
  <2>2. ASSUME NEW r \in posts', r.kind # "create"
        PROVE  r.id \in ChangesPages!Used' /\ (r.stage = "read" /\ ~asks'[r.id].overlapped
                                               => asks'[r.id].status = "pending")
    <3>1. CASE r = q
      BY <1>1, <1>2, <1>6, <3>1
    <3>2. CASE r # q
      <4>1. r \in posts /\ r # p
        BY <1>2, <2>2, <3>2
      <4> QED
        BY <1>3, <1>4, <1>6, <2>2, <4>1 DEF ChangesSafe, DecisionsHold
    <3> QED
      BY <3>1, <3>2
  <2> QED
    BY <2>1, <2>2 DEF DecisionsHold
<1>9. ChangesPages!ApprovedIsInEffect'
  <2> SUFFICES ASSUME NEW key \in Keys,
                      ~(current'[key] \in ChangesPages!Used /\ asks'[current'[key]].overlapped)
               PROVE  /\ \/ current'[key] \in {0, ChangesPages!Direct}
                         \/ /\ current'[key] \in ChangesPages!Used
                            /\ asks'[current'[key]].key = key /\ asks'[current'[key]].status = "approved"
                      /\ \A j \in ChangesPages!Used :
                           asks'[j].key = key /\ asks'[j].status = "approved" => j <= current'[key]
    BY <1>6 DEF ChangesPages!ApprovedIsInEffect, ChangesPages!Direct
  <2>1. \A j \in ChangesPages!Used : /\ asks'[j].key = asks[j].key
                                     /\ asks[j].overlapped => asks'[j].overlapped
    BY <1>1, <1>3, <1>4, <1>6 DEF k
  <2>2. current'[key] = current[key] \/ (key = k /\ p.kind = "approve" /\ current'[key] = i)
    BY <1>1, <1>5 DEF ChangesPages!TypeOK
  <2>3. CASE current'[key] = current[key] /\ ~(key = k /\ p.kind = "approve")
    <3>1. ~(current[key] \in ChangesPages!Used /\ asks[current[key]].overlapped)
      BY <2>1, <2>3
    <3>2. /\ \/ current[key] \in {0, ChangesPages!Direct}
             \/ /\ current[key] \in ChangesPages!Used
                /\ asks[current[key]].key = key /\ asks[current[key]].status = "approved"
          /\ \A j \in ChangesPages!Used : asks[j].key = key /\ asks[j].status = "approved" => j <= current[key]
      BY <3>1 DEF ChangesSafe, ChangesPages!ApprovedIsInEffect
    <3>3. \A j \in ChangesPages!Used :
             asks'[j].key = key /\ asks'[j].status = "approved" => asks[j].key = key /\ asks[j].status = "approved"
      BY <1>1, <1>3, <1>4, <1>6, <2>1, <2>3 DEF k
    <3>4. current[key] \in ChangesPages!Used /\ asks[current[key]].status = "approved"
          => asks'[current[key]].status = "approved"
      <4> HAVE current[key] \in ChangesPages!Used /\ asks[current[key]].status = "approved"
      <4>1. current[key] # i
        <5> SUFFICES ASSUME current[key] = i PROVE FALSE
          OBVIOUS
        <5>1. asks[i].status # "pending"
          OBVIOUS
        <5> QED
          BY <1>1, <3>1, <5>1
      <4> QED
        BY <1>4, <1>6, <4>1
    <3> QED
      BY <2>1, <2>3, <3>2, <3>3, <3>4
  <2>4. CASE key = k /\ p.kind = "approve"
    <3>1. current'[key] = i
      BY <1>1, <1>5, <2>4 DEF ChangesPages!TypeOK
    <3>2. asks[i].status = "pending"
      BY <1>1, <1>3, <3>1
    <3>3. \A j \in ChangesPages!Used : asks[j].key = k => j <= i
      BY <1>1, <3>2 DEF ChangesSafe, ChangesInOrder, k
    <3> QED
      BY <1>1, <1>3, <2>1, <2>4, <3>1, <3>3
  <2> QED
    BY <2>2, <2>3, <2>4
<1> QED
  BY <1>7, <1>8, <1>9 DEF ChangesSafe

\* A direct edit marks the value as one that came after every request.
LEMMA ChangesEditStep ==
    ASSUME ChangesPages!ChangesAssumption, ChangesPages!TypeOK, ChangesSafe, NEW k \in Keys,
           ChangesPages!EditMember(k)
    PROVE  ChangesSafe'
<1>1. /\ UNCHANGED <<asks, posts>> /\ review'.target = review.target
      /\ current' = [current EXCEPT ![k] = ChangesPages!Direct]
  BY DEF ChangesPages!EditMember, ChangesPages!Counted, ChangesPages!TypeOK
<1>2. ChangesPages!Used' = ChangesPages!Used
  BY <1>1 DEF ChangesPages!Used
<1>3. ChangesInOrder' /\ DecisionsHold'
  BY <1>1, <1>2 DEF ChangesSafe, ChangesInOrder, DecisionsHold
<1>4. ChangesPages!ApprovedIsInEffect'
  <2>1. \A i \in ChangesPages!Used : i <= ChangesPages!Direct
    BY DEF ChangesPages!Used, ChangesPages!Ids, ChangesPages!Direct, ChangesPages!ChangesAssumption
  <2>2. current'[k] = ChangesPages!Direct /\ \A key \in Keys \ {k} : current'[key] = current[key]
    BY <1>1 DEF ChangesPages!TypeOK
  <2>3. asks' = asks /\ ChangesPages!Direct' = ChangesPages!Direct
    BY <1>1 DEF ChangesPages!Direct
  <2>4. ASSUME NEW key \in Keys
        PROVE  LET approved == {i \in ChangesPages!Used : asks[i].key = key /\ asks[i].status = "approved"}
               IN  \/ current'[key] \in ChangesPages!Used /\ asks[current'[key]].overlapped
                   \/ /\ current'[key] \in approved \cup {0, ChangesPages!Direct}
                      /\ \A i \in approved : i <= current'[key]
    <3>1. CASE key = k
      BY <2>1, <2>2, <3>1
    <3>2. CASE key # k
      BY <2>2, <3>2 DEF ChangesSafe, ChangesPages!ApprovedIsInEffect
    <3> QED
      BY <3>1, <3>2
  <2> QED
    BY <1>2, <2>3, <2>4 DEF ChangesPages!ApprovedIsInEffect
<1> QED
  BY <1>3, <1>4 DEF ChangesSafe

LEMMA ChangesTypeStep ==
    ASSUME ChangesPages!ChangesAssumption, ChangesInv, ChangesPages!Next
    PROVE  ChangesPages!TypeOK'
<1> DEFINE Calls == ChangesPages!Creations \cup ChangesPages!Decisions
           Lists == [ChangesPages!Ids -> ChangesPages!Statuses]
           Sections == [pending : SUBSET Keys, editing : Keys \cup {NoKey}]
           Reviews == [data : Lists, target : 0..MaxAsks, posts : 0..MaxPosts]
<1>a. ChangesPages!TypeOK /\ ChangesSafe /\ MaxAsks \in Nat /\ MaxPosts \in Nat
  BY DEF ChangesInv, ChangesPages!ChangesAssumption
<1>b. /\ current \in [Keys -> 0..ChangesPages!Direct] /\ asks \in [ChangesPages!Ids -> ChangesPages!Records]
      /\ posts \subseteq Calls /\ section \in Sections /\ review \in Reviews
  BY <1>a DEF ChangesPages!TypeOK
<1>c. {"read", "refused", "served"} \subseteq ChangesPages!Stages
  BY DEF ChangesPages!Stages
<1>d. /\ \A p \in posts : \A st \in ChangesPages!Stages : ChangesPages!Moved(p, st) \subseteq Calls
      /\ ChangesPages!Unmounted \subseteq Calls
  BY <1>a, <1>b, PostTypes DEF ChangesPages!Moved, ChangesPages!Unmounted
<1>e. ChangesPages!MaySend => ChangesPages!Counted \in Reviews
  BY <1>a, <1>b DEF ChangesPages!MaySend, ChangesPages!Counted
<1>f. ChangesPages!Used \subseteq ChangesPages!Ids /\ ChangesPages!Ids \subseteq 0..MaxAsks
  BY <1>a DEF ChangesPages!Used, ChangesPages!Ids
<1>g. ASSUME current' \in [Keys -> 0..ChangesPages!Direct], asks' \in [ChangesPages!Ids -> ChangesPages!Records],
             posts' \subseteq Calls, section' \in Sections, review' \in Reviews
      PROVE  ChangesPages!TypeOK'
  BY <1>g DEF ChangesPages!TypeOK, ChangesPages!Direct, ChangesPages!Ids, ChangesPages!Records, ChangesPages!Statuses,
     ChangesPages!Stages, ChangesPages!Creations, ChangesPages!Decisions
<1>1. CASE ChangesPages!MyListAnswered
  <2>1. ChangesPages!pendingFields \subseteq Keys
    BY DEF ChangesPages!pendingFields
  <2>2. section' \in Sections
    BY <1>1, <1>b, <2>1 DEF ChangesPages!MyListAnswered
  <2> QED
    BY <1>1, <1>b, <1>g, <2>2 DEF ChangesPages!MyListAnswered
<1>2. CASE ChangesPages!CloseForm
  <2>1. section' \in Sections
    BY <1>2, <1>b DEF ChangesPages!CloseForm
  <2> QED
    BY <1>2, <1>b, <1>d, <1>g, <2>1 DEF ChangesPages!CloseForm
<1>3. CASE ChangesPages!Ask
  <2>1. section.editing \in Keys
    BY <1>3, <1>b DEF ChangesPages!Ask
  <2>2. ChangesPages!Post("create", section.editing, 0) \in Calls
    BY <1>a, <2>1, PostTypes
  <2> QED
    BY <1>3, <1>b, <1>e, <1>g, <2>2 DEF ChangesPages!Ask
<1>4. ASSUME NEW k \in Keys, ChangesPages!OpenForm(k) PROVE ChangesPages!TypeOK'
  <2>1. section' \in Sections
    BY <1>4, <1>b DEF ChangesPages!OpenForm
  <2> QED
    BY <1>4, <1>b, <1>d, <1>g, <2>1 DEF ChangesPages!OpenForm
<1>5. ASSUME NEW p \in posts, ChangesPages!Reads(p) PROVE ChangesPages!TypeOK'
  <2>1. posts' \subseteq Calls
    BY <1>5, <1>c, <1>d DEF ChangesPages!Reads
  <2> QED
    BY <1>5, <1>b, <1>g, <2>1 DEF ChangesPages!Reads
<1>6. ASSUME NEW p \in posts, ChangesPages!Stores(p) PROVE ChangesPages!TypeOK'
  <2>1. posts' \subseteq Calls
    BY <1>6, <1>c, <1>d DEF ChangesPages!Stores
  <2>2. p.key \in Keys
    BY <1>6, <1>b DEF ChangesPages!Stores, ChangesPages!Creations, ChangesPages!Decisions
  <2>3. [key |-> p.key, status |-> "pending", overlapped |-> FALSE] \in ChangesPages!Records
    BY <2>2 DEF ChangesPages!Records, ChangesPages!Statuses
  <2>4. asks' \in [ChangesPages!Ids -> ChangesPages!Records]
    BY <1>6, <1>b, <2>3 DEF ChangesPages!Stores
  <2> QED
    BY <1>6, <1>b, <1>g, <2>1, <2>4 DEF ChangesPages!Stores
<1>7. ASSUME NEW p \in posts, ChangesPages!Decides(p) PROVE ChangesPages!TypeOK'
  <2>1. posts' \subseteq Calls
    BY <1>7, <1>c, <1>d DEF ChangesPages!Decides
  <2>2. p.id \in ChangesPages!Used /\ p.id \in ChangesPages!Ids /\ asks[p.id].key \in Keys
        /\ asks[p.id] \in ChangesPages!Records
    BY <1>7, <1>a, <1>b, <1>f DEF ChangesPages!Decides, ChangesSafe, DecisionsHold, ChangesInOrder
  <2>3. ChangesPages!Decided(p) \in ChangesPages!Records
    <3>1. ASSUME NEW st \in ChangesPages!Statuses, NEW b \in BOOLEAN, NEW r \in ChangesPages!Records
          PROVE  [r EXCEPT !.status = st, !.overlapped = b] \in ChangesPages!Records
      BY <3>1 DEF ChangesPages!Records
    <3> DEFINE st == IF p.kind = "approve" THEN "approved" ELSE "rejected"
               b  == asks[p.id].overlapped \/ \E q \in posts \ {p} : q.id = p.id /\ q.stage = "read"
    <3>2. st \in ChangesPages!Statuses
      BY DEF ChangesPages!Statuses
    <3>3. b \in BOOLEAN
      OBVIOUS
    <3>4. ChangesPages!Decided(p) = [asks[p.id] EXCEPT !.status = st, !.overlapped = b]
      BY DEF ChangesPages!Decided
    <3> HIDE DEF st, b
    <3>5. [asks[p.id] EXCEPT !.status = st, !.overlapped = b] \in ChangesPages!Records
      BY <2>2, <3>1, <3>2, <3>3
    <3> QED
      BY <3>4, <3>5
  <2>4. asks' \in [ChangesPages!Ids -> ChangesPages!Records]
    BY <1>7, <1>b, <2>3 DEF ChangesPages!Decides
  <2>5. current' \in [Keys -> 0..ChangesPages!Direct]
    <3>1. p.id \in 0..ChangesPages!Direct
      BY <1>a, <2>2 DEF ChangesPages!Ids, ChangesPages!Direct
    <3>2. current' = current \/ current' = [current EXCEPT ![asks[p.id].key] = p.id]
      BY <1>7 DEF ChangesPages!Decides
    <3> QED
      BY <1>b, <3>1, <3>2
  <2> QED
    BY <1>7, <1>b, <1>g, <2>1, <2>4, <2>5 DEF ChangesPages!Decides
<1>8. ASSUME NEW p \in posts, ChangesPages!Fails(p) \/ ChangesPages!Refused(p) PROVE ChangesPages!TypeOK'
  <2>1. posts' \subseteq Calls
    BY <1>8, <1>b, <1>c, <1>d DEF ChangesPages!Fails, ChangesPages!Refused
  <2> QED
    BY <1>8, <1>b, <1>g, <2>1 DEF ChangesPages!Fails, ChangesPages!Refused
<1>9. ASSUME NEW p \in posts, ChangesPages!AskAnswered(p) PROVE ChangesPages!TypeOK'
  <2>1. posts' \subseteq Calls
    BY <1>9, <1>a, <1>b, PostTypes DEF ChangesPages!AskAnswered
  <2>2. section' \in Sections
    BY <1>9, <1>b DEF ChangesPages!AskAnswered
  <2> QED
    BY <1>9, <1>b, <1>g, <2>1, <2>2 DEF ChangesPages!AskAnswered
<1>10. ASSUME NEW p \in posts, ChangesPages!DecisionAnswered(p) PROVE ChangesPages!TypeOK'
  <2>1. review' \in Reviews
    BY <1>10, <1>a, <1>b DEF ChangesPages!DecisionAnswered
  <2>2. posts' \subseteq Calls
    BY <1>10, <1>b DEF ChangesPages!DecisionAnswered
  <2> QED
    BY <1>10, <1>b, <1>g, <2>1, <2>2 DEF ChangesPages!DecisionAnswered
<1>11. CASE ChangesPages!ListAnswered
  <2>1. ChangesPages!statuses \in Lists
    BY <1>b DEF ChangesPages!statuses, ChangesPages!Records
  <2>2. review' \in Reviews
    BY <1>11, <1>b, <2>1 DEF ChangesPages!ListAnswered
  <2> QED
    BY <1>11, <1>b, <1>g, <2>2 DEF ChangesPages!ListAnswered
<1>12. CASE ChangesPages!CancelReject
  <2>1. review' \in Reviews
    BY <1>12, <1>a, <1>b DEF ChangesPages!CancelReject
  <2> QED
    BY <1>12, <1>b, <1>g, <2>1 DEF ChangesPages!CancelReject
<1>13. CASE ChangesPages!ConfirmReject
  <2>1. ChangesPages!Post("reject", NoKey, review.target) \in Calls
    <3>1. review.target \in ChangesPages!Ids
      BY <1>13, <1>a, <1>b DEF ChangesPages!ConfirmReject, ChangesPages!Ids
    <3> QED
      BY <1>a, <3>1, PostTypes
  <2> QED
    BY <1>13, <1>b, <1>e, <1>g, <2>1 DEF ChangesPages!ConfirmReject
<1>14. ASSUME NEW i \in ChangesPages!Used, ChangesPages!Approve(i) PROVE ChangesPages!TypeOK'
  <2>1. ChangesPages!Post("approve", NoKey, i) \in Calls
    BY <1>14, <1>a, <1>f, PostTypes
  <2> QED
    BY <1>14, <1>b, <1>e, <1>g, <2>1 DEF ChangesPages!Approve
<1>15. ASSUME NEW i \in ChangesPages!Used, ChangesPages!StartReject(i) PROVE ChangesPages!TypeOK'
  <2>1. review' \in Reviews
    BY <1>15, <1>b, <1>f DEF ChangesPages!StartReject
  <2> QED
    BY <1>15, <1>b, <1>g, <2>1 DEF ChangesPages!StartReject
<1>16. ASSUME NEW k \in Keys, ChangesPages!EditMember(k) PROVE ChangesPages!TypeOK'
  <2>1. current' \in [Keys -> 0..ChangesPages!Direct]
    BY <1>16, <1>a, <1>b DEF ChangesPages!EditMember, ChangesPages!Direct
  <2> QED
    BY <1>16, <1>b, <1>e, <1>g, <2>1 DEF ChangesPages!EditMember
<1> QED
  BY <1>1, <1>2, <1>3, <1>4, <1>5, <1>6, <1>7, <1>8, <1>9, <1>10, <1>11, <1>12, <1>13, <1>14, <1>15, <1>16
  DEF ChangesPages!Next

LEMMA ChangesSafeStep ==
    ASSUME ChangesPages!ChangesAssumption, ChangesPages!TypeOK, ChangesSafe, ChangesPages!Next
    PROVE  ChangesSafe'
<1>a. review.target \in ChangesPages!Used \cup {0}
      /\ \A p \in posts : p.kind # "create" => p.id \in ChangesPages!Used
  BY DEF ChangesSafe, DecisionsHold
<1>b. \A P \in SUBSET posts : \A q \in {[p EXCEPT !.open = FALSE] : p \in P} :
        \E p \in posts : p.kind = q.kind /\ p.id = q.id /\ p.stage = q.stage
  <2>1. \A p \in posts : /\ [p EXCEPT !.open = FALSE].kind = p.kind
                         /\ [p EXCEPT !.open = FALSE].id = p.id
                         /\ [p EXCEPT !.open = FALSE].stage = p.stage
    BY DEF ChangesPages!TypeOK, ChangesPages!Creations, ChangesPages!Decisions
  <2> QED
    BY <2>1
<1>c. ChangesPages!Counted.target = review.target
  BY DEF ChangesPages!Counted, ChangesPages!TypeOK
<1>1. CASE ChangesPages!MyListAnswered
  BY <1>1, <1>a, ChangesQuietStep DEF ChangesPages!MyListAnswered
<1>2. CASE ChangesPages!CloseForm
  <2>1. \A q \in posts' : \E r \in posts : r.kind = q.kind /\ r.id = q.id /\ r.stage = q.stage
    <3>1. posts \in SUBSET posts /\ posts' = {[q EXCEPT !.open = FALSE] : q \in posts}
      BY <1>2 DEF ChangesPages!CloseForm, ChangesPages!Unmounted
    <3> QED
      BY <1>b, <3>1
  <2> QED
    BY <1>2, <1>a, <2>1, ChangesQuietStep DEF ChangesPages!CloseForm
<1>3. CASE ChangesPages!Ask
  <2>1. ChangesPages!Post("create", section.editing, 0).kind = "create"
    BY DEF ChangesPages!Post
  <2> QED
    BY <1>3, <1>a, <1>c, <2>1, ChangesQuietStep DEF ChangesPages!Ask
<1>4. ASSUME NEW k \in Keys, ChangesPages!OpenForm(k) PROVE ChangesSafe'
  <2>1. \A q \in posts' : \E r \in posts : r.kind = q.kind /\ r.id = q.id /\ r.stage = q.stage
    <3>1. posts \in SUBSET posts /\ posts' = {[q EXCEPT !.open = FALSE] : q \in posts}
      BY <1>4 DEF ChangesPages!OpenForm, ChangesPages!Unmounted
    <3> QED
      BY <1>b, <3>1
  <2> QED
    BY <1>4, <1>a, <2>1, ChangesQuietStep DEF ChangesPages!OpenForm
<1>5. ASSUME NEW p \in posts, ChangesPages!Reads(p) PROVE ChangesSafe'
  BY <1>5, ChangesReadStep
<1>6. ASSUME NEW p \in posts, ChangesPages!Stores(p) PROVE ChangesSafe'
  BY <1>6, ChangesStoreStep
<1>7. ASSUME NEW p \in posts, ChangesPages!Decides(p) PROVE ChangesSafe'
  BY <1>7, ChangesDecideStep
<1>8. ASSUME NEW p \in posts, ChangesPages!Fails(p) PROVE ChangesSafe'
  <2>1. \A q \in posts' : \/ q \in posts
                          \/ q.kind = "create"
                          \/ q.id \in ChangesPages!Used /\ q.stage # "read"
    <3> DEFINE r == [p EXCEPT !.stage = "refused"]
    <3>1. r.kind = p.kind /\ r.id = p.id /\ r.stage = "refused"
      BY DEF ChangesPages!TypeOK, ChangesPages!Creations, ChangesPages!Decisions
    <3>2. posts' = (posts \ {p}) \cup {r}
      BY <1>8 DEF ChangesPages!Fails, ChangesPages!Moved
    <3> HIDE DEF r
    <3> QED
      BY <1>a, <3>1, <3>2
  <2> QED
    BY <1>8, <1>a, <2>1, ChangesQuietStep DEF ChangesPages!Fails
<1>9. ASSUME NEW p \in posts, ChangesPages!Refused(p) PROVE ChangesSafe'
  BY <1>9, <1>a, ChangesQuietStep DEF ChangesPages!Refused
<1>10. ASSUME NEW p \in posts, ChangesPages!AskAnswered(p) PROVE ChangesSafe'
  <2>1. \A q \in posts' : \E r \in posts : r.kind = q.kind /\ r.id = q.id /\ r.stage = q.stage
    <3>1. posts \ {p} \in SUBSET posts /\ posts' = {[q EXCEPT !.open = FALSE] : q \in posts \ {p}}
      BY <1>10 DEF ChangesPages!AskAnswered
    <3> QED
      BY <1>b, <3>1
  <2> QED
    BY <1>10, <1>a, <2>1, ChangesQuietStep DEF ChangesPages!AskAnswered
<1>11. ASSUME NEW p \in posts, ChangesPages!DecisionAnswered(p) PROVE ChangesSafe'
  <2>1. review'.target \in ChangesPages!Used \cup {0}
    BY <1>11, <1>a DEF ChangesPages!DecisionAnswered, ChangesPages!TypeOK
  <2> QED
    BY <1>11, <2>1, ChangesQuietStep DEF ChangesPages!DecisionAnswered
<1>12. CASE ChangesPages!ListAnswered \/ ChangesPages!CancelReject
  <2>1. review'.target \in ChangesPages!Used \cup {0}
    BY <1>12, <1>a DEF ChangesPages!ListAnswered, ChangesPages!CancelReject, ChangesPages!TypeOK
  <2> QED
    BY <1>12, <2>1, ChangesQuietStep DEF ChangesPages!ListAnswered, ChangesPages!CancelReject
<1>13. CASE ChangesPages!ConfirmReject
  <2>1. /\ ChangesPages!Post("reject", NoKey, review.target).id = review.target
        /\ ChangesPages!Post("reject", NoKey, review.target).stage = "sent"
    BY DEF ChangesPages!Post
  <2>2. review.target \in ChangesPages!Used
    BY <1>13, <1>a DEF ChangesPages!ConfirmReject
  <2> QED
    BY <1>13, <1>a, <1>c, <2>1, <2>2, ChangesQuietStep DEF ChangesPages!ConfirmReject
<1>14. ASSUME NEW i \in ChangesPages!Used, ChangesPages!Approve(i) PROVE ChangesSafe'
  <2>1. /\ ChangesPages!Post("approve", NoKey, i).id = i /\ ChangesPages!Post("approve", NoKey, i).stage = "sent"
    BY DEF ChangesPages!Post
  <2> QED
    BY <1>14, <1>a, <1>c, <2>1, ChangesQuietStep DEF ChangesPages!Approve
<1>15. ASSUME NEW i \in ChangesPages!Used, ChangesPages!StartReject(i) PROVE ChangesSafe'
  <2>1. review'.target = i
    BY <1>15 DEF ChangesPages!StartReject, ChangesPages!TypeOK
  <2> QED
    BY <1>15, <2>1, ChangesQuietStep DEF ChangesPages!StartReject
<1>16. ASSUME NEW k \in Keys, ChangesPages!EditMember(k) PROVE ChangesSafe'
  BY <1>16, ChangesEditStep
<1> QED
  BY <1>1, <1>2, <1>3, <1>4, <1>5, <1>6, <1>7, <1>8, <1>9, <1>10, <1>11, <1>12, <1>13, <1>14, <1>15, <1>16
  DEF ChangesPages!Next

(* The change requests never leave their invariant. *)
THEOREM ChangesInvariant == Spec => []ChangesInv
<1>0. ChangesPages!ChangesAssumption
  BY MemberAssumption
<1>1. ChangesPages!Init => ChangesInv
  BY <1>0, ChangesInit
<1>2. ChangesInv /\ [ChangesPages!Next]_ChangesPages!changeVars => ChangesInv'
  <2> SUFFICES ASSUME ChangesInv, [ChangesPages!Next]_ChangesPages!changeVars PROVE ChangesInv'
    OBVIOUS
  <2>1. CASE ChangesPages!Next
    BY <1>0, <2>1, ChangesTypeStep, ChangesSafeStep DEF ChangesInv
  <2>2. CASE UNCHANGED ChangesPages!changeVars
    BY <2>2 DEF ChangesInv, ChangesSafe, ChangesPages!TypeOK, ChangesInOrder, DecisionsHold,
       ChangesPages!ApprovedIsInEffect, ChangesPages!Used, ChangesPages!Ids, ChangesPages!changeVars
  <2> QED
    BY <2>1, <2>2
<1> QED
  BY <1>1, <1>2, PartsBehave, PTL DEF ChangesPages!Spec

(* The name or cohort in effect is that of the last request that was approved, unless two
   decisions on one request overlapped. *)
THEOREM ApprovedIsInEffectHolds == Spec => []ApprovedIsInEffect
<1>1. ChangesInv => ApprovedIsInEffect
  BY DEF ChangesInv, ChangesSafe, ApprovedIsInEffect
<1> QED
  BY <1>1, ChangesInvariant, PTL

-----------------------------------------------------------------------------
(* The page of an event *)

\* The page of an event and the proofs about it.
EventProofs == INSTANCE EventPage_proofs WITH
  Members <- Guests, Processes <- Servers, MaxTicket <- MaxGuestTicket,
  exists <- open, capacity <- seats, status <- answer, joined <- since,
  pc <- step, req <- asking, candidate <- next

\* The page is the one the proofs are about: each definition reads the same in both.
LEMMA SamePage == EventPages!PageSpec => EventProofs!PageSpec
<1>1. EventPages!PageInit => EventProofs!PageInit
  BY DEF EventPages!PageInit, EventPages!Init, EventPages!Init_Panel, EventPages!NoRequest,
     EventProofs!PageInit, EventProofs!Init, EventProofs!Init_Panel, EventProofs!NoRequest
<1>2. [EventPages!PageNext]_EventPages!pageVars => [EventProofs!PageNext]_EventProofs!pageVars
  <2> USE DEF EventPages!vars, EventPages!table, EventPages!At, EventPages!Goto, EventPages!Leave, EventPages!Reject,
      EventPages!NoRequest, EventPages!Queried, EventPages!Unfollowed, EventPages!Settled, EventPages!Participating,
      EventProofs!vars, EventProofs!table, EventProofs!At, EventProofs!Goto, EventProofs!Leave, EventProofs!Reject,
      EventProofs!NoRequest, EventProofs!Queried, EventProofs!Unfollowed, EventProofs!Settled, EventProofs!Participating
  <2>1. UNCHANGED EventPages!pageVars => UNCHANGED EventProofs!pageVars
    BY DEF EventPages!pageVars, EventProofs!pageVars
  <2>2. /\ EventPages!Query => EventProofs!Query
        /\ EventPages!QueryAnswered => EventProofs!QueryAnswered
        /\ EventPages!QueryFailed => EventProofs!QueryFailed
        /\ EventPages!Press => EventProofs!Press
        /\ EventPages!CallServed => EventProofs!CallServed
        /\ EventPages!CallRefused => EventProofs!CallRefused
        /\ EventPages!CallLost => EventProofs!CallLost
    BY DEF EventPages!Query, EventPages!QueryAnswered, EventPages!QueryFailed, EventPages!Press,
       EventPages!CallServed, EventPages!CallRefused, EventPages!CallLost,
       EventProofs!Query, EventProofs!QueryAnswered, EventProofs!QueryFailed, EventProofs!Press,
       EventProofs!CallServed, EventProofs!CallRefused, EventProofs!CallLost
  <2>3. \A p \in Servers : /\ EventPages!Arrive(p) => EventProofs!Arrive(p)
                           /\ EventPages!BeginElsewhere(p) => EventProofs!BeginElsewhere(p)
    BY DEF EventPages!Arrive, EventPages!BeginElsewhere, EventPages!Begin,
       EventProofs!Arrive, EventProofs!BeginElsewhere, EventProofs!Begin
  <2>4. \A p \in Servers : EventPages!Serve(p) => EventProofs!Serve(p)
    <3>1. \A S : EventPages!Cardinality(S) = EventProofs!Cardinality(S)
      BY DEF EventPages!Cardinality, EventProofs!Cardinality
    <3>2. \A p \in Servers : EventPages!Count(p) => EventProofs!Count(p)
      BY <3>1 DEF EventPages!Count, EventPages!Normalize, EventPages!Going,
         EventProofs!Count, EventProofs!Normalize, EventProofs!Going
    <3> QED
    BY <3>2 DEF EventPages!Serve, EventPages!Reply, EventPages!ReadEvent, EventPages!Check, EventPages!UpdateFails,
       EventPages!Abort, EventPages!LoadRow, EventPages!Update, EventPages!Writes, EventPages!Promote,
       EventPages!LockCandidate, EventPages!Oldest, EventPages!Waiting, EventPages!Locked,
       EventPages!NobodyWaits, EventPages!CommitPromotion, EventPages!Insert,
       EventProofs!Serve, EventProofs!Reply, EventProofs!ReadEvent, EventProofs!Check, EventProofs!UpdateFails,
       EventProofs!Abort, EventProofs!LoadRow, EventProofs!Update, EventProofs!Writes, EventProofs!Promote,
       EventProofs!LockCandidate, EventProofs!Oldest, EventProofs!Waiting, EventProofs!Locked,
       EventProofs!NobodyWaits, EventProofs!CommitPromotion, EventProofs!Insert
  <2>5. EventPages!Administer => EventProofs!Administer
    BY DEF EventPages!Administer, EventPages!DeleteEvent, EventPages!UpdateEvent, EventPages!Locked,
       EventProofs!Administer, EventProofs!DeleteEvent, EventProofs!UpdateEvent, EventProofs!Locked
  <2>6. EventPages!PageNext => EventProofs!PageNext
    BY <2>2, <2>3, <2>4, <2>5 DEF EventPages!PageNext, EventProofs!PageNext
  <2> QED
    BY <2>1, <2>6
<1> QED
  BY <1>1, <1>2, PTL DEF EventPages!PageSpec, EventProofs!PageSpec

\* A page at rest that shows its member a place on the event's list is right.
THEOREM ShownPlaceHoldsHolds == Spec => []ShownPlaceHolds
<1>1. EventProofs!PageAssumption
  BY MemberAssumption DEF EventPages!PageAssumption, EventProofs!PageAssumption
<1>2. EventProofs!RsvpParameters
  BY MemberAssumption DEF EventPages!RsvpParameters, EventProofs!RsvpParameters
<1>3. EventProofs!PageSpec => []EventProofs!ShownPlaceHolds
  BY <1>1, <1>2, EventProofs!PlaceHolds
<1>4. EventProofs!ShownPlaceHolds => ShownPlaceHolds
  BY DEF ShownPlaceHolds, EventPages!ShownPlaceHolds, EventProofs!ShownPlaceHolds, EventPages!Participating,
     EventProofs!Participating
<1> QED
  BY <1>3, <1>4, SamePage, PartsBehave, PTL

-----------------------------------------------------------------------------
(* The RSVPs, one at a time *)

\* The server and the proofs about it.
RsvpProofs == INSTANCE RsvpCapacity_proofs

LEMMA SameCardinality ==
    \A S : Rsvps!Cardinality(S) = RsvpProofs!Cardinality(S) /\ (IsFiniteSet(S) <=> RsvpProofs!IsFiniteSet(S))
BY DEF Rsvps!Cardinality, RsvpProofs!Cardinality, IsFiniteSet, RsvpProofs!IsFiniteSet

\* The actions of the server are those the proofs are about.
LEMMA SameActions ==
    /\ \A p \in Processes :
           /\ Rsvps!Request(p) => RsvpProofs!Request(p)
           /\ Rsvps!LockCandidate(p) => RsvpProofs!LockCandidate(p)
           /\ Rsvps!NobodyWaits(p) => RsvpProofs!NobodyWaits(p)
           /\ Rsvps!CommitPromotion(p) <=> RsvpProofs!CommitPromotion(p)
           /\ Rsvps!Abort(p) <=> RsvpProofs!Abort(p)
    /\ \A c \in Capacities : Rsvps!UpdateEvent(c) => RsvpProofs!UpdateEvent(c)
    /\ Rsvps!DeleteEvent => RsvpProofs!DeleteEvent
<1> USE DEF Rsvps!table, Rsvps!At, Rsvps!Goto, Rsvps!Leave, Rsvps!Reject, Rsvps!NoRequest, Rsvps!Locked,
    RsvpProofs!table, RsvpProofs!At, RsvpProofs!Goto, RsvpProofs!Leave, RsvpProofs!Reject,
    RsvpProofs!NoRequest, RsvpProofs!Locked
<1>1. ASSUME NEW p \in Processes PROVE Rsvps!Count(p) => RsvpProofs!Count(p)
  BY SameCardinality DEF Rsvps!Count, Rsvps!Normalize, Rsvps!Going,
     RsvpProofs!Count, RsvpProofs!Normalize, RsvpProofs!Going
<1>2. ASSUME NEW p \in Processes PROVE Rsvps!Request(p) => RsvpProofs!Request(p)
  BY <1>1 DEF Rsvps!Request, Rsvps!Begin, Rsvps!ReadEvent, Rsvps!LoadRow, Rsvps!Check, Rsvps!Insert,
     Rsvps!Update, Rsvps!Writes, Rsvps!UpdateFails,
     RsvpProofs!Request, RsvpProofs!Begin, RsvpProofs!ReadEvent, RsvpProofs!LoadRow, RsvpProofs!Check,
     RsvpProofs!Insert, RsvpProofs!Update, RsvpProofs!Writes, RsvpProofs!UpdateFails
<1>3. ASSUME NEW p \in Processes
      PROVE  /\ Rsvps!LockCandidate(p) => RsvpProofs!LockCandidate(p)
             /\ Rsvps!NobodyWaits(p) => RsvpProofs!NobodyWaits(p)
             /\ Rsvps!CommitPromotion(p) <=> RsvpProofs!CommitPromotion(p)
             /\ Rsvps!Abort(p) <=> RsvpProofs!Abort(p)
  BY DEF Rsvps!LockCandidate, Rsvps!NobodyWaits, Rsvps!CommitPromotion, Rsvps!Abort, Rsvps!Oldest,
     Rsvps!Waiting, RsvpProofs!LockCandidate, RsvpProofs!NobodyWaits, RsvpProofs!CommitPromotion,
     RsvpProofs!Abort, RsvpProofs!Oldest, RsvpProofs!Waiting
<1>4. /\ \A c \in Capacities : Rsvps!UpdateEvent(c) => RsvpProofs!UpdateEvent(c)
      /\ Rsvps!DeleteEvent => RsvpProofs!DeleteEvent
  BY DEF Rsvps!UpdateEvent, Rsvps!DeleteEvent, RsvpProofs!UpdateEvent, RsvpProofs!DeleteEvent
<1> QED
  BY <1>2, <1>3, <1>4

LEMMA SameServer == Rsvps!Spec => RsvpProofs!Spec
<1>1. Rsvps!Init => RsvpProofs!Init
  BY DEF Rsvps!Init, Rsvps!NoRequest, RsvpProofs!Init, RsvpProofs!NoRequest
<1>2. [Rsvps!Next]_Rsvps!vars => [RsvpProofs!Next]_RsvpProofs!vars
  <2>1. UNCHANGED Rsvps!vars => UNCHANGED RsvpProofs!vars
    BY DEF Rsvps!vars, RsvpProofs!vars
  <2>2. Rsvps!Next => RsvpProofs!Next
    BY SameActions DEF Rsvps!Next, Rsvps!Promote, RsvpProofs!Next, RsvpProofs!Promote
  <2> QED
    BY <2>1, <2>2
<1> QED
  BY <1>1, <1>2, PTL DEF Rsvps!Spec, RsvpProofs!Spec

\* What the proofs assume of the constants.
LEMMA ServerConstants == RsvpProofs!RsvpParameters
BY MemberAssumption DEF Rsvps!RsvpParameters, RsvpProofs!RsvpParameters

\* One at a time and with a fixed capacity, requests overbook only by a promotion that
\* follows a cancellation which freed no seat.
THEOREM SeatsAreAccountedHolds ==
    ASSUME IsFiniteSet(Members), \E p : Processes = {p}, \E c : Capacities = {c}
    PROVE  Spec => SeatsAreAccounted
<1>1. RsvpProofs!InTurn /\ RsvpProofs!IsFiniteSet(Members)
  BY SameCardinality DEF RsvpProofs!InTurn, RsvpProofs!OneByOne
<1>2. RsvpProofs!Spec => RsvpProofs!SeatsAreAccounted
  BY <1>1, ServerConstants, RsvpProofs!SeatsAccounted
<1>3. Rsvps!SeatsTaken = RsvpProofs!SeatsTaken /\ (Rsvps!SeatsTaken = RsvpProofs!SeatsTaken)'
  BY SameCardinality DEF Rsvps!SeatsTaken, Rsvps!Going, RsvpProofs!SeatsTaken, RsvpProofs!Going
<1> DEFINE Here  == Rsvps!SeatsTaken' > Rsvps!SeatsTaken /\ Rsvps!SeatsTaken' > capacity
                    => \E p \in Processes : Rsvps!CommitPromotion(p) /\ req[p].loaded # "going"
           There == RsvpProofs!SeatsTaken' > RsvpProofs!SeatsTaken /\ RsvpProofs!SeatsTaken' > capacity
                    => \E p \in Processes : RsvpProofs!CommitPromotion(p) /\ req[p].loaded # "going"
<1>4. [There]_RsvpProofs!vars => [Here]_Rsvps!vars
  BY <1>3, SameActions DEF Rsvps!vars, RsvpProofs!vars
<1>5. RsvpProofs!SeatsAreAccounted <=> [][There]_RsvpProofs!vars
  BY PTL DEF RsvpProofs!SeatsAreAccounted
<1>6. SeatsAreAccounted <=> [][Here]_Rsvps!vars
  BY PTL DEF SeatsAreAccounted, Rsvps!SeatsAreAccounted
<1> QED
  BY <1>2, <1>4, <1>5, <1>6, PartsBehave, SameServer, PTL

\* One at a time, with a fixed capacity and nobody asking for the waitlist, requests waste a
\* seat only by breaking off between two commits.
THEOREM OnlyAbortWastesASeatHolds ==
    ASSUME IsFiniteSet(Members), \E p : Processes = {p}, \E c : Capacities = {c}, "waitlist" \notin Requests
    PROVE  Spec => OnlyAbortWastesASeat
<1>1. RsvpProofs!InTurn /\ RsvpProofs!IsFiniteSet(Members)
  BY SameCardinality DEF RsvpProofs!InTurn, RsvpProofs!OneByOne
<1>2. RsvpProofs!Spec => RsvpProofs!OnlyAbortWastesASeat
  BY <1>1, ServerConstants, RsvpProofs!AbortWastes
<1>3. (Rsvps!SeatWasted <=> RsvpProofs!SeatWasted) /\ (Rsvps!SeatWasted <=> RsvpProofs!SeatWasted)'
  BY SameCardinality DEF Rsvps!SeatWasted, Rsvps!Going, Rsvps!Promoting,
     RsvpProofs!SeatWasted, RsvpProofs!Going, RsvpProofs!Promoting
<1> DEFINE Here  == ~Rsvps!SeatWasted /\ Rsvps!SeatWasted' => \E p \in Processes : Rsvps!Abort(p)
           There == ~RsvpProofs!SeatWasted /\ RsvpProofs!SeatWasted' => \E p \in Processes : RsvpProofs!Abort(p)
<1>4. [There]_RsvpProofs!vars => [Here]_Rsvps!vars
  BY <1>3, SameActions DEF Rsvps!vars, RsvpProofs!vars
<1>5. RsvpProofs!OnlyAbortWastesASeat <=> [][There]_RsvpProofs!vars
  BY PTL DEF RsvpProofs!OnlyAbortWastesASeat
<1>6. OnlyAbortWastesASeat <=> [][Here]_Rsvps!vars
  BY PTL DEF OnlyAbortWastesASeat, Rsvps!OnlyAbortWastesASeat
<1> QED
  BY <1>2, <1>4, <1>5, <1>6, PartsBehave, SameServer, PTL
=============================================================================
