-------------------------- MODULE EventPage_proofs --------------------------
(***************************************************************************)
(* Proofs about the page of an event, on top of those about the server: a  *)
(* place that the page shows its member is kept, whatever number of other  *)
(* members and windows ask for a seat at the same time.                    *)
(***************************************************************************)
EXTENDS EventPage, RsvpCapacity_proofs

\* What the row may still become of a place that was read: a waiting member may be promoted.
Upheld(s) ==
    /\ s = "going" => status[Reader] = "going"
    /\ s = "waitlist" => Participating(status[Reader])

\* The process that the page waits for serves the page's call, which has no reply yet.
CallFollowed ==
    /\ panel.at # None => /\ pc[panel.at] # "idle" /\ req[panel.at].member = Reader
                          /\ panel.call \in {"going", "cancel"}
                          /\ panel.reply = "none"
    /\ panel.reply # "none" => panel.call \in {"going", "cancel"}

\* A page that is sure of itself waits for every request for its member.
SureOfOthers ==
    ~panel.unsure =>
        \A p \in Processes : pc[p] # "idle" /\ req[p].member = Reader => p = panel.at

\* While no call is under way, what a query has read or the page shows is still upheld.
AnswersHold ==
    exists /\ ~panel.unsure /\ panel.call \in {"idle", "settling"} =>
        /\ \A s \in panel.asked : Upheld(s)
        /\ panel.call = "idle" /\ panel.asked = {} /\ ~panel.error => Upheld(panel.data)

PanelType ==
    panel \in [data : Status \cup {"unknown"}, asked : SUBSET Status, error : BOOLEAN,
               call : {"idle", "going", "cancel", "settling"}, at : Processes \cup {None},
               reply : {"none", "ok", "error"}, unsure : BOOLEAN]

PageInv == RsvpInv /\ PanelType /\ CallFollowed /\ SureOfOthers /\ AnswersHold

-----------------------------------------------------------------------------
(* The server *)

LEMMA ServerStep == PageNext => [Next]_vars
BY DEF PageNext, Query, QueryAnswered, QueryFailed, Press, CallServed, CallRefused, CallLost,
       Arrive, BeginElsewhere, Serve, Administer, Next, Request

\* A request that ends.
LEMMA LeaveFacts ==
    ASSUME TypeOK, NEW p \in Processes, Leave(p)
    PROVE  /\ pc'[p] = "idle"
           /\ \A q \in Processes : q # p => pc'[q] = pc[q] /\ req'[q] = req[q]
BY DEF Leave, Goto, TypeOK

\* A step of a process leaves the other requests, and the member of its own.
LEMMA ServeFacts ==
    ASSUME TypeOK, NEW p \in Processes, Serve(p)
    PROVE  /\ pc[p] # "idle"
           /\ \A q \in Processes : q # p => pc'[q] = pc[q] /\ req'[q] = req[q]
           /\ pc'[p] = "idle" \/ req'[p].member = req[p].member
           /\ panel' = panel \/ /\ p = panel.at /\ pc'[p] = "idle"
                                /\ \E r \in {"ok", "error"} :
                                       panel' = [panel EXCEPT !.at = None, !.reply = r]
<1>1. pc[p] # "idle"
  BY DEF Serve, ReadEvent, Check, UpdateFails, Abort, LoadRow, Count, Update, Promote, LockCandidate,
         NobodyWaits, CommitPromotion, Insert, At
<1>2. panel' = panel \/ /\ p = panel.at /\ pc'[p] = "idle"
                        /\ \E r \in {"ok", "error"} :
                               panel' = [panel EXCEPT !.at = None, !.reply = r]
  BY DEF Serve, Reply
<1>3. /\ \A q \in Processes : q # p => pc'[q] = pc[q] /\ req'[q] = req[q]
      /\ pc'[p] = "idle" \/ req'[p].member = req[p].member
  <2>1. CASE Leave(p)
    BY <2>1, LeaveFacts
  <2>2. CASE ReadEvent(p)
    BY <2>1, <2>2 DEF ReadEvent, Reject, Goto, TypeOK, RequestRecords
  <2>3. CASE LoadRow(p) \/ Count(p)
    BY <2>3 DEF LoadRow, Count, Goto, TypeOK, RequestRecords
  <2>4. CASE Check(p) \/ Update(p) \/ LockCandidate(p)
    BY <2>1, <2>4 DEF Check, Update, LockCandidate, Reject, Goto, TypeOK
  <2>5. CASE UpdateFails(p) \/ Abort(p) \/ NobodyWaits(p) \/ CommitPromotion(p) \/ Insert(p)
    BY <2>1, <2>5 DEF UpdateFails, Abort, NobodyWaits, CommitPromotion, Insert, Reject
  <2> QED
    BY <2>2, <2>3, <2>4, <2>5 DEF Serve, Promote
<1> QED
  BY <1>1, <1>2, <1>3

\* A new request.
LEMMA BeginFacts ==
    ASSUME TypeOK, NEW p \in Processes, Begin(p)
    PROVE  /\ pc[p] = "idle" /\ pc'[p] = "event"
           /\ \A q \in Processes : q # p => pc'[q] = pc[q] /\ req'[q] = req[q]
           /\ UNCHANGED table
BY DEF Begin, At, Goto, TypeOK

\* Without a request for the reader, the row only moves up while the event exists.
LEMMA RowUpheld ==
    ASSUME PageAssumption, RsvpInv, [Next]_vars, exists',
           \A p \in Processes : pc[p] # "idle" => req[p].member # Reader,
           NEW s, Upheld(s)
    PROVE  Upheld(s)'
<1>1. Reader \in Members
  BY DEF PageAssumption
<1>2. ASSUME NEW p \in Processes, Insert(p) \/ Update(p) PROVE req[p].member # Reader
  BY <1>2 DEF Insert, Update, At
<1>3. \/ status'[Reader] = status[Reader]
      \/ status[Reader] = "waitlist" /\ status'[Reader] = "going"
  BY <1>1, <1>2, RowStep
<1> QED
  BY <1>3 DEF Upheld, Participating

\* A sure page without a call under way: what it has read is upheld by every step.
LEMMA AnswersKept ==
    ASSUME PageAssumption, PageInv, [Next]_vars,
           panel'.call = panel.call, panel'.asked = panel.asked, panel'.data = panel.data,
           panel'.error = panel.error, panel'.unsure \/ ~panel.unsure
    PROVE  AnswersHold'
<1> SUFFICES ASSUME exists', ~panel'.unsure, panel.call \in {"idle", "settling"}
             PROVE  /\ \A s \in panel.asked : Upheld(s)'
                    /\ panel.call = "idle" /\ panel.asked = {} /\ ~panel.error => Upheld(panel.data)'
  BY DEF AnswersHold, Upheld
<1>1. exists
  BY DEF Next, Request, Promote, Begin, ReadEvent, LoadRow, Count, Check, Insert, Update, UpdateFails,
         LockCandidate, NobodyWaits, CommitPromotion, Abort, UpdateEvent, DeleteEvent, Reject, table, vars
<1>2. \A p \in Processes : pc[p] # "idle" => req[p].member # Reader
  BY DEF PageInv, CallFollowed, SureOfOthers, PageAssumption
<1>3. /\ \A s \in panel.asked : Upheld(s)
      /\ panel.call = "idle" /\ panel.asked = {} /\ ~panel.error => Upheld(panel.data)
  BY <1>1 DEF PageInv, AnswersHold
<1>4. \A s : Upheld(s) => Upheld(s)'
  BY <1>2, RowUpheld DEF PageInv
<1> QED
  BY <1>3, <1>4

-----------------------------------------------------------------------------
(* The steps *)

LEMMA ServeStep ==
    ASSUME PageAssumption, PageInv, NEW p \in Processes, Serve(p)
    PROVE  PanelType' /\ CallFollowed' /\ SureOfOthers' /\ AnswersHold'
<1>0. TypeOK /\ PanelType /\ CallFollowed /\ SureOfOthers
  BY DEF PageInv, RsvpInv
<1>1. /\ pc[p] # "idle"
      /\ \A q \in Processes : q # p => pc'[q] = pc[q] /\ req'[q] = req[q]
      /\ pc'[p] = "idle" \/ req'[p].member = req[p].member
  BY <1>0, ServeFacts
<1>2. \/ panel' = panel /\ (p # panel.at \/ pc'[p] # "idle")
      \/ /\ p = panel.at /\ pc'[p] = "idle"
         /\ \E r \in {"ok", "error"} : panel' = [panel EXCEPT !.at = None, !.reply = r]
  BY DEF Serve, Reply
<1>3. AnswersHold'
  <2>1. [Next]_vars
    BY ServerStep DEF PageNext
  <2>2. /\ panel'.call = panel.call /\ panel'.asked = panel.asked /\ panel'.data = panel.data
        /\ panel'.error = panel.error /\ panel'.unsure = panel.unsure
    BY <1>0, <1>2 DEF PanelType
  <2> QED
    BY <2>1, <2>2, AnswersKept
<1>4. CASE panel' = panel /\ (p # panel.at \/ pc'[p] # "idle")
  BY <1>0, <1>1, <1>3, <1>4 DEF PanelType, CallFollowed, SureOfOthers, PageAssumption, Status
<1>5. ASSUME p = panel.at, pc'[p] = "idle", NEW r \in {"ok", "error"},
             panel' = [panel EXCEPT !.at = None, !.reply = r]
      PROVE  PanelType' /\ CallFollowed' /\ SureOfOthers'
  <2>1. PanelType'
    BY <1>0, <1>5 DEF PanelType, Status
  <2>2. /\ panel'.at = None /\ panel'.reply = r /\ panel'.call = panel.call
        /\ panel'.unsure = panel.unsure
    BY <1>0, <1>5 DEF PanelType
  <2>3. panel.call \in {"going", "cancel"}
    BY <1>0, <1>5 DEF CallFollowed, PageAssumption
  <2>4. CallFollowed' /\ SureOfOthers'
    BY <1>0, <1>1, <1>5, <2>2, <2>3 DEF CallFollowed, SureOfOthers
  <2> QED
    BY <2>1, <2>4
<1> QED
  BY <1>2, <1>3, <1>4, <1>5

\* A request begins: the page's own, or one that it does not follow.
LEMMA BeginStep ==
    ASSUME PageAssumption, PageInv, NEW p \in Processes, Arrive(p) \/ BeginElsewhere(p)
    PROVE  PanelType' /\ CallFollowed' /\ SureOfOthers' /\ AnswersHold'
<1>0. TypeOK /\ PanelType /\ CallFollowed /\ SureOfOthers
  BY DEF PageInv, RsvpInv
<1>1. /\ pc[p] = "idle" /\ pc'[p] = "event"
      /\ \A q \in Processes : q # p => pc'[q] = pc[q] /\ req'[q] = req[q]
  BY <1>0, BeginFacts DEF Arrive, BeginElsewhere
<1>2. [Next]_vars
  BY ServerStep DEF PageNext
<1>3. CASE Arrive(p)
  <2>1. panel' = [panel EXCEPT !.at = p] /\ req'[p].member = Reader
        /\ panel.at = None /\ panel.reply = "none" /\ panel.call \in {"going", "cancel"}
    BY <1>3 DEF Arrive
  <2>2. /\ panel'.at = p /\ panel'.reply = "none" /\ panel'.call = panel.call /\ panel'.data = panel.data
        /\ panel'.asked = panel.asked /\ panel'.error = panel.error /\ panel'.unsure = panel.unsure
    BY <1>0, <2>1 DEF PanelType
  <2>3. PanelType'
    BY <1>0, <2>1 DEF PanelType, Status
  <2>4. CallFollowed' /\ SureOfOthers'
    BY <1>0, <1>1, <2>1, <2>2 DEF CallFollowed, SureOfOthers, PageAssumption
  <2> QED
    BY <1>2, <2>2, <2>3, <2>4, AnswersKept
<1>4. CASE BeginElsewhere(p)
  <2>1. PICK u : u = (panel.unsure \/ req'[p].member = Reader) /\ panel' = [panel EXCEPT !.unsure = u]
    BY <1>4 DEF BeginElsewhere
  <2>2. u \in BOOLEAN
    BY <2>1
  <2>3. /\ panel'.at = panel.at /\ panel'.reply = panel.reply /\ panel'.call = panel.call
        /\ panel'.data = panel.data /\ panel'.asked = panel.asked /\ panel'.error = panel.error
        /\ panel'.unsure = u
    BY <1>0, <2>1 DEF PanelType
  <2>4. PanelType'
    BY <1>0, <2>1, <2>2 DEF PanelType, Status
  <2>5. CallFollowed'
    BY <1>0, <1>1, <2>3 DEF CallFollowed, PanelType
  <2>6. SureOfOthers'
    BY <1>0, <1>1, <2>1, <2>3 DEF SureOfOthers
  <2> QED
    BY <1>2, <2>1, <2>3, <2>4, <2>5, <2>6, AnswersKept
<1> QED
  BY <1>3, <1>4

LEMMA AdministerStep ==
    ASSUME PageAssumption, PageInv, Administer
    PROVE  PanelType' /\ CallFollowed' /\ SureOfOthers' /\ AnswersHold'
<1>1. UNCHANGED <<pc, req, panel>>
  BY DEF Administer, DeleteEvent, UpdateEvent
<1>2. [Next]_vars
  BY ServerStep DEF PageNext
<1>3. AnswersHold'
  BY <1>1, <1>2, AnswersKept DEF PageInv, PanelType
<1> QED
  BY <1>1, <1>3 DEF PageInv, PanelType, CallFollowed, SureOfOthers, Status

\* The query is sent, at once or after the page's call: its answer is upheld when it is read.
LEMMA QueriedStep ==
    ASSUME PageAssumption, PageInv, Query \/ CallServed
    PROVE  PanelType' /\ CallFollowed' /\ SureOfOthers' /\ AnswersHold'
<1>0. TypeOK /\ PanelType /\ CallFollowed /\ SureOfOthers /\ UNCHANGED vars
  BY DEF PageInv, RsvpInv, Query, CallServed
<1>1. PICK u : u = (panel.unsure /\ Unfollowed)
  OBVIOUS
<1>2. status[Reader] \in Status
  BY <1>0 DEF TypeOK, PageAssumption
<1>3. /\ panel'.asked = {status[Reader]} /\ panel'.unsure = u /\ panel'.at = panel.at
      /\ \/ panel'.call = panel.call /\ panel'.reply = panel.reply
         \/ panel.reply = "ok" /\ panel'.call = "settling" /\ panel'.reply = "none"
      /\ PanelType'
  <2>1. u \in BOOLEAN
    BY <1>1
  <2>2. CASE Query
    <3>1. panel' = [panel EXCEPT !.asked = {status[Reader]}, !.unsure = u]
      BY <1>1, <2>2 DEF Query, Queried
    <3> QED
      BY <1>0, <1>2, <2>1, <3>1 DEF PanelType, Status
  <2>3. CASE CallServed
    <3>1. panel.reply = "ok"
          /\ panel' = [panel EXCEPT !.call = "settling", !.reply = "none",
                                    !.asked = {status[Reader]}, !.unsure = u]
      BY <1>0, <1>1, <2>3 DEF CallServed, Queried, PanelType
    <3> QED
      BY <1>0, <1>2, <2>1, <3>1 DEF PanelType, Status
  <2> QED
    BY <2>2, <2>3
<1>4. CallFollowed'
  BY <1>0, <1>3 DEF CallFollowed, PageAssumption, vars
<1>5. SureOfOthers'
  BY <1>0, <1>1, <1>3 DEF SureOfOthers, Unfollowed, vars
<1>6. AnswersHold'
  BY <1>0, <1>3 DEF AnswersHold, Upheld, Participating, vars
<1> QED
  BY <1>3, <1>4, <1>5, <1>6

\* An answer, or none.
LEMMA AnswerStep ==
    ASSUME PageAssumption, PageInv, QueryAnswered \/ QueryFailed
    PROVE  PanelType' /\ CallFollowed' /\ SureOfOthers' /\ AnswersHold'
<1>0. PanelType /\ CallFollowed /\ SureOfOthers /\ AnswersHold /\ UNCHANGED vars
  BY DEF PageInv, QueryAnswered, QueryFailed
<1>1. PICK c : c = IF panel.call = "settling" THEN "idle" ELSE panel.call
  OBVIOUS
<1>2. c \in {"idle", "going", "cancel"} /\ (c # panel.call => panel.call = "settling" /\ c = "idle")
  BY <1>0, <1>1 DEF PanelType
<1>3. \/ \E s \in panel.asked :
             panel' = [panel EXCEPT !.data = s, !.asked = {}, !.error = FALSE, !.call = c]
      \/ panel' = [panel EXCEPT !.asked = {}, !.error = TRUE, !.call = c]
  BY <1>0, <1>1 DEF QueryAnswered, QueryFailed, Settled, PanelType
<1>4. /\ panel'.asked = {} /\ panel'.call = c /\ panel'.unsure = panel.unsure
      /\ panel'.at = panel.at /\ panel'.reply = panel.reply
      /\ panel'.error \/ panel'.data \in panel.asked
      /\ PanelType'
  BY <1>0, <1>2, <1>3 DEF PanelType, Status
<1>5. CallFollowed'
  BY <1>0, <1>2, <1>4 DEF CallFollowed, PageAssumption, vars
<1>6. SureOfOthers'
  BY <1>0, <1>4 DEF SureOfOthers, vars
<1>7. AnswersHold'
  BY <1>0, <1>2, <1>4 DEF AnswersHold, Upheld, Participating, vars
<1> QED
  BY <1>4, <1>5, <1>6, <1>7

\* The button is pressed, or the call fails for the page.
LEMMA CallStep ==
    ASSUME PageAssumption, PageInv, Press \/ CallRefused \/ CallLost
    PROVE  PanelType' /\ CallFollowed' /\ SureOfOthers' /\ AnswersHold'
<1>0. PanelType /\ CallFollowed /\ SureOfOthers /\ UNCHANGED vars
  BY DEF PageInv, Press, CallRefused, CallLost
<1>1. CASE Press
  <2>1. PICK c \in {"going", "cancel"} : panel' = [panel EXCEPT !.call = c]
    BY <1>1 DEF Press
  <2>2. /\ panel'.call = c /\ panel'.at = panel.at /\ panel'.reply = panel.reply
        /\ panel'.unsure = panel.unsure /\ panel.call = "idle" /\ PanelType'
    BY <1>0, <1>1, <2>1 DEF Press, PanelType, Status
  <2> QED
    BY <1>0, <2>2 DEF CallFollowed, SureOfOthers, AnswersHold, PageAssumption, vars
<1>2. CASE CallRefused \/ CallLost
  <2>1. /\ panel'.call = "idle" /\ panel'.at = None /\ panel'.reply = "none" /\ panel'.unsure = TRUE
        /\ PanelType'
    BY <1>0, <1>2 DEF CallRefused, CallLost, CallFollowed, PanelType, Status
  <2> QED
    BY <2>1 DEF CallFollowed, SureOfOthers, AnswersHold
<1> QED
  BY <1>1, <1>2

-----------------------------------------------------------------------------
(* The theorems *)

LEMMA PageInvInit == ASSUME PageAssumption, PageInit PROVE PageInv
<1>1. RsvpInv
  BY RsvpInvInit DEF PageInit
<1>2. PanelType
  BY DEF PageInit, Init_Panel, PanelType, Status
<1>3. CallFollowed /\ SureOfOthers /\ AnswersHold
  BY DEF PageInit, Init, Init_Panel, CallFollowed, SureOfOthers, AnswersHold, Upheld
<1> QED
  BY <1>1, <1>2, <1>3 DEF PageInv

LEMMA PageInvStep == ASSUME PageAssumption, PageInv, [PageNext]_pageVars PROVE PageInv'
<1>1. RsvpInv'
  <2>1. [Next]_vars
    BY ServerStep DEF pageVars
  <2> QED
    BY <2>1, RsvpInvStep DEF PageInv
<1>2. PanelType' /\ CallFollowed' /\ SureOfOthers' /\ AnswersHold'
  <2>1. CASE UNCHANGED pageVars
    BY <2>1 DEF PageInv, pageVars, vars, PanelType, CallFollowed, SureOfOthers, AnswersHold, Upheld,
                Participating, Status
  <2>2. CASE PageNext
    BY <2>2, ServeStep, BeginStep, AdministerStep, QueriedStep, AnswerStep, CallStep DEF PageNext
  <2> QED
    BY <2>1, <2>2
<1> QED
  BY <1>1, <1>2 DEF PageInv

\* The inductive invariant of the page of an event: that of the server, a process that
\* serves the call the page waits for, no other request for its member unless the page is
\* unsure, and answers that are still upheld.
THEOREM PageInvariant == ASSUME PageAssumption PROVE PageSpec => []PageInv
BY PageInvInit, PageInvStep, PTL DEF PageSpec

\* A page at rest that shows its member a place is right, for any number of members,
\* windows and concurrent requests (rsvp-panel, upsert_rsvp_status).
THEOREM PlaceHolds == ASSUME PageAssumption PROVE PageSpec => []ShownPlaceHolds
<1>1. PageInv => ShownPlaceHolds
  BY DEF PageInv, AnswersHold, Upheld, ShownPlaceHolds
<1> QED
  BY <1>1, PageInvariant, PTL
=============================================================================
