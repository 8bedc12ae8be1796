------------------------------ MODULE EventPage ------------------------------
(***************************************************************************)
(* The page of an event as one member sees it, composed with the server    *)
(* that gives out the seats: the query for the member's own answer, the    *)
(* button that applies or cancels, and the requests of everybody else,     *)
(* another window of the same member included.                             *)
(***************************************************************************)
EXTENDS RsvpCapacity

CONSTANT Reader  \* the member

PageAssumption == Reader \in Members /\ None \notin Processes

VARIABLE panel   \* the panel "apply"; history: whether a request that the page does not
                 \* follow may have changed the row since the last query was sent

pageVars == <<vars, panel>>

Init_Panel ==
    panel = [data |-> "unknown", asked |-> {}, error |-> FALSE,
             call |-> "idle", at |-> None, reply |-> "none", unsure |-> FALSE]

PageInit == Init /\ Init_Panel

\* getRsvpExperience: a waiting member takes part too.
Participating(s) == s \in {"going", "waitlist"}

\* A request for the member that the page does not wait for.
Unfollowed ==
    \E p \in Processes : pc[p] # "idle" /\ req[p].member = Reader /\ p # panel.at

\* The query reads the row; a request still under way may yet change it.
Queried(panelNow) ==
    [panelNow EXCEPT !.asked = {status[Reader]}, !.unsure = @ /\ Unfollowed]

\* The mutation stays pending until the query it has caused is over.
Settled(panelNow) == [panelNow EXCEPT !.call = IF @ = "settling" THEN "idle" ELSE @]

-----------------------------------------------------------------------------
(* The page *)

\* When it opens, by the button of the error, on a return to the page.
Query ==
    /\ panel.asked = {}
    /\ panel' = Queried(panel)
    /\ UNCHANGED vars

QueryAnswered ==
    /\ \E s \in panel.asked :
           panel' = Settled([panel EXCEPT !.data = s, !.asked = {}, !.error = FALSE])
    /\ UNCHANGED vars

QueryFailed ==
    /\ panel.asked # {}
    /\ panel' = Settled([panel EXCEPT !.asked = {}, !.error = TRUE])
    /\ UNCHANGED vars

\* One button, which a failed query hides: to cancel for who takes part, to apply for
\* the others once their answer is loaded.
Press ==
    /\ panel.call = "idle" /\ ~panel.error /\ panel.data # "unknown"
    /\ panel' = [panel EXCEPT !.call = IF Participating(panel.data) THEN "cancel" ELSE "going"]
    /\ UNCHANGED vars

\* Mutant: the query is not sent again.
CallServed_NotQueried ==
    /\ panel.reply = "ok"
    /\ panel' = [panel EXCEPT !.call = "idle", !.reply = "none"]
    /\ UNCHANGED vars

\* The query is sent again, an older one being dropped.
CallServed ==
    /\ panel.reply = "ok"
    /\ panel' = Queried([panel EXCEPT !.call = "settling", !.reply = "none"])
    /\ UNCHANGED vars

\* Nothing is fetched after an error, though the cancellation may have been committed
\* before the promotion failed.
CallRefused ==
    /\ panel.reply = "error"
    /\ panel' = [panel EXCEPT !.call = "idle", !.reply = "none", !.unsure = TRUE]
    /\ UNCHANGED vars

\* The connection fails; what the server does goes on.
CallLost ==
    /\ panel.call \in {"going", "cancel"}
    /\ panel' = [panel EXCEPT !.call = "idle", !.at = None, !.reply = "none", !.unsure = TRUE]
    /\ UNCHANGED vars

-----------------------------------------------------------------------------
(* The server *)

\* The call of the page reaches a process.
Arrive(p) ==
    /\ panel.call \in {"going", "cancel"} /\ panel.at = None /\ panel.reply = "none"
    /\ Begin(p)
    /\ req'[p].member = Reader /\ req'[p].wanted = panel.call /\ ~req'[p].create
    /\ panel' = [panel EXCEPT !.at = p]

\* A request of another member, or of this one from another window.
BeginElsewhere(p) ==
    /\ Begin(p)
    /\ panel' = [panel EXCEPT !.unsure = @ \/ req'[p].member = Reader]

\* A process that ends the call of the page replies to it.
Reply(p, r) ==
    panel' = IF p = panel.at /\ pc'[p] = "idle" THEN [panel EXCEPT !.at = None, !.reply = r]
             ELSE panel

Serve(p) ==
    \/ /\ ReadEvent(p) \/ Check(p) \/ UpdateFails(p) \/ Abort(p)
       /\ Reply(p, "error")
    \/ /\ LoadRow(p) \/ Count(p) \/ Update(p) \/ Promote(p)
       /\ Reply(p, "ok")
    \/ /\ Insert(p)
       /\ Reply(p, IF exists /\ status[req[p].member] = "none" THEN "ok" ELSE "error")

Administer ==
    /\ DeleteEvent \/ \E c \in Capacities : UpdateEvent(c)
    /\ UNCHANGED panel

PageNext ==
    \/ Query \/ QueryAnswered \/ QueryFailed
    \/ Press \/ CallServed \/ CallRefused \/ CallLost
    \/ \E p \in Processes : Arrive(p) \/ BeginElsewhere(p) \/ Serve(p)
    \/ Administer

PageSpec == PageInit /\ [][PageNext]_pageVars

-----------------------------------------------------------------------------
(* Properties *)

\* The type of the page's variable, and of the server's.
PageTypeOK ==
    /\ TypeOK
    /\ panel \in [data : Status \cup {"unknown"}, asked : SUBSET Status, error : BOOLEAN,
                  call : {"idle", "going", "cancel", "settling"}, at : Processes \cup {None},
                  reply : {"none", "ok", "error"}, unsure : BOOLEAN]

\* A page at rest that shows its member a seat, or a place on the waitlist, and no error,
\* is right as long as the event exists: no request of others, no new capacity and no
\* promotion takes it away.  Only a request the page does not follow, from another window
\* or one whose answer was an error or got lost, can have given it up.
ShownPlaceHolds ==
    panel.call = "idle" /\ panel.asked = {} /\ ~panel.error /\ exists /\ ~panel.unsure =>
        /\ panel.data = "going" => status[Reader] = "going"
        /\ panel.data = "waitlist" => Participating(status[Reader])
==============================================================================
