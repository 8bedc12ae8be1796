-------------------------- MODULE PushSubscriptions --------------------------
(***************************************************************************)
(* Turning notifications on and off: one browser that several members use, *)
(* the buttons of its header and of its drawer, the subscription rows at   *)
(* the server, and the administrators' broadcast, which removes the rows   *)
(* of the endpoints the push service calls gone.                           *)
(***************************************************************************)
EXTENDS Naturals, FiniteSets

CONSTANTS Owners,         \* members who log in with the browser
          Nobody,
          MaxEndpoints,   \* bound: endpoints the push service gives to the browser
          MaxLogins,      \* bound: logins
          MaxAttempts,    \* bound: uses of the buttons
          MaxFlights,     \* bound: calls under way at a time
          MaxBroadcasts   \* bound: broadcasts

PushAssumption ==
  /\ Nobody \notin Owners /\ IsFiniteSet(Owners) /\ MaxEndpoints \in Nat \ {0}
  /\ MaxLogins \in Nat /\ MaxAttempts \in Nat /\ MaxBroadcasts \in Nat

VARIABLES
  session,    \* the member who is logged in
  browser,    \* its push subscription, the endpoints given to it, those that died
  buttons,    \* each button: its effect to come, its state, the call it awaits
  requests,   \* the calls on their way
  store,      \* the owner of the row of each endpoint
  broadcast,  \* the broadcast under way: endpoints to call, endpoints called gone
  said        \* history: what the last attempt reported, to whom; attempts and logins used

pushVars == <<session, browser, buttons, requests, store, broadcast, said>>

Sources   == {"header", "drawer"}
Issued    == 1..MaxEndpoints
NoSub     == 0
Stored    == {e \in Issued : store[e] # Nobody}

Unmounted == [hook |-> "unmounted", subscribed |-> FALSE, awaits |-> "nothing"]
Mounted   == [Unmounted EXCEPT !.hook = "waiting"]

Request(kind, e, from) ==
  [kind |-> kind, endpoint |-> e, by |-> session, from |-> from, stage |-> "sent"]

----------------------------------------------------------------------------
Init ==
  /\ session = Nobody
  /\ browser = [sub |-> NoSub, given |-> 0, dead |-> {}]
  /\ buttons = [c \in Sources |-> Unmounted]
  /\ requests = {}
  /\ store = [e \in Issued |-> Nobody]
  /\ broadcast = [stage |-> "idle", todo |-> {}, gone |-> {}, used |-> 0]
  /\ said = [word |-> "nothing", endpoint |-> NoSub, to |-> Nobody, unsure |-> FALSE,
             attempts |-> 0, logins |-> 0]

\* There is room for one more call.
Room == Cardinality(requests) < MaxFlights

\* Nobody waits for the answer to an automatic save, or after the page was left.
Heard(rs) == {r \in rs : r.stage = "sent" \/ r.from \notin {"sync", "unloaded"}}

\* -- the browser's page ---------------------------------------------------

LogIn(m) ==
  /\ session = Nobody /\ said.logins < MaxLogins
  /\ session' = m
  /\ buttons' = [buttons EXCEPT !["header"] = Mounted]
  /\ said' = [said EXCEPT !.logins = @ + 1]
  /\ UNCHANGED <<browser, requests, store, broadcast>>

\* Whether the logout succeeded or not, the login page is loaded: what the page was
\* doing is forgotten, what it sent is not.
LogOut ==
  /\ session # Nobody
  /\ \E s \in {Nobody, session} :
       /\ session' = s
       /\ buttons' = [c \in Sources |-> IF c = "header" /\ s # Nobody THEN Mounted ELSE Unmounted]
  /\ requests' = Heard({[r EXCEPT !.from = "unloaded"] : r \in requests})
  /\ UNCHANGED <<browser, store, broadcast, said>>

\* A drawer that was closed and opened has a new button; an attempt of the old one goes on.
OpenDrawer ==
  /\ session # Nobody
  /\ buttons' = [buttons EXCEPT !["drawer"] = Mounted]
  /\ requests' = {[r EXCEPT !.from = IF @ = "drawer" THEN "closed" ELSE @] : r \in requests}
  /\ UNCHANGED <<session, browser, store, broadcast, said>>

\* usePushSync: the button takes its state from the browser, and what the browser has is
\* saved again; nobody is told how that ends.
Sync(c) ==
  /\ buttons[c].hook = "waiting" /\ (browser.sub # NoSub => Room)
  /\ buttons' = [buttons EXCEPT ![c].hook = "done", ![c].subscribed = browser.sub # NoSub]
  /\ requests' = requests \cup
       (IF browser.sub = NoSub THEN {} ELSE {Request("save", browser.sub, "sync")})
  /\ UNCHANGED <<session, browser, store, broadcast, said>>

\* An attempt of the other button, or of a closed drawer, is under way.
Crossed(c) ==
  \/ \E d \in Sources \ {c} : buttons[d].awaits # "nothing"
  \/ \E r \in requests : r.from = "closed"

Attempting(c) == [said EXCEPT !.word = "nothing", !.unsure = Crossed(c), !.attempts = @ + 1]

MayAttempt(c) ==
  session # Nobody /\ buttons[c].hook # "unmounted" /\ buttons[c].awaits = "nothing"
    /\ said.attempts < MaxAttempts /\ Room

\* subscribePushWithReason with the permission granted: the browser hands out the
\* subscription it has, or a new one.  A refusal changes nothing but the text shown.
TurnOn(c) ==
  /\ MayAttempt(c) /\ ~buttons[c].subscribed
  /\ browser.sub # NoSub \/ browser.given < MaxEndpoints
  /\ LET e == IF browser.sub # NoSub THEN browser.sub ELSE browser.given + 1
     IN  /\ browser' = IF browser.sub # NoSub THEN browser ELSE [browser EXCEPT !.sub = e, !.given = e]
         /\ requests' = requests \cup {Request("save", e, c)}
  /\ buttons' = [buttons EXCEPT ![c].awaits = "save"]
  /\ said' = Attempting(c)
  /\ UNCHANGED <<session, store, broadcast>>

\* unsubscribePush: the endpoint is dead from here on.
Unsubscribed == [browser EXCEPT !.sub = NoSub, !.dead = @ \cup {browser.sub}]

TurnOff(c) ==
  /\ MayAttempt(c) /\ buttons[c].subscribed /\ browser.sub # NoSub
  /\ browser' = Unsubscribed
  /\ requests' = requests \cup {Request("delete", browser.sub, c)}
  /\ buttons' = [buttons EXCEPT ![c].awaits = "delete"]
  /\ said' = Attempting(c)
  /\ UNCHANGED <<session, store, broadcast>>

\* The browser has no subscription, or fails to give it up: the button does not ask
\* which, calls nobody, and says that notifications are off.
TurnOffUnheard(c) ==
  /\ MayAttempt(c) /\ buttons[c].subscribed
  /\ buttons' = [buttons EXCEPT ![c].subscribed = FALSE]
  /\ said' = [Attempting(c) EXCEPT !.word = "off", !.unsure = @ \/ browser.sub # NoSub]
  /\ UNCHANGED <<session, browser, requests, store, broadcast>>

\* The answer of the server comes to the button that waits for it, or only to the text
\* that is shown if its drawer was closed; an error changes nothing but the text.
Answered(r) ==
  /\ r.stage \in {"served", "refused"}
  /\ requests' = requests \ {r}
  /\ buttons' = [c \in Sources |->
       IF c # r.from THEN buttons[c]
       ELSE [buttons[c] EXCEPT !.awaits = "nothing",
               !.subscribed = IF r.stage = "served" THEN r.kind = "save" ELSE @]]
  /\ said' = IF r.stage = "refused" THEN said
             ELSE [said EXCEPT !.word = IF r.kind = "save" THEN "on" ELSE "off",
                               !.endpoint = r.endpoint, !.to = r.by]
  /\ UNCHANGED <<session, browser, store, broadcast>>

\* -- the server -----------------------------------------------------------

\* SubscriptionOwnershipError: the row of another member is neither taken nor removed.
Permitted(r) == store[r.endpoint] \in {Nobody, r.by}

\* upsert_subscription and delete_subscription, each of one row.
Serve(r) ==
  /\ r.stage = "sent"
  /\ requests' = Heard((requests \ {r}) \cup
       {[r EXCEPT !.stage = IF Permitted(r) THEN "served" ELSE "refused"]})
  /\ store' = IF ~Permitted(r) THEN store
              ELSE [store EXCEPT ![r.endpoint] = IF r.kind = "save" THEN r.by ELSE Nobody]
  /\ UNCHANGED <<session, browser, buttons, broadcast, said>>

\* The rate limit, the connection or the database, before the commit or after it.
RequestFails(r) ==
  /\ r.stage # "refused"
  /\ requests' = Heard((requests \ {r}) \cup {[r EXCEPT !.stage = "refused"]})
  /\ UNCHANGED <<session, browser, buttons, store, broadcast, said>>

\* -- the broadcast --------------------------------------------------------

\* send_to_all lists the subscriptions once.
SendBroadcast ==
  /\ broadcast.stage = "idle" /\ broadcast.used < MaxBroadcasts
  /\ broadcast' = [stage |-> "calling", todo |-> Stored, gone |-> {}, used |-> broadcast.used + 1]
  /\ UNCHANGED <<session, browser, buttons, requests, store, said>>

\* Mutant: whatever the failure, the endpoint counts as gone.
GoneAnswers_AnyFailure(e) == {{}, {e}}

\* 404 and 410 are answered for a dead endpoint; any call may fail otherwise.
GoneAnswers(e) == IF e \in browser.dead THEN {{}, {e}} ELSE {{}}

CallEndpoint(e) ==
  /\ e \in broadcast.todo
  /\ \E gone \in GoneAnswers(e) :
       broadcast' = [broadcast EXCEPT !.todo = @ \ {e}, !.gone = @ \cup gone]
  /\ UNCHANGED <<session, browser, buttons, requests, store, said>>

\* The send logs are committed first, the removal after them.
LogResults ==
  /\ broadcast.stage = "calling" /\ broadcast.todo = {}
  /\ broadcast' = [broadcast EXCEPT !.stage = "logged"]
  /\ UNCHANGED <<session, browser, buttons, requests, store, said>>

\* remove_by_endpoint_hashes: whoever owns the rows by now.
RemoveGone ==
  /\ broadcast.stage = "logged"
  /\ store' = [e \in Issued |-> IF e \in broadcast.gone THEN Nobody ELSE store[e]]
  /\ broadcast' = [broadcast EXCEPT !.stage = "idle", !.gone = {}]
  /\ UNCHANGED <<session, browser, buttons, requests, said>>

BroadcastFails ==
  /\ broadcast.stage # "idle"
  /\ broadcast' = [broadcast EXCEPT !.stage = "idle", !.todo = {}, !.gone = {}]
  /\ UNCHANGED <<session, browser, buttons, requests, store, said>>

\* The push service drops an endpoint the browser still holds.
Expire ==
  /\ browser.sub # NoSub /\ browser.sub \notin browser.dead
  /\ browser' = [browser EXCEPT !.dead = @ \cup {browser.sub}]
  /\ UNCHANGED <<session, buttons, requests, store, broadcast, said>>

Next ==
  \/ \E m \in Owners : LogIn(m)
  \/ LogOut \/ OpenDrawer
  \/ \E c \in Sources : Sync(c) \/ TurnOn(c) \/ TurnOff(c) \/ TurnOffUnheard(c)
  \/ \E r \in requests : Answered(r) \/ Serve(r) \/ RequestFails(r)
  \/ SendBroadcast \/ \E e \in Issued : CallEndpoint(e)
  \/ LogResults \/ RemoveGone \/ BroadcastFails \/ Expire

Spec == Init /\ [][Next]_pushVars

----------------------------------------------------------------------------
Buttons == [hook : {"unmounted", "waiting", "done"}, subscribed : BOOLEAN,
            awaits : {"nothing", "save", "delete"}]

Requests ==
  [kind : {"save", "delete"}, endpoint : Issued, by : Owners,
   from : Sources \cup {"sync", "closed", "unloaded"}, stage : {"sent", "served", "refused"}]

Browsers   == [sub : {NoSub} \cup Issued, given : 0..MaxEndpoints, dead : SUBSET Issued]
Broadcasts == [stage : {"idle", "calling", "logged"}, todo : SUBSET Issued, gone : SUBSET Issued,
               used : 0..MaxBroadcasts]
Reports    == [word : {"nothing", "on", "off"}, endpoint : {NoSub} \cup Issued, to : Owners \cup {Nobody},
               unsure : BOOLEAN, attempts : 0..MaxAttempts, logins : 0..MaxLogins]

TypeOK ==
  /\ session \in Owners \cup {Nobody}
  /\ browser \in Browsers
  /\ buttons \in [Sources -> Buttons] /\ requests \subseteq Requests
  /\ store \in [Issued -> Owners \cup {Nobody}]
  /\ broadcast \in Broadcasts /\ broadcast.gone \subseteq browser.dead
  /\ said \in Reports

\* What the last attempt reported stays true.  A member who was told that notifications
\* are on has the row of the endpoint the browser holds, whatever other members, the
\* automatic saves and a broadcast did since, until the push service drops the endpoint.
\* A member who was told that they are off has a browser without a subscription.  Two
\* attempts at once, and a browser that fails to unsubscribe, are the exceptions.
ToldIsTrue ==
  ~said.unsure =>
    /\ said.word = "on" =>
         /\ browser.sub = said.endpoint
         /\ said.endpoint \in browser.dead \/ store[said.endpoint] = said.to
    /\ said.word = "off" => browser.sub = NoSub
==============================================================================
