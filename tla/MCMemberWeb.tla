----------------------------- MODULE MCMemberWeb ----------------------------
(***************************************************************************)
(* The members' half of the system, for model checking: writing posts,     *)
(* signing up, the own profile, the requests to change a name or a cohort, *)
(* the directory, the members' RSVPs when one request is served at a time, *)
(* and the page of an event.  Each behaviour is about one of them and the  *)
(* others stay as one initial state leaves them; the models share no       *)
(* variable, so nothing is lost by not interleaving them.                  *)
(***************************************************************************)
EXTENDS Integers, FiniteSets, Sequences, TLC

CONSTANTS
  Images, NoImage, MaxImages, MaxSaves, MaxFetches, MaxOthers,  \* PostEditor
  Students, NoStudent, MaxCalls,                                \* Signup
  Fields, MaxValues, MaxWrites,                                 \* MyProfile
  Keys, NoKey, MaxAsks, MaxPosts,                               \* ProfileChanges
  Searches, Plain, Pages, NoUrl, MaxMoves,                      \* Directory
  Members, Processes, Capacities, Requests, MaxTicket, None,    \* RsvpCapacity
  Guests, Reader, Servers, MaxGuestTicket                       \* EventPage

VARIABLES
  screen,
  page, post, cached, fetched, form, uploads, save, budget,
  request, calls, desk, card, visitor, past,
  profile, files, mine, flights, allowance,
  current, asks, posts, section, review,
  url, synced, filters, settled, ticking, leaving, loaded, fetching, wish, unheard, echoes, moves,
  exists, capacity, status, joined, pc, req, candidate,
  open, seats, answer, since, step, asking, next, panel

PostPages     == INSTANCE PostEditor
SignupPages   == INSTANCE Signup
ProfilePage   == INSTANCE MyProfile
ChangesPages  == INSTANCE ProfileChanges
DirectoryPage == INSTANCE Directory
Rsvps         == INSTANCE RsvpCapacity
EventPages    == INSTANCE EventPage WITH
  Members <- Guests, Processes <- Servers, MaxTicket <- MaxGuestTicket,
  exists <- open, capacity <- seats, status <- answer, joined <- since,
  pc <- step, req <- asking, candidate <- next

ASSUME MemberAssumption ==
  /\ PostPages!EditorAssumption /\ SignupPages!SignupAssumption
  /\ ProfilePage!ProfileAssumption /\ ChangesPages!ChangesAssumption
  /\ DirectoryPage!DirectoryAssumption /\ Rsvps!RsvpParameters
  /\ EventPages!RsvpParameters /\ EventPages!PageAssumption

editorVars    == <<page, post, cached, fetched, form, uploads, save, budget>>
signupVars    == <<request, calls, desk, card, visitor, past>>
profileVars   == <<profile, files, mine, flights, allowance>>
changeVars    == <<current, asks, posts, section, review>>
directoryVars == <<url, synced, filters, settled, ticking, leaving, loaded, fetching,
                   wish, unheard, echoes, moves>>
rsvpVars      == <<exists, capacity, status, joined, pc, req, candidate>>
eventVars     == <<open, seats, answer, since, step, asking, next, panel>>
vars == <<screen, editorVars, signupVars, profileVars, changeVars, directoryVars, rsvpVars, eventVars>>

Screens == {"posts", "signup", "profile", "changes", "directory", "rsvps", "event"}

\* One of the initial states of the pages that are not visited.
Idle ==
  /\ screen # "posts"     => page.kind = "boardNew"
  /\ screen # "signup"    => \A s \in Students : request[s].status = "none"
  /\ screen # "directory" => url.page = 0

Init ==
  /\ screen \in Screens
  /\ PostPages!Init /\ SignupPages!Init /\ ProfilePage!Init /\ ChangesPages!Init
  /\ DirectoryPage!Init /\ Rsvps!Init /\ EventPages!PageInit
  /\ Idle

Next ==
  \/ /\ screen = "posts" /\ PostPages!Next
     /\ UNCHANGED <<screen, signupVars, profileVars, changeVars, directoryVars, rsvpVars, eventVars>>
  \/ /\ screen = "signup" /\ SignupPages!Next
     /\ UNCHANGED <<screen, editorVars, profileVars, changeVars, directoryVars, rsvpVars, eventVars>>
  \/ /\ screen = "profile" /\ ProfilePage!Next
     /\ UNCHANGED <<screen, editorVars, signupVars, changeVars, directoryVars, rsvpVars, eventVars>>
  \/ /\ screen = "changes" /\ ChangesPages!Next
     /\ UNCHANGED <<screen, editorVars, signupVars, profileVars, directoryVars, rsvpVars, eventVars>>
  \/ /\ screen = "directory" /\ DirectoryPage!Next
     /\ UNCHANGED <<screen, editorVars, signupVars, profileVars, changeVars, rsvpVars, eventVars>>
  \/ /\ screen = "rsvps" /\ Rsvps!Next
     /\ UNCHANGED <<screen, editorVars, signupVars, profileVars, changeVars, directoryVars, eventVars>>
  \/ /\ screen = "event" /\ EventPages!PageNext
     /\ UNCHANGED <<screen, editorVars, signupVars, profileVars, changeVars, directoryVars, rsvpVars>>

Spec == Init /\ [][Next]_vars

----------------------------------------------------------------------------
\* The type invariants of the seven components.
TypeOK ==
  /\ screen \in Screens
  /\ PostPages!TypeOK /\ SignupPages!TypeOK /\ ProfilePage!TypeOK /\ ChangesPages!TypeOK
  /\ DirectoryPage!TypeOK /\ Rsvps!TypeOK /\ EventPages!PageTypeOK

\* A form loses its cover only to an upload that outlived the images it began beside.
CoverLostOnlyToStaleUpload == PostPages!CoverLostOnlyToStaleUpload

\* A save changes whether a post is public only on request.
PublicationOnlyOnRequest == PostPages!PublicationOnlyOnRequest

\* A student is an active member exactly when the request was approved.
ActiveIffApproved == SignupPages!ActiveIffApproved

\* A token that was used sets no password again.
UsedTokenIsSpent == SignupPages!UsedTokenIsSpent

\* A student who is told to log in has a password.
LoginAdviceIsTrue == SignupPages!LoginAdviceIsTrue

\* A profile page that says "saved" shows what is saved.
SavedMeansSaved == ProfilePage!SavedMeansSaved

\* A save of the profile changes only fields its member typed in.
UntypedFieldsSurvive == ProfilePage!UntypedFieldsSurvive

\* The member's photo is on the disk, and nothing else stays there.
PhotoMatchesDisk == ProfilePage!PhotoMatchesDisk

\* The name and cohort in effect are those approved last.
ApprovedIsInEffect == ChangesPages!ApprovedIsInEffect

\* The directory, its filters and its address settle on what was asked for last.
LastWishWins == DirectoryPage!LastWishWins

\* They do not chase each other.
NoPingPong == DirectoryPage!NoPingPong

\* The pages the address names are loaded in the end.
WantedPagesArrive == DirectoryPage!WantedPagesArrive

\* One at a time, requests overbook only by a promotion that follows a cancellation
\* which freed no seat.
SeatsAreAccounted == Rsvps!SeatsAreAccounted

\* One at a time, requests waste a seat only by breaking off between two commits.
OnlyAbortWastesASeat == Rsvps!OnlyAbortWastesASeat

\* The place an event's page shows its member is kept.
ShownPlaceHolds == EventPages!ShownPlaceHolds
============================================================================
