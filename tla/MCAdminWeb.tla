----------------------------- MODULE MCAdminWeb -----------------------------
(***************************************************************************)
(* The administrators' half of the system, for model checking: the event   *)
(* form, the lists, the pages of a member, the banner toggles, and the     *)
(* push subscriptions with the broadcast to them.  Each behaviour is about *)
(* one of them and the others stay as one initial state leaves them; the   *)
(* models share no variable, so nothing is lost by not interleaving them.  *)
(***************************************************************************)
EXTENDS Integers, FiniteSets, Sequences, TLC

CONSTANTS
  Offset, Start, Clocks, NoClock, MaxTitles, MaxWrites, MaxVisits,  \* EventEditor
  Rows, Matching, PageSize, NoRow, MaxFetches, MaxDeletes,          \* AdminLists
  Perms, Fields, Required, MaxValues, MaxOps, MaxOthers,            \* AdminMembers
  Targets, MaxBanners, MaxChanges, MaxMoves,                        \* HeroToggles
  Owners, Nobody, MaxEndpoints, MaxLogins, MaxAttempts, MaxFlights, MaxBroadcasts  \* PushSubscriptions

VARIABLES
  screen,
  event, detail, sheet, saves, removal, tally,
  rows, look, queries, deletion, ledger,
  member, query, desk, ops, creation, budget,
  banners, lookups, view, changes, notes,
  session, browser, buttons, requests, store, broadcast, said

\* The list of the toggles has one page, with every target, and shows none while it is
\* loaded; the first target has a form.
ListPage == CHOOSE p \in [1..Cardinality(Targets) -> Targets] :
              \A t \in Targets : \E i \in DOMAIN p : p[i] = t
Pages    == {ListPage, << >>}
Edited   == {ListPage[1]}

EventPages  == INSTANCE EventEditor
ListPages   == INSTANCE AdminLists
MemberPages == INSTANCE AdminMembers
Toggles     == INSTANCE HeroToggles
PushButtons == INSTANCE PushSubscriptions

ASSUME AdminAssumption ==
  /\ EventPages!ClockAssumption /\ ListPages!ListsAssumption
  /\ MemberPages!MembersAssumption /\ Toggles!TogglesAssumption
  /\ PushButtons!PushAssumption

eventVars  == <<event, detail, sheet, saves, removal, tally>>
listVars   == <<rows, look, queries, deletion, ledger>>
memberVars == <<member, query, desk, ops, creation, budget>>
heroVars   == <<banners, lookups, view, changes, notes>>
pushVars   == <<session, browser, buttons, requests, store, broadcast, said>>
vars == <<screen, eventVars, listVars, memberVars, heroVars, pushVars>>

Screens == {"event", "lists", "members", "toggles", "push"}

\* One of the initial states of a kind of screens that is not visited.
Idle ==
  /\ screen # "event"   => ~event.alive
  /\ screen # "lists"   => look.kind = "posts"
  /\ screen # "members" => member.roles = {} /\ desk.page = "list"
  /\ screen # "toggles" => view.ids = ListPage

Init ==
  /\ screen \in Screens
  /\ EventPages!Init /\ ListPages!Init /\ MemberPages!Init /\ Toggles!Init /\ PushButtons!Init
  /\ Idle

Next ==
  \/ /\ screen = "event" /\ EventPages!Next
     /\ UNCHANGED <<screen, listVars, memberVars, heroVars, pushVars>>
  \/ /\ screen = "lists" /\ ListPages!Next
     /\ UNCHANGED <<screen, eventVars, memberVars, heroVars, pushVars>>
  \/ /\ screen = "members" /\ MemberPages!Next
     /\ UNCHANGED <<screen, eventVars, listVars, heroVars, pushVars>>
  \/ /\ screen = "toggles" /\ Toggles!Next
     /\ UNCHANGED <<screen, eventVars, listVars, memberVars, pushVars>>
  \/ /\ screen = "push" /\ PushButtons!Next
     /\ UNCHANGED <<screen, eventVars, listVars, memberVars, heroVars>>

Spec == Init /\ [][Next]_vars

OwnerSymmetry == Permutations(Owners)

----------------------------------------------------------------------------
\* The type invariants of the five components.
TypeOK ==
  /\ screen \in Screens
  /\ EventPages!TypeOK /\ ListPages!TypeOK /\ MemberPages!TypeOK
  /\ Toggles!TypeOK /\ PushButtons!TypeOK

\* A save of an event puts back an older title only from a form that was stale.
RevertNeedsAStaleSeed == EventPages!RevertNeedsAStaleSeed

\* No cached page of a list passes for fresh with a row known to be deleted.
NoFreshGhost == ListPages!NoFreshGhost

\* The answer to a deletion closes the dialog of its own row.
AnswerClosesItsDialog == ListPages!AnswerClosesItsDialog

\* The roles that reach the server respect the hierarchy.
RolesFollowHierarchy == MemberPages!RolesFollowHierarchy

\* Saving a member's profile writes the edited fields only.
OnlyEditedFieldsWritten == MemberPages!OnlyEditedFieldsWritten

\* No toggle that was right when it was used gives its target a second banner.
OneBannerPerTarget == Toggles!OneBannerPerTarget

\* A banner toggle that can be clicked shows what the server has.
ToggleIsTrue == Toggles!ToggleIsTrue

\* What a push button reported to a member stays true.
ToldIsTrue == PushButtons!ToldIsTrue
============================================================================
