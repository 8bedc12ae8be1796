# sogecon-app: verification models

TLA+ models of the alumni association application (FastAPI service in
`src/apps/api`, Next.js client in `src/apps/web`), the TLC runs that check them
on small instances, and TLAPS proofs of what holds for every instance.
`PROJECT.json` lists components, runs, mutants, findings, hazards, theorems and,
under `map`, the source lines each definition stands for.

## Reading order

1. `PushOnce.tla`: what a reminder promises, in 28 lines.
2. `ScheduledDelivery.tla`: how the service keeps that promise.
3. `RsvpCapacity.tla`: seats and the waitlist of an event; `EventPage.tla`: the
   same, composed with the page one member sees.
4. `SuperAdmins.tla`: the last administrator and the lock that guards it.
5. The workflows between pages and handlers: `Signup.tla`, `ProfileChanges.tla`,
   `PushSubscriptions.tla`, `MyProfile.tla`.
6. The pages whose own state is the difficulty: `PostEditor.tla`,
   `EventEditor.tla`, `AdminLists.tla`, `AdminMembers.tla`, `HeroToggles.tla`,
   `Directory.tla`.
7. `MCScheduledDelivery.tla`, `MCRsvpCapacity.tla`, `MCAdminWeb.tla`,
   `MCMemberWeb.tla` and the `.cfg` files: the instances TLC checks.
8. The theorems: `ScheduledDelivery_proofs.tla`, `RsvpCapacity_proofs.tla` and
   `EventPage_proofs.tla` on top of it, `SuperAdmins_proofs.tla`; for the pages
   `AdminWeb_proofs.tla`, then `MemberWeb_proofs.tla`, `MyProfile_proofs.tla` and
   `MemberPages_proofs.tla`, each extending the one before.

## Inventory of the system

All persistent state is in one PostgreSQL database, used at READ COMMITTED
through one SQLAlchemy session per request or job (`db.py`: `expire_on_commit`
and `autoflush` are off, so an object keeps what it loaded). Requests run
concurrently in one asyncio process or several; components interact through the
tables, not through messages. The only external call is to the push services.
The web client keeps a query cache (TanStack Query, fresh for one minute) and
forms that are filled from it; its calls may fail before or after the server has
committed, and their answers arrive in any order.

| component | state | operations | what is hard | what makes it correct |
|---|---|---|---|---|
| scheduled reminders (`scheduled_notifications_service`, `scheduled_delivery_service`, `repositories/scheduled_notifications`) | a log per (event, reminder), a delivery row per (log, endpoint) | trigger, claim, send, record, finalize, reclaim | crashes between claim and record, uncertain answers, a worker slower than the stale limit, two triggers at once | nobody gets a reminder twice; rows tell the truth; logs get closed |
| scheduler (`scheduler.py`) | APScheduler jobs | daily trigger, sweep every five minutes | runs next to a manual trigger | the sweep reaches every open log |
| RSVPs (`events_service`, `rsvps_service`, `repositories/rsvps`, `app/events/[id]/page.tsx`) | a row per (member, event), the capacity; the member's cached answer | create, upsert, promote, edit, delete; apply and cancel | count and write without a lock, promotion in a second transaction, a call that fails after its first commit | seats within the capacity, no seat wasted, waitlist in order; the page shows a place that is kept |
| events (`repositories/events`, `app/admin/events`) | rows; a detail query, the form | create, edit, delete | a form filled from an old copy; clocks of two time zones | a save changes what was edited |
| push subscriptions and broadcast (`notifications_service`, `repositories/notifications`, `hooks/usePushSync.ts`) | subscriptions by endpoint hash, send logs; two buttons | subscribe, unsubscribe, automatic save, send to all, remove expired | one browser, several members; saves that race with logout; removal at the end of a batch | what a button reported stays true |
| signup and activation (`signup_service`, `activation_service`, `auth_service`) | signup requests, members, credentials, issue logs | create, approve, reject, reissue, activate | decisions race; two commits per activation; lost answers | one decision per request; a used token is spent |
| members and roles (`members_service`, `roles_service`) | members, role lists, a count cache | profile, avatar, roles, status | guard read before the advisory lock; file and row; drafts of roles | an active super_admin always exists; roles respect the hierarchy |
| profile changes (`profile_change_service`) | requests with old and new value | create, approve, reject | decisions race, from one page too | what was approved last is in effect |
| posts, comments (`posts_service`, `comments_service`, `components/post-form.tsx`) | rows, a form with uploads, lists | CRUD, publication | uploads that end late, copies that are stale | a post is published only on request; its cover is one of its images |
| hero banner (`hero_service`, `hooks/useHeroTargetControls.ts`) | banner items, lookups with optimistic items | toggle, roll back | a lookup answered during a change | one banner for each target |
| directory (`app/directory`) | filters, debounced filters, the address, cached pages | search, load more, back | two loops that chase each other | they settle on what was asked for last |
| support, rate limits (`routers/support`, `ratelimit`) | in-memory maps, tickets | contact | map updated before the ticket is stored | a ticket is not dropped silently |
| crypto, key rotation (`crypto_utils`, `ops/rekey_push_kek.py`) | encrypted columns | encrypt, decrypt, rekey | interrupted rotation | every row decryptable with one of two keys |
| configuration, observability, migrations, seeds, deployment | none at run time | start-up, scripts | I/O | out of scope |

## Plan

| order | module | content | state |
|---|---|---|---|
| 1 | `PushOnce`, `ScheduledDelivery` | the reminder promise and its implementation | done, proved |
| 2 | `RsvpCapacity` | seats, waitlist, promotion | done, proved |
| 3 | `SuperAdmins` | role and status changes under the advisory lock, the guards that read before it | done, proved |
| 4 | `Signup` | from the form to the first password, pages and handlers | done, proved |
| 5 | `ProfileChanges` | competing requests and decisions on one field | done, proved |
| 6 | `PushSubscriptions` | ownership, the two buttons, the broadcast and its clean-up | done, proved |
| 7 | `EventPage` | the RSVP server composed with the page of one member | done, proved |
| 8 | `PostEditor`, `EventEditor`, `AdminMembers`, `MyProfile` | forms against the rows they are filled from | done, proved |
| 9 | `HeroToggles`, `AdminLists`, `Directory` | optimistic updates, cached pages, filters and address | done, proved |
| 10 | proofs about 4 to 9 | every safety invariant and action property of the runs | done |
| 11 | proofs beyond the runs | seats while the capacity is raised or lowered, how far a race overbooks; the safety half of `OpenLogCloses` and `RequestsEnd` | done |
| 12 | pure operators | role parsing and ranking, post visibility, client address selection | later |

## The runs

| run | module and instance | checks |
|---|---|---|
| `DeliverySafety` | `ScheduledDelivery`: 2 workers, 1 notice, 1 endpoint, batch 1, 1 retry, fair sweep | `AtMostOnce`, `SingleClaimant`, `RecordsAreTruthful`, `SettledStaysSettled`, `ClaimsAreSettled`, `KeepsPromise`, `OpenLogCloses` |
| `DeliveryTrigger` | `ScheduledDelivery`: 1 worker, 2 events, 1 endpoint, 1 retry | `AcceptedNeverOverstated` |
| `RsvpConcurrent` | `RsvpCapacity`: 3 members, 2 requests at once, capacities 0 and 1, going and cancel | `NoDoublePromotion`, `OthersOnlyPromote`, `PromotionSurvivesRequest`, `SeatsArePassedOn` |
| `SuperAdmins` | 2 members, 2 requests at once, every kind, no reactivation, fair requests | `GuardedRemains`, `SuperAdminInv`, `RequestsEnd` |
| `AdminWeb` | `MCAdminWeb`: `EventEditor`, `AdminLists`, `AdminMembers`, `HeroToggles`, `PushSubscriptions` | `TypeOK` of each, `RevertNeedsAStaleSeed`; `NoFreshGhost`, `AnswerClosesItsDialog`; `RolesFollowHierarchy`, `OnlyEditedFieldsWritten`; `OneBannerPerTarget`, `ToggleIsTrue`; `ToldIsTrue` |
| `MemberWeb` | `MCMemberWeb`: `PostEditor`, `Signup`, `MyProfile`, `ProfileChanges`, `Directory`, `EventPage`, and `RsvpCapacity` with 3 members, 1 request at a time, 1 seat, going and cancel | `TypeOK` of each, `CoverLostOnlyToStaleUpload`, `PublicationOnlyOnRequest`; `ActiveIffApproved`, `UsedTokenIsSpent`, `LoginAdviceIsTrue`; `SavedMeansSaved`, `UntypedFieldsSurvive`, `PhotoMatchesDisk`; `ApprovedIsInEffect`; `LastWishWins`, `NoPingPong`, `WantedPagesArrive`; `ShownPlaceHolds`; `SeatsAreAccounted`, `OnlyAbortWastesASeat` |
| `DeliveryEmptyTargets`, `DeliveryOrphanClaim`, `RsvpRace`, `RsvpIdleCancel`, `SuperAdminsRace`, `EventSchedule` | the smallest instance that shows it | one finding each |

`MCAdminWeb` and `MCMemberWeb` put models that share no variable side by side:
`screen` says which of them a behaviour is about, the others keep one of their
initial states. The reachable states are the disjoint union of those of the
parts, so a property is checked on each part as in a run of its own.

Symmetry is used for members who log in with a browser (`Owners`), events of
the reminders, and the members and requests of an RSVP run; no initial state,
`CHOOSE` or property singles one of them out, and the runs with liveness use
none. Deadlock is checked in the delivery and RSVP runs; elsewhere
the system may stop (a reader who does nothing more, bounds used up, no
administrator left).

## ScheduledDelivery

### State and steps

| model | code |
|---|---|
| `events`, `subs` | rows of `events`; active push subscriptions that are eligible |
| `log[n]` | row of `scheduled_notification_logs`: status, the two counts, and whether `updated_at` is older than fifteen minutes (`stale`) |
| `row[n][e]` | status in `scheduled_notification_deliveries` |
| `reached[n][e]` | ghost: calls under way or possibly arrived |
| `pc`, `notice`, `claim`, `result`, `task` | local variables of a running `trigger_scheduled_notifications` |

A notice is the unique key (event, reminder). A step is one transaction (the
statements up to a commit), the start of an external call, or its answer.
`StartTrigger`, `FindDue`, `NextNotice`, `EndTrigger` are the trigger loop;
`CreateLog` to `FinalUpdate` follow `process_single_event`; `Claim` to
`FlushBatch` follow `send_batch_chunk`. `TransactionFails`, `ProviderRaises`,
`Cancel`, `MarkLogFailed`, `FinalizeFails` and `Crash` are its error paths.
`Sweep` is the five-minute job, `AgeLog` the passing of time.

Details of the code that decide properties and are kept: a log row is reused
over runs and reopened only from `failed`; the ORM writes only changed
attributes (`Written`); results are written by claim id whatever the row says;
`FOR UPDATE SKIP LOCKED` may skip a row another worker is about to lock
(`SkipDelivery`); a rollback expires the events still to be processed, and
touching one outside the `try` ends the trigger (`AbortDetached`).

Abstractions: an HTTP error status is taken as proof that the call did not
deliver, a missing status as no proof of anything; the two commits of
`FlushBatch` are one step, each may fail; payloads, dates and the send log are
left out; the batch delay and the retry back-off are just the gap between two
steps. `_send_untracked_batch` has no caller and is not modelled.

### Properties and runs

The runs are `DeliverySafety`, `DeliveryTrigger` and the findings
`DeliveryEmptyTargets` and `DeliveryOrphanClaim`.

Why the bounds are enough: workers meet only in the rows of a notice, so two
workers on one notice give every meeting; one retry separates "retried" from
"given up"; two events are needed only for what one notice's failure does to
the next. Endpoints meet nowhere but in the batch of one worker; the theorems
hold for any number of them and any batch size.

Fairness: `FairSpec` assumes that time passes (`AgeLog`) and that the sweep job
runs (`scheduler.py`, interval trigger). Nothing is assumed of workers: the call
to a push service has no timeout, and a process may die. So the only liveness
the code promises is that a log does not stay open.

`KeepsPromise` maps each (notice, endpoint) to the phase of `PushOnce`: calling
while some worker has a call under way, closed once a call may have arrived,
open otherwise. Every step of the service is a step or a stutter of it.

### Proofs

`DeliveryInv` is inductive: `TypeOK`, `CascadeHolds` (no rows without a log, no
log without an event), `RowsAreSettled` (an open row has reached nobody and is
held by nobody; a completed one was reached once), `HolderKnows` (what the
holder of a claim knows of its calls), `SingleClaimant`, `AtMostOnce`. None of
the last two is inductive alone: a claim is safe to take because an open row has
reached nobody, which is so because a result `failed` is recorded only by a
holder whose calls were all refused. It is proved for every instance and was
checked by TLC before; no run lists it. From it follow `AtMostOnce`,
`SingleClaimant`, `RecordsAreTruthful`, `SettledStaysSettled`, `ClaimsAreSettled`
and the refinement `KeepsPromise`, for any number of workers, events, endpoints
(a finite set) and retries.

`AcceptedNeverOverstated` needs more, because a worker writes the count of a log
from rows it counted in an earlier transaction, while sweeps and other workers
write both. `CountsAreBacked` says of each worker about to write that the rows it
counted are still completed, and that a log without an event has no count left.
`CountInv`, the two together, is inductive relative to `DeliveryInv`: a completed
row stays completed while its event exists (`SettledStaysSettled`), so a count
can only become too small.

`OpenLogCloses` is liveness and is model-checked only. What it rests on is proved
as an action property, `FreshnessRunsOut`: while a log stays open, the workers
that may still mark it in progress, and so make it fresh, only become fewer
(`create_notification_log` opens closed logs only); once stale it stays so, and a
sweep closes it, unless one of them does mark it. What remains for TLC is that a
fair sweep that stays enabled is taken.

## RsvpCapacity

### State and steps

One event; events do not interact. `status[m]` and `joined[m]` are the columns
`status` and `created_at` of the member's RSVP row, `capacity` and `exists` the
event, `pc`, `req` and `candidate` the local variables of a request. Each read
of a request is a step of its own, because each is a statement of its own:
`Begin` (the transaction starts, which fixes `created_at`), `ReadEvent`,
`LoadRow`, `Count`, `Check`, then `Insert` or `Update`, and after a
cancellation `LockCandidate` and `CommitPromotion`. `POST /rsvps/` skips
`LoadRow`. A row selected `FOR UPDATE` stays locked until its promotion commits
or the request ends (`Abort`); updates and the deletion of the event wait for
it, other promotions skip it. `MaxTicket` bounds the transaction start times
that are told apart; members plus requests suffice because finished requests
free theirs. Members are never deleted by the service and are constant.

### Properties and runs

The runs are `RsvpConcurrent`, the part of `MemberWeb` with one request at a
time (three members, one seat), and the findings `RsvpRace` (2 members, 2
requests, 1 seat) and `RsvpIdleCancel` (3 members, 1 request, 1 seat: one member
attends, two wait, and one of these cancels).

The capacity rule of `docs/architecture.md` does not hold, so the passing runs
say what does. Concurrently: promotions never collide, never revive a member
who cancelled, and are not undone by a racing request; and a seat that no
promotion on its way will fill stays over a waiting row only for a reason that
`SeatsArePassedOn` names. The rows may be locked by other cancellations when one
looks for a candidate (`SKIP LOCKED`): these then fill the seat. Sequentially: a
request by itself never overbooks, only a promotion after a cancellation that freed no
seat does; a seat stays empty while members wait only after a request broke off
between its two commits. Two members and two requests race for one seat in
`RsvpRace`; three members around one seat let two wait, so that one of them
may cancel, leave and return while the other is promoted. No property is about
the order of promotions: `created_at` is the start of a transaction, and a
locked candidate is skipped, so the code lets a later member overtake, and the
documents promise no more than the `ORDER BY` of the one statement that chooses.
`RsvpConcurrent` leaves out the wish to wait, whose row is what a wish for a seat beyond the capacity gets.
The proofs admit every request.

### Proofs

`RsvpInv` adds to `TypeOK` that promotions hold distinct rows
(`NoDoublePromotion`), that a held row still waits (`LocksHoldWaiters`) and that
a request writes what it asked for or the waitlist (`DecisionsFit`). It is
inductive for any members, requests and capacities; `NoDoublePromotion`,
`OthersOnlyPromote` and `PromotionSurvivesRequest` follow.

`SeatsArePassedOn` is proved for any finite sets of members and requests. A
cancellation that frees a seat leaves it for its own step `LockCandidate`, so it
counts as a promotion on its way (`Promoting`); the promotion ends without a
candidate only if no row waits unlocked, and a commit fills the seat it took.

The other two properties are about one request at a time, and so are their
theorems: the set of requests that run at once is a singleton (`OneByOne`). That
is a hypothesis of the theorem, not of the model; without it the findings show
that they fail. Then `TurnInv` is inductive: the rows and the count that the
request has read are still so, because nobody else writes. The limit it has read
may not be: an administrator may change the capacity at any moment, also between
that read and the write. The theorems on seats therefore say which edits do what,
for finitely many members:

- `RaisedNeverOverbooks`: while the capacity is only raised, no request goes by a
  limit beyond it (`LimitsLow`), and `SeatsAreAccounted` holds.
- `OneByOneWithinCapacity`: then the attendees also fit into the capacity if each
  promotion follows the cancellation of an attendee or finds a free seat
  (`PromotionsHaveASeat`). So the finding `RsvpIdleCancel` is
  the only way to overbook without concurrency.
- `LoweredNeverWastes`: while it is only lowered, no request goes by less than
  there is (`LimitsHigh`), and `OnlyAbortWastesASeat` holds, provided that nobody
  asks to be put on the waitlist, as no page does: a member who prefers to wait
  leaves a seat empty. The other direction fails for both: raising the capacity
  makes an empty seat, lowering it an overbooked one, without any request.
- `SeatsAccounted` and `AbortWastes` are the two for a capacity that stays as it
  is (`InTurn`), as in the run.

`OverbookingBounded` is about any number of requests at once: where nobody
cancels, the attendees exceed the capacity by fewer than these requests, in
however many rounds they come. The invariant `SeatsBound` counts with the
attendees those that have seen a free seat and not yet written; whoever joins
them has seen one. TLC checked it before and shows, for two requests, that one
less is not enough. With cancellations there is no such bound: each may promote
without having freed a seat.

## SuperAdmins

### State and steps

`grade[m]` is the highest role token of a member, `status[m]` the column, with
pending, suspended and rejected taken together; `pc` and `req` are a request's
local variables. Four kinds of requests write these columns, and no others do:
`PATCH /roles`, `PATCH /{member_id}` with a status, direct creation, and the
approval of a signup. Each is `Authorize` (the session is refreshed from the
database), `Load` (the target's row), `Check` (self-demotion, and whether the
row as loaded must be guarded), if so `AcquireLock` and `Count`, then `Write`
(the flush, which takes the row lock) and `Commit`. `Abort` ends a request
anywhere and with it both locks. An actor who is its own target is loaded
again, because nothing refers to the row that `Authorize` read. The ghost
`blind` notes that a request has removed an active super_admin which it had
loaded as something else.

### Properties and runs

The runs are `SuperAdmins` and the finding `SuperAdminsRace` (2 members, 2
requests, promotions and suspensions).

Two members put every count at its boundary (one or two super_admins), and two
requests are what the lock has to separate; the run does not reactivate members,
since a promotion gives somebody the office in the same way. The proof lifts
these bounds.
Deadlock is not checked in these runs because the system may stop: without an
active administrator nobody is authorised to do anything. `RequestsEnd` says
that no request ever waits for good. It assumes strong fairness of each request
(`FairSpec`): a request awaits only database statements, and PostgreSQL grants a
lock in the order of the requests for it. `Authorize` is not fair.

### Proofs

`SuperAdminInv` is inductive for any finite set of members, any requests and any
choice of roles and statuses: the advisory lock and the row locks exclude, a
request that inserts finds no row, and between the count of a guarded request
and its commit another super_admin is left (`CountStillHolds`). The last holds
because everybody else who could remove that one either waits for the lock or
is `blind`. So `GuardedRemains` says exactly what the guard gives. Where nobody
with a row is promoted or reactivated (`NoPromotions`), whoever is a super_admin
was one when loaded, nobody is ever blind, and `SuperAdminRemains` itself is a
theorem. `RequestsEnd` is liveness and is model-checked only; that nobody waits in a
circle is proved for any number of requests (`WaitsAreShort`: who waits for the
advisory lock waits at most for a request that waits for a row, and who holds a
row waits for nobody).

## EventPage

`EventPage` extends `RsvpCapacity` by `panel`: the query for the member's own
answer and the button of `app/events/[id]/page.tsx`. A call goes from `Press`
through a request of the server (`Arrive`, then the server's own steps, `Serve`)
to `CallServed`, `CallRefused` or `CallLost`; after success the mutation stays
pending until the query it invalidates is over ("settling"), after an error the
page asks nothing. Other requests, of others or of the same member in another
window, are `BeginElsewhere`.

`ShownPlaceHolds`: a page at rest that shows a place, and no error, is right,
whatever others do at the server, unless a request the page does not follow
wrote the member's own row. It relates the cache to the concurrent server: it
would break if a success were not followed by a query, if promotions touched
members who attend, or if a capacity edit demoted somebody. The run has one
server process, so the page's call and requests from elsewhere alternate at
commits rather than inside a request; the races inside are `RsvpConcurrent`'s.
The proof has no such limit: `PlaceHolds` is for any number of servers, members
and capacities. `PageInv` adds to `RsvpInv` that the process the page waits for
serves the page's call (`CallFollowed`), that other requests for its member make
the page unsure (`SureOfOthers`), and that whatever a query has read or the page
shows is upheld (`AnswersHold`): a place may only turn from the waitlist into a
seat, which is what `OthersOnlyPromote` gives.

## Workflows between pages and handlers

Each of these modules has the page (its cache, form, dialogs and calls) and the
handlers, read and commit being separate steps, in one state. A call can fail
before the commit or be served and lose its answer. The exceptions a property
names are kept as a history variable, set by the step that causes them.

- `Signup`: the public form, the administrators' list, panel and token card, the
  activation page, and the four handlers. Requests are read without a lock, so
  `ActiveIffApproved` and `UsedTokenIsSpent` are stated for students whose calls
  did not overlap at the server; `past.overlapped` notes those whose did, and the
  comment of the property says what is left behind then. Activation commits the
  password and then the request: `UsedTokenIsSpent` holds across a failure
  between the two, and `LoginAdviceIsTrue` says that the page's reading of the
  error (`app/activate/page.tsx`) is right in every such state.
- `ProfileChanges`: requests to change the name or cohort. The unique index on
  pending requests is the guard of `Stores`; approve and reject are two buttons
  of one page whose mutations do not exclude each other. An administrator may also
  write the name or cohort directly, by `PATCH /admin/members/{id}` (`EditMember`,
  whose value is `Direct`). `ApprovedIsInEffect` is the order of approvals and
  edits: the value in effect is that of the last approval unless it was edited
  since, and it is that of no rejected request. The one exception is the request
  in effect whose own approval and rejection overlapped, and it ends with the next
  approval or edit.
- `PushSubscriptions`: one browser, its two buttons (each with its own copy of
  the state), login and logout, the automatic save, ownership at the server and
  the broadcast that collects gone endpoints and deletes them at the end.
  `ToldIsTrue` relates what a button reported to the browser and the row. It
  needs that the push service gives an endpoint once, which
  `browser.given` states: a clean-up by hash would otherwise delete a row that
  was subscribed again.
- `MyProfile`: loading, saving and uploading at once; every answer replaces the
  form. The row is read in `PhotoRead` and again by the commit's session; the
  file is written before and removed after. `SavedMeansSaved`,
  `UntypedFieldsSurvive`, `PhotoMatchesDisk`. A call that fails for the page ends
  at the server too (`Fails`): that one which the page gave up commits later is
  not modelled, and its effect is that of a write by somebody else, which is.

## Pages

- `PostEditor`: the four pages that write posts. Callbacks use the values of the
  render that created them, so an upload carries the lists as they were when it
  began. The rows that are opened have images or none, a cover or none: the schemas
  accept images without a cover, and a save may leave such a row.
  `CoverLostOnlyToStaleUpload` says in which two ways a form comes to be like that:
  it is filled from such a row, or an upload that began beside other images ends in
  a form that was emptied meanwhile, brings those images back and not the cover.
  `PublicationOnlyOnRequest` relates the copy a form was filled from to what other
  sessions decide.
- `EventEditor`: the detail query is never invalidated, so a form is filled from
  whatever copy is there and filled again on new data. `RevertNeedsAStaleSeed`
  says when a save can put back an old value. Instants are hours, and
  `toLocalInput`/`fromLocalInput` are the two conversions of the code; the
  finding `EventSchedule` is about them.
- `AdminLists`: pages and filters as queries of their own, the deletion with its
  dialog, for posts, events, banners and comments. The answer to a deletion marks
  every copy as stale and fetches the one on the screen again; a fetch goes on if
  its page is not on the screen or has no data yet (`Continues`), and its answer,
  perhaps from before the deletion, then counts as fresh. `NoFreshGhost` says that
  this is the only way for a deleted row to stay in a fresh copy;
  `AnswerClosesItsDialog` about answers that come after another dialog was
  opened.
- `AdminMembers`: drafts of roles and the profile form against the queries they
  are filled from. `RolesFollowHierarchy` follows every sequence of clicks on
  drafts of any age to the row; `OnlyEditedFieldsWritten` is about the diff.
  `RolesServed` takes over the roles as sent: the server's own normalisation
  (`roles_service.py:81-99`) is left out, so the page has to send roles that need
  none.
- `HeroToggles`: a lookup is cached for each list of targets that was asked for, so
  a target is in that of its page, of a filter and of its own form. The page of the
  list and the page of one row each mount the hook anew (`Open`), with a pending
  flag of its own; turning a page (`Turn`) keeps the hook. A lookup is asked for,
  read at the server (`Reads`, any number of times: the answer is of one of the
  moments since it was asked) and answered, on the screen or not. A change is
  optimistic in the lookup on the screen and rolled back there if it fails.
  `ToggleIsTrue` is about a toggle that can be clicked, `OneBannerPerTarget` about
  a target getting a second banner, which the server would create. What the code
  does not protect against is kept as history. `notes.doubted` has the lookups
  whose data may be untrue: the fetch failed; it went on over an invalidation, being
  of a lookup not on the screen or without data; it was cancelled by a toggle over
  another list that begins alike; a change was rolled back after its page was
  turned, or while another change or somebody else wrote; its answer was lost
  after it was served; somebody else (the banner forms, another administrator)
  wrote a banner. A lookup leaves the set when the server reads it again. A change
  is `sure` if its lookup was not in the set and nobody else was writing its target
  when it began or until it was served: otherwise two hooks may each create a
  banner.
- `Directory`: filters, the 350 ms timer, the address and `router.replace`, pages
  fetched one after the other. `LastWishWins`, `NoPingPong`, `WantedPagesArrive`
  are invariants about quiet states, not liveness: the page's timers are fair,
  its reader is not.

Bounds: a copy, a row and one write in between are what a stale form needs, so
two or three values, one or two requests of the page and one by others suffice;
`AdminLists` has three rows on pages of one, so that a page can vanish;
`HeroToggles` has two targets, one list of both and the form of one, so that a
target is in two lookups and two hooks can meet, two banners, two changes and two
moves between pages;
`PushSubscriptions` has two members, two endpoints, two logins, two uses of the
buttons, two calls at once and one broadcast: enough for a save of one member to
meet the login of the other, and for a clean-up to meet a new subscription. One
student suffices for `Signup`, as its requests share nothing; three calls let one
overlap the two commits of another; four requests for changes let a decision on
an old one meet the next. The proofs lift all of these bounds.
Each bound is a CONSTANT marked `bound` in its module.

## The proofs about pages and workflows

Every invariant and action property of the runs `AdminWeb` and `MemberWeb` is a
theorem, for every value of the constants; the two about one request at a
time have the hypotheses named under `RsvpCapacity`. `PartsBehave` says that a behaviour
of the whole is one of each part, so a part is proved about alone and its
theorem is stated for the whole. What is assumed is `AdminAssumption` and
`MemberAssumption`, the named assumptions of the parts: bounds are natural
numbers (positive where a first value must exist), a "none" value is not one of
the real ones, and the sets that the code counts are finite. TLC evaluates them
on the two runs. No theorem fixes a bound.

Each part has an inductive invariant: its `TypeOK` and what the property alone
does not say about what is on its way. TLC checked each on the instance of
its run.

| part, module of the proofs | invariant | what it adds, and why the property alone is not inductive |
|---|---|---|
| `AdminMembers`, `AdminWeb_proofs` | `MembersInv` | drafts, copies and the request on its way respect the hierarchy too, since a save sends a draft whatever the row became; the form differs from the copy in edited fields only |
| `AdminLists`, `AdminWeb_proofs` | `ListsInv` | answers not yet delivered hold no deleted row either, unless their fetch went on over the invalidation; a deletion under way knows its dialog |
| `EventEditor`, `AdminWeb_proofs` | `EditorInv` | how old the copy is that the form, and each save on its way, came from |
| `HeroToggles`, `AdminWeb_proofs` | `TogglesInv` | every lookup and every answer on its way to one that is beyond doubt is true but for targets being changed (`Sound`), and so are the items a failed change would restore while it is alone (`Restorable`); a change that is sure is the only one of its target |
| `PushSubscriptions`, `AdminWeb_proofs` | `PushInv` | a row stays its member's until its endpoint dies, for saves that were served and not yet reported; the clean-up names dead endpoints only |
| `Signup`, `MemberWeb_proofs` | `SignupInv` | what a call has read holds until its commit; passwords come before used requests |
| `ProfileChanges`, `MemberWeb_proofs` | `ChangesInv` | requests are numbered without gaps and the pending one is the last of its field, so a later approval is of a later request; what is in effect is an approval's or a direct edit's value |
| `EventPage`, `EventPage_proofs` | `PageInv` | see above; `MemberWeb_proofs` carries the theorem over to the whole |
| `RsvpCapacity`, `RsvpCapacity_proofs` | `TurnInv` | see above; `MemberWeb_proofs` carries the theorems over, with their hypotheses |
| `MyProfile`, `MyProfile_proofs` | `ProfileInv` | answers and saves on their way carry the row as it is unless they crossed; photos have distinct numbers, and the disk holds what an upload is about to name or to remove |
| `Directory`, `MemberPages_proofs` | `DirectoryInv` | where the two loops meet (`LoopsJoin`), that the replacements of the address sent since the last action and those still to come are two at most (`EchoesBounded`) |
| `PostEditor`, `MemberPages_proofs` | `EditorInv` | a publication left alone is the one the form was filled with, in the form and in the save on its way. The cover needs no more than types: `CoverLostOnlyToStaleUpload` is proved action by action |

Removing an image is a filter of a list. What it returns, a list over the same
images without the one removed, needs an induction over its length. The
library's induction theorems take a predicate and are out of the provers' reach,
so `NatSetInduction` states induction for a set of numbers, from the
well-foundedness of `<` in the library, and `WithoutType` applies it to the set
of lengths for which the filter does what it should.

The theorems `TypeCorrect` of `AdminWeb_proofs` and `MemberPages_proofs` put these
invariants together: every variable of the whole keeps its type.

## What stays with TLC

- Liveness: `OpenLogCloses` and `RequestsEnd`, under the fairness given above; the
  provers know nothing of ENABLED. `FreshnessRunsOut` and `WaitsAreShort` are the
  parts of them that are safety.
- The violation runs: a finding is a counterexample, not a theorem.

## Findings

Each is a violation run whose property quotes a document; `PROJECT.json` has
the wording and the lines.

- A retry without targets completes the log over failed rows
  (`CompletedLeavesNothingOpen`).
- A claim taken under an already reclaimed log is never swept
  (`InterruptedBecomesUnknown`).
- Two requests share the last seat (`GoingWithinCapacity`).
- The cancellation of a member who waits promotes another into a full event
  (`PromotionsHaveASeat`).
- A request that read its target before a promotion removes the last
  super_admin (`SuperAdminRemains`).
- Saving an event whose schedule nobody touched moves it by the offset of the
  reader's clock: the input is filled in UTC and read in local time
  (`UntouchedScheduleKept`).

Three further disagreements need no run of their own, because the model's
definitions show them and the passing properties are stated around them: a
delivery the push service refused is recorded as `failed` and retried, while
`docs/pwa_push.md:117` keeps that for calls never started (`AnswerRefused`); an
attendee who repeats the request when the others fill a lowered capacity is put
on the waitlist, while `docs/architecture.md:83` keeps the seat (`Normalize`);
cancellation and promotion are two transactions, while `docs/m2_plan.md:7` says
one (`Update`, `CommitPromotion`; `OnlyAbortWastesASeat` says what that costs).

## Not modelled

- Notification preferences: the repository only reads them. Support tickets,
  rate limits, client addresses, encryption and key rotation, configuration,
  logging, migrations, seeds and deployment: single handlers, libraries, I/O or
  scripts run on an idle system; `PROJECT.json` says which under `components`,
  and lists the hazards no property covers with the reason.
- Login, sessions and password changes, except activation and the refresh of an
  administrator's rights. A refused login is a library's counter; sessions are
  cookies.
- Visibility of posts, view counts, the writing of comments and the slides of
  the public page: reads, or single statements without a counterpart.
- Of the pages: wording, layout, and fields that are all handled alike, for
  which one or two stand. `AdminMembers` follows one member, and a failed fetch
  there leaves the data it had.
- Liveness of the pages: nothing makes a reader act or a network answer. Server
  liveness is `OpenLogCloses` and `RequestsEnd`.
- The statistics cache of the member list (thirty seconds old at most): the
  models do not measure time.

## Checking

`tlc -workers 2 -config DeliverySafety.cfg MCScheduledDelivery.tla`, and so on
for each run; `tlapm` on each module named `*_proofs.tla` for the proofs, each
a few minutes at most. The names ending in
`_Something` after a mapped definition (for example `Claimable_Unknown`) are its
mutants: plausible bugs each property must notice, listed under `mutants`.
The models declare no recursive operator: where the code loops over a list the
model has a set, a fold or a recursive function.
