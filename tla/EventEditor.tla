---------------------------- MODULE EventEditor ----------------------------
(***************************************************************************)
(* The administrators' pages that create and edit one event.  The edit     *)
(* page is seeded from a detail query that no save and no deletion         *)
(* invalidates, converts the schedule between instants and the clock of a  *)
(* datetime-local input, and saves by a PATCH followed by a GET.           *)
(* Instants and clocks are hours; a title is the number of the write that  *)
(* chose it.                                                               *)
(***************************************************************************)
EXTENDS Integers, FiniteSets

CONSTANTS Offset,     \* hours the reader's clock is ahead of UTC
          Start,      \* the instant at which the event starts at first
          Clocks,     \* times a reader types
          NoClock,    \* an empty time field
          MaxTitles,  \* bound: titles chosen
          MaxWrites,  \* bound: times the row is written
          MaxVisits   \* bound: visits of a page

ClockAssumption ==
  /\ Offset \in Int /\ Start \in Int /\ Clocks \subseteq Int
  /\ MaxTitles \in Nat \ {0} /\ MaxVisits \in Nat

VARIABLES
  event,    \* the row at the server
  detail,   \* the query ['admin-event', id]: its data, whether it is fresh, its fetch
  sheet,    \* the page shown, with its form; history: the write its last answer saw
  saves,    \* the mutations that create or update: they outlive the page that sent them
  removal,  \* the mutation that deletes, which outlives its page too, and the dialog
  tally     \* titles and visits used; history: how often the row was written

eventVars == <<event, detail, sheet, saves, removal, tally>>

NoCopy == [title |-> 0, starts |-> 0, alive |-> FALSE]
Blank  == [title |-> 0, clock |-> NoClock, titleTouched |-> FALSE, clockTouched |-> FALSE]
Closed == [kind |-> "none", form |-> Blank, seen |-> 0]
NoRemoval == [status |-> "idle", open |-> FALSE, visit |-> 0]

\* An instant as the text of a datetime-local input: the clock of UTC.
toLocalInput(instant) == instant

\* The text of a datetime-local input as an instant: the clock of the reader.
fromLocalInput(clock) == clock - Offset

Seed(row) == [title |-> row.title, clock |-> toLocalInput(row.starts),
              titleTouched |-> FALSE, clockTouched |-> FALSE]

\* Mutant: only the first answer fills the form.
Reseeded_Once(old, row, form) == IF old.alive THEN form ELSE Seed(row)

\* The form after an answer: replaced whenever the data differ from those shown.
Reseeded(old, row, form) == IF row = old THEN form ELSE Seed(row)

\* The mutation of the visit is pending.
Busy == \E s \in saves : s.visit = tally.visits

Deleting == removal.status # "idle" /\ removal.visit = tally.visits

\* isFormDisabled of the edit page.
isFormDisabled ==
  \/ Busy \/ Deleting
  \/ sheet.form.title = 0 \/ sheet.form.clock = NoClock

\* canSubmit of the new page.
canSubmit == ~Busy /\ sheet.form.title # 0 /\ sheet.form.clock # NoClock

----------------------------------------------------------------------------
Init ==
  /\ event \in {NoCopy, [title |-> 1, starts |-> Start, alive |-> TRUE]}
  /\ detail = [data |-> NoCopy, fresh |-> FALSE, asked |-> FALSE]
  /\ sheet = Closed /\ saves = {} /\ removal = NoRemoval
  /\ tally = [titles |-> 1, visits |-> 0, writes |-> 1]

OpenNew ==
  /\ sheet.kind = "none" /\ ~event.alive /\ tally.visits = 0 /\ MaxVisits > 0
  /\ sheet' = [Closed EXCEPT !.kind = "new"]
  /\ tally' = [tally EXCEPT !.visits = @ + 1]
  /\ UNCHANGED <<event, detail, saves, removal>>

\* The edit page shows the cached copy at once, and fetches when it has none or
\* when the copy is older than the stale time.
OpenEdit ==
  /\ sheet.kind = "none" /\ event.alive /\ tally.visits < MaxVisits
  /\ sheet' = [kind |-> "edit", seen |-> 0,
               form |-> IF detail.data.alive THEN Seed(detail.data) ELSE Blank]
  /\ detail' = [detail EXCEPT !.asked = @ \/ ~detail.fresh]
  /\ tally' = [tally EXCEPT !.visits = @ + 1]
  /\ UNCHANGED <<event, saves, removal>>

\* A minute passes: the copy is stale when the page is next opened.
GoStale ==
  /\ detail.fresh
  /\ detail' = [detail EXCEPT !.fresh = FALSE]
  /\ UNCHANGED <<event, sheet, saves, removal, tally>>

\* The server answers the detail query with the row it has then, also after the page
\* that asked was left.
Fetched ==
  /\ detail.asked /\ event.alive
  /\ detail' = [data |-> event, fresh |-> TRUE, asked |-> FALSE]
  /\ sheet' = IF sheet.kind # "edit" THEN sheet
              ELSE [sheet EXCEPT !.form = Reseeded(detail.data, event, @), !.seen = tally.writes]
  /\ UNCHANGED <<event, saves, removal, tally>>

\* The query fails: an error takes the place of the form and of the dialog.
FetchFailed ==
  /\ detail.asked
  /\ detail' = [detail EXCEPT !.asked = FALSE]
  /\ sheet' = IF sheet.kind # "edit" THEN sheet ELSE [Closed EXCEPT !.kind = "error"]
  /\ removal' = [removal EXCEPT !.open = FALSE]
  /\ UNCHANGED <<event, saves, tally>>

FormShown == sheet.kind = "edit" /\ detail.data.alive

\* The dialog is modal.
CanType == ~removal.open /\ (sheet.kind = "new" \/ FormShown)

TypeTitle ==
  /\ CanType /\ tally.titles < MaxTitles
  /\ sheet' = [sheet EXCEPT !.form.title = tally.titles + 1, !.form.titleTouched = TRUE]
  /\ tally' = [tally EXCEPT !.titles = @ + 1]
  /\ UNCHANGED <<event, detail, saves, removal>>

TypeClock ==
  /\ CanType
  /\ \E c \in Clocks :
       sheet' = [sheet EXCEPT !.form.clock = c, !.form.clockTouched = TRUE]
  /\ UNCHANGED <<event, detail, saves, removal, tally>>

\* Every field of the form is sent, touched or not.
Save ==
  /\ \/ sheet.kind = "new" /\ canSubmit
     \/ FormShown /\ ~removal.open /\ ~isFormDisabled
  /\ tally.writes + Cardinality(saves) < MaxWrites
  /\ saves' = saves \cup {[status |-> "sent", sheet |-> sheet, visit |-> tally.visits]}
  /\ UNCHANGED <<event, detail, sheet, removal, tally>>

\* The POST or the PATCH.  (One event is followed: a second creation is not served.)
SaveServed(s) ==
  /\ s.status = "sent" /\ (event.alive <=> s.sheet.kind = "edit")
  /\ event' = [alive |-> TRUE, title |-> s.sheet.form.title,
               starts |-> fromLocalInput(s.sheet.form.clock)]
  /\ saves' = (saves \ {s}) \cup {[s EXCEPT !.status = "stored"]}
  /\ tally' = [tally EXCEPT !.writes = @ + 1]
  /\ UNCHANGED <<detail, sheet, removal>>

\* onError: the request was refused, or it was served and its answer, or the GET that
\* follows a PATCH, failed.
SaveFailed(s) ==
  /\ saves' = saves \ {s}
  /\ UNCHANGED <<event, detail, sheet, removal, tally>>

\* onSuccess: the list of events takes the place of whatever page is shown; the
\* detail query keeps the copy it has.
SaveAnswered(s) ==
  /\ s.status = "stored" /\ (s.sheet.kind = "edit" => event.alive)
  /\ saves' = saves \ {s}
  /\ sheet' = Closed /\ removal' = [removal EXCEPT !.open = FALSE]
  /\ UNCHANGED <<event, detail, tally>>

Leave ==
  /\ sheet.kind # "none"
  /\ sheet' = Closed /\ removal' = [removal EXCEPT !.open = FALSE]
  /\ UNCHANGED <<event, detail, saves, tally>>

\* The delete button stays enabled while a save is on its way.
OpenDialog ==
  /\ FormShown /\ ~removal.open
  /\ removal' = [removal EXCEPT !.open = TRUE]
  /\ UNCHANGED <<event, detail, sheet, saves, tally>>

\* (One deletion at a time is followed.)
ConfirmDelete ==
  /\ removal.open /\ removal.status = "idle"
  /\ removal' = [removal EXCEPT !.status = "sent", !.visit = tally.visits]
  /\ UNCHANGED <<event, detail, sheet, saves, tally>>

\* Escape and a click beside the dialog close it, while a deletion is pending too.
CancelDelete ==
  /\ removal.open
  /\ removal' = [removal EXCEPT !.open = FALSE]
  /\ UNCHANGED <<event, detail, sheet, saves, tally>>

DeleteServed ==
  /\ removal.status = "sent" /\ event.alive
  /\ event' = NoCopy
  /\ removal' = [removal EXCEPT !.status = "served"]
  /\ UNCHANGED <<detail, sheet, saves, tally>>

DeleteFailed ==
  /\ removal.status \in {"sent", "served"}
  /\ removal' = [removal EXCEPT !.status = "idle"]
  /\ UNCHANGED <<event, detail, sheet, saves, tally>>

DeleteAnswered ==
  /\ removal.status = "served"
  /\ sheet' = Closed /\ removal' = NoRemoval
  /\ UNCHANGED <<event, detail, saves, tally>>

\* Another administrator saves the event.
OtherWrites ==
  /\ event.alive /\ tally.titles < MaxTitles /\ tally.writes + Cardinality(saves) < MaxWrites
  /\ event' = [event EXCEPT !.title = tally.titles + 1]
  /\ tally' = [tally EXCEPT !.titles = @ + 1, !.writes = @ + 1]
  /\ UNCHANGED <<detail, sheet, saves, removal>>

Next ==
  \/ OpenNew \/ OpenEdit \/ GoStale \/ Fetched \/ FetchFailed \/ TypeTitle \/ TypeClock
  \/ Save \/ Leave
  \/ \E s \in saves : SaveServed(s) \/ SaveFailed(s) \/ SaveAnswered(s)
  \/ OpenDialog \/ ConfirmDelete \/ CancelDelete
  \/ DeleteServed \/ DeleteFailed \/ DeleteAnswered
  \/ OtherWrites

Spec == Init /\ [][Next]_eventVars

----------------------------------------------------------------------------
EventRows == [title : 0..MaxTitles, starts : Int, alive : BOOLEAN]
Forms  == [title : 0..MaxTitles, clock : Int \cup {NoClock}, titleTouched : BOOLEAN, clockTouched : BOOLEAN]
Sheets == [kind : {"none", "new", "edit", "error"}, seen : Nat, form : Forms]
Details  == [data : EventRows, fresh : BOOLEAN, asked : BOOLEAN]
Saves    == [status : {"sent", "stored"}, visit : 0..MaxVisits, sheet : Sheets]
Removals == [status : {"idle", "sent", "served"}, open : BOOLEAN, visit : 0..MaxVisits]
Tallies  == [titles : 1..MaxTitles, visits : 0..MaxVisits, writes : Nat \ {0}]

TypeOK ==
  /\ event \in EventRows /\ detail \in Details /\ sheet \in Sheets
  /\ saves \subseteq Saves /\ removal \in Removals /\ tally \in Tallies

\* A save, however late it is served, puts back an older title that was left alone
\* only when its page was never answered for or the event was written after that.
RevertNeedsAStaleSeed ==
  [][\A s \in saves :
       SaveServed(s) /\ ~s.sheet.form.titleTouched /\ s.sheet.seen = tally.writes
       => event'.title = event.title]_eventVars

\* Times are shown and entered in Korean time everywhere: saving an event whose
\* schedule was left alone keeps its schedule.
UntouchedScheduleKept ==
  [][\A s \in saves :
       SaveServed(s) /\ ~s.sheet.form.clockTouched /\ s.sheet.seen = tally.writes
       => event'.starts = event.starts]_eventVars
============================================================================
