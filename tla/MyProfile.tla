----------------------------- MODULE MyProfile -----------------------------
(***************************************************************************)
(* The page on which a member edits the own profile and photo.  Loading,   *)
(* saving and uploading may be under way together; the answer of each one  *)
(* carries the whole row and replaces the whole form.  The server writes   *)
(* the new photo before its commit and removes the old one after it.       *)
(***************************************************************************)
EXTENDS Naturals, FiniteSets

CONSTANTS Fields,
          MaxValues,  \* bound: values of fields chosen
          MaxWrites   \* bound: requests of the page and writes by others

ProfileAssumption == MaxValues \in Nat \ {0} /\ MaxWrites \in Nat

VARIABLES
  profile,   \* the member's row: fields and the file of the photo
  files,     \* photos on the disk
  mine,      \* the page: what it shows, the row it was told of, the form;
             \* history: the fields typed since, and whether the row is known to be older
  flights,   \* requests on their way; history: whether another one overlapped, whether
             \* the row was written behind the page, and (a save) the fields typed
  allowance  \* values and writes used; history: whether a photo may be left over

profileVars == <<profile, files, mine, flights, allowance>>

Kinds == {"load", "save", "avatar"}
Texts == 0..MaxValues  \* 0 is a text that validateProfileForm refuses
Photos == 0..MaxWrites

toFormState(row) == row.fields
isDirty == mine.form # toFormState(mine.me)
validateProfileForm(form) == {f \in Fields : form[f] = 0}  \* the fields with an error

Flying(kind) == \E x \in flights : x.kind = kind
busy            == Flying("save")
avatarUploading == Flying("avatar")

FirstRow == [fields |-> [f \in Fields |-> 1], photo |-> 0]
NoForm == [shown |-> "fetching", me |-> FirstRow, form |-> [f \in Fields |-> 0],
           typed |-> {}, behind |-> FALSE]

\* A request joins those on their way: all of them overlap from now on.
Joined(x) == {[y EXCEPT !.crossed = TRUE] : y \in flights}
             \cup {[x EXCEPT !.crossed = flights # {}]}
Request(kind) == [kind |-> kind, stage |-> "sent", crossed |-> FALSE, behind |-> FALSE,
                  row |-> FirstRow, old |-> 0, new |-> 0,
                  stale |-> FALSE, typed |-> {}]
Moved(x, y)  == (flights \ {x}) \cup {y}
MaySend      == allowance.writes < MaxWrites

----------------------------------------------------------------------------
Init ==
  /\ profile = FirstRow
  /\ files = {0}
  /\ mine = NoForm
  /\ flights = {}
  /\ allowance = [values |-> 1, writes |-> 0, leftover |-> FALSE]

\* The effect of the page: it loads once the session is known, and after "try again".
Load ==
  /\ mine.shown = "fetching" /\ ~Flying("load")
  /\ flights' = Joined(Request("load"))
  /\ UNCHANGED <<profile, files, mine, allowance>>

\* The session is in doubt: the page forgets the row, and the answer of a load.
SessionLost ==
  /\ mine.shown = "ready" /\ MaySend
  /\ mine' = NoForm
  /\ flights' = {x \in flights : x.kind # "load"}
  /\ allowance' = [allowance EXCEPT !.writes = @ + 1]
  /\ UNCHANGED <<profile, files>>

TryAgain ==
  /\ mine.shown = "error"
  /\ mine' = [mine EXCEPT !.shown = "fetching"]
  /\ UNCHANGED <<profile, files, flights, allowance>>

\* handleChange; nothing is locked while a request is on its way.
Type(f) ==
  /\ mine.shown = "ready"
  /\ \/ allowance.values < MaxValues /\ mine' = [mine EXCEPT !.form[f] = allowance.values + 1, !.typed = @ \cup {f}]
                                     /\ allowance' = [allowance EXCEPT !.values = @ + 1]
     \/ \E v \in {0, mine.me.fields[f]} :
          mine' = [mine EXCEPT !.form[f] = v, !.typed = @ \cup {f}] /\ allowance' = allowance
  /\ UNCHANGED <<profile, files, flights>>

\* onSave sends every field.
Save ==
  /\ mine.shown = "ready" /\ isDirty /\ ~busy /\ MaySend
  /\ validateProfileForm(mine.form) = {}
  /\ flights' = Joined([Request("save") EXCEPT !.row.fields = mine.form,
                                    !.stale = mine.behind, !.typed = mine.typed])
  /\ allowance' = [allowance EXCEPT !.writes = @ + 1]
  /\ UNCHANGED <<profile, files, mine>>

Upload ==
  /\ mine.shown = "ready" /\ ~avatarUploading /\ MaySend
  /\ flights' = Joined([Request("avatar") EXCEPT !.new = allowance.writes + 1])
  /\ allowance' = [allowance EXCEPT !.writes = @ + 1]
  /\ UNCHANGED <<profile, files, mine>>

\* -- the server -----------------------------------------------------------

\* Mutant: the row of the answer is read before the commit.
Answering_RowBefore(x) == [x EXCEPT !.stage = "served", !.row = profile, !.behind = FALSE,
                                    !.stale = FALSE, !.typed = {}]

\* The row that the answer carries is the one after the commit.
Answering(x) == [x EXCEPT !.stage = "served", !.row = profile', !.behind = FALSE,
                          !.stale = FALSE, !.typed = {}]

LoadServed(x) ==
  /\ x.kind = "load" /\ x.stage = "sent"
  /\ profile' = profile
  /\ flights' = Moved(x, Answering(x))
  /\ UNCHANGED <<files, mine, allowance>>

SaveServed(x) ==
  /\ x.kind = "save" /\ x.stage = "sent"
  /\ profile' = [profile EXCEPT !.fields = x.row.fields]
  /\ flights' = Moved(x, Answering(x))
  /\ UNCHANGED <<files, mine, allowance>>

\* upload_avatar reads the row, which update_member_avatar finds in its session later.
PhotoRead(x) ==
  /\ x.kind = "avatar" /\ x.stage = "sent"
  /\ flights' = Moved(x, [x EXCEPT !.stage = "read", !.old = profile.photo])
  /\ UNCHANGED <<profile, files, mine, allowance>>

PhotoWritten(x) ==
  /\ x.stage = "read"
  /\ files' = files \cup {x.new}
  /\ flights' = Moved(x, [x EXCEPT !.stage = "written"])
  /\ UNCHANGED <<profile, mine, allowance>>

PhotoCommitted(x) ==
  /\ x.stage = "written"
  /\ profile' = [profile EXCEPT !.photo = x.new]
  /\ flights' = Moved(x, [Answering(x) EXCEPT !.stage = "committed"])
  /\ allowance' = [allowance EXCEPT !.leftover = @ \/ profile.photo # x.old]
  /\ UNCHANGED <<files, mine>>

\* Mutant: the file removed is the one the row names by then.
PhotoRemoved_Current(x) ==
  /\ x.stage = "committed"
  /\ files' = files \ {profile.photo}
  /\ flights' = Moved(x, [x EXCEPT !.stage = "served", !.old = 0, !.new = 0])
  /\ UNCHANGED <<profile, mine, allowance>>

\* _remove_previous_avatar: a file that is gone already is no error.
PhotoRemoved(x) ==
  /\ x.stage = "committed"
  /\ files' = files \ {x.old}
  /\ flights' = Moved(x, [x EXCEPT !.stage = "served", !.old = 0, !.new = 0])
  /\ UNCHANGED <<profile, mine, allowance>>

\* A failure at any point, of the request or of its answer.
Fails(x) ==
  /\ x.stage # "failed"
  /\ flights' = Moved(x, [Request(x.kind) EXCEPT !.stage = "failed"])
  /\ mine' = [mine EXCEPT !.behind = @ \/ (x.stage \in {"committed", "served"} /\ x.kind # "load")]
  /\ allowance' = [allowance EXCEPT !.leftover = @ \/ x.stage \in {"written", "committed"}]
  /\ UNCHANGED <<profile, files>>

\* An administrator, another window, or an approved change request writes the row.
OthersWrite ==
  /\ MaySend /\ allowance.values < MaxValues
  /\ \E f \in Fields : profile' = [profile EXCEPT !.fields[f] = allowance.values + 1]
  /\ mine' = [mine EXCEPT !.behind = TRUE]
  /\ flights' = {[x EXCEPT !.behind = TRUE] : x \in flights}
  /\ allowance' = [allowance EXCEPT !.values = @ + 1, !.writes = @ + 1]
  /\ UNCHANGED files

\* The photo is replaced from another window, which is not followed further.
OthersUpload ==
  /\ MaySend
  /\ profile' = [profile EXCEPT !.photo = allowance.writes + 1]
  /\ files' = (files \ {profile.photo}) \cup {allowance.writes + 1}
  /\ mine' = [mine EXCEPT !.behind = TRUE]
  /\ flights' = {[x EXCEPT !.behind = TRUE] : x \in flights}
  /\ allowance' = [allowance EXCEPT !.writes = @ + 1]

\* -- the answers ----------------------------------------------------------

\* Mutant: an answer leaves a form that is shown alone.
Answered_FormKept(x) ==
  /\ x.stage = "served"
  /\ flights' = flights \ {x}
  /\ mine' = [shown |-> "ready", me |-> x.row, typed |-> {}, behind |-> x.crossed \/ x.behind,
              form |-> IF mine.shown = "ready" THEN mine.form ELSE toFormState(x.row)]
  /\ UNCHANGED <<profile, files, allowance>>

\* setMe, setForm: the row of the answer, whatever is in the form.
Answered(x) ==
  /\ x.stage = "served"
  /\ flights' = flights \ {x}
  /\ mine' = [shown |-> "ready", me |-> x.row, form |-> toFormState(x.row),
              typed |-> {}, behind |-> x.crossed \/ x.behind]
  /\ UNCHANGED <<profile, files, allowance>>

\* Only a load that fails takes the form away.
Failed(x) ==
  /\ x.stage = "failed"
  /\ flights' = flights \ {x}
  /\ mine' = IF x.kind = "load" THEN [NoForm EXCEPT !.shown = "error"] ELSE mine
  /\ UNCHANGED <<profile, files, allowance>>

Next ==
  \/ Load \/ SessionLost \/ TryAgain \/ Save \/ Upload
  \/ \E f \in Fields : Type(f)
  \/ \E x \in flights :
       \/ LoadServed(x) \/ SaveServed(x)
       \/ PhotoRead(x) \/ PhotoWritten(x) \/ PhotoCommitted(x) \/ PhotoRemoved(x)
       \/ Fails(x) \/ Answered(x) \/ Failed(x)
  \/ OthersWrite \/ OthersUpload

Spec == Init /\ [][Next]_profileVars

----------------------------------------------------------------------------
ProfileRows == [fields : [Fields -> 1..MaxValues], photo : Photos]

Forms   == [Fields -> Texts]
Screens == [shown : {"fetching", "ready", "error"}, me : ProfileRows, form : Forms,
            typed : SUBSET Fields, behind : BOOLEAN]
Flights == [kind : Kinds, stage : {"sent", "read", "written", "committed", "served", "failed"},
            crossed : BOOLEAN, behind : BOOLEAN, row : ProfileRows, old : Photos, new : Photos,
            stale : BOOLEAN, typed : SUBSET Fields]

TypeOK ==
  /\ profile \in ProfileRows /\ files \subseteq Photos
  /\ mine \in Screens
  /\ flights \subseteq Flights
  /\ allowance \in [values : 1..MaxValues, writes : 0..MaxWrites, leftover : BOOLEAN]

\* The page that says "saved" shows what is saved, unless somebody else wrote the row
\* or an answer was lost since, or the answers of two of its own requests crossed:
\* that of the older read may come last and put old values into the form.
SavedMeansSaved ==
  mine.shown = "ready" /\ ~isDirty /\ flights = {} /\ ~mine.behind => mine.me = profile

\* A save, which sends every field, changes no field its member did not type in, under
\* the same conditions.
UntypedFieldsSurvive ==
  [][\A x \in flights : \A f \in Fields :
       SaveServed(x) /\ profile'.fields[f] # profile.fields[f]
       => f \in x.typed \/ x.stale \/ x.behind \/ x.crossed]_profileVars

\* The photo of the row is on the disk, however uploads overlap and wherever they fail;
\* and once no upload is on its way it is the only one there, unless one failed between
\* its writes or two overlapped.
PhotoMatchesDisk ==
  /\ profile.photo \in files
  /\ ~avatarUploading /\ files # {profile.photo} => allowance.leftover
============================================================================
