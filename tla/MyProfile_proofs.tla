--------------------------- MODULE MyProfile_proofs ---------------------------
(***************************************************************************)
(* Proofs about the page on which a member edits the own profile: what it  *)
(* calls saved is saved, a save changes only what was typed, and the photo *)
(* of the row is on the disk.                                              *)
(***************************************************************************)
EXTENDS MemberWeb_proofs

(* One request of a kind is on its way at a time, and one that overlapped no other is
   alone. *)
Alone == \A x, y \in flights : x.kind = y.kind => x = y
CrossedKnown == \A x \in flights : x.stage # "failed" /\ ~x.crossed => flights = {x}

(* An answer carries the row as it is, unless another request overlapped or the row was
   written behind the page. *)
AnswersCurrent ==
  \A x \in flights : x.stage \in {"committed", "served"} /\ ~x.crossed /\ ~x.behind => x.row = profile

(* So does the page, unless it is to be told of a newer row; and a field that nobody typed
   in shows what the page was told. *)
PageCurrent ==
  mine.shown = "ready"
  => /\ ~mine.behind
        => mine.me = profile \/ \E x \in flights : x.stage \in {"committed", "served"} /\ x.kind # "load"
     /\ \A f \in Fields \ mine.typed : mine.form[f] = mine.me.fields[f]

(* A save sends the fields nobody typed in as the row has them. *)
SavesCurrent ==
  \A x \in flights : x.kind = "save" /\ x.stage = "sent" /\ ~x.stale /\ ~x.behind /\ ~x.crossed
     => \A f \in Fields \ x.typed : x.row.fields[f] = profile.fields[f]

(* The photos are numbered as they are made, and an upload knows its own and the old one. *)
Numbered ==
  /\ files \subseteq 0..allowance.writes /\ profile.photo \in files
  /\ \A x \in flights :
       /\ x.stage \in {"read", "written", "committed"} => x.kind = "avatar" /\ x.old \in 0..allowance.writes
       /\ x.kind = "avatar" /\ x.stage \in {"sent", "read", "written"}
          => x.new # profile.photo /\ x.new \in 0..allowance.writes
       /\ x.kind = "avatar" /\ x.stage \in {"read", "written"} => x.old # x.new
       /\ x.stage = "written" => x.new \in files
       /\ x.stage = "committed" => x.old # profile.photo

(* Unless a photo was left over, the disk holds that of the row and what an upload is
   about to name there or to remove. *)
DiskKnown ==
  ~allowance.leftover
  => /\ (\A x \in flights : x.stage \notin {"written", "committed"}) => files = {profile.photo}
     /\ \A x \in flights : /\ x.stage = "written" => files = {profile.photo, x.new}
                           /\ x.stage = "committed" => files = {profile.photo, x.old}

ProfileSafe == Alone /\ CrossedKnown /\ AnswersCurrent /\ PageCurrent /\ SavesCurrent /\ Numbered /\ DiskKnown
ProfileInv == ProfilePage!TypeOK /\ ProfileSafe

LEMMA ProfileInit == ASSUME ProfilePage!ProfileAssumption, ProfilePage!Init PROVE ProfileInv
<1> USE DEF ProfilePage!ProfileAssumption, ProfilePage!Init
<1>1. ProfilePage!FirstRow \in ProfilePage!ProfileRows
  BY DEF ProfilePage!FirstRow, ProfilePage!ProfileRows, ProfilePage!Photos
<1>2. ProfilePage!NoForm \in ProfilePage!Screens
  BY <1>1 DEF ProfilePage!NoForm, ProfilePage!Screens, ProfilePage!Forms, ProfilePage!Texts
<1>3. ProfilePage!TypeOK
  BY <1>1, <1>2 DEF ProfilePage!TypeOK, ProfilePage!Photos
<1>4. PageCurrent /\ Numbered /\ DiskKnown
  BY DEF PageCurrent, Numbered, DiskKnown, ProfilePage!NoForm, ProfilePage!FirstRow
<1> QED
  BY <1>3, <1>4 DEF ProfileInv, ProfileSafe, Alone, CrossedKnown, AnswersCurrent, SavesCurrent

-----------------------------------------------------------------------------
(* Requests *)

Crossed(x) == [x EXCEPT !.crossed = TRUE]
Overtaken(x) == [x EXCEPT !.behind = TRUE]

Same(x, y) ==
  /\ x.kind = y.kind /\ x.stage = y.stage /\ x.row = y.row /\ x.old = y.old /\ x.new = y.new
  /\ x.typed = y.typed /\ x.stale = y.stale

LEMMA CrossedFacts ==
    ASSUME NEW x \in ProfilePage!Flights
    PROVE  Crossed(x) \in ProfilePage!Flights /\ Same(Crossed(x), x) /\ Crossed(x).crossed
BY DEF ProfilePage!Flights, Crossed, Same

LEMMA OvertakenFacts ==
    ASSUME NEW x \in ProfilePage!Flights
    PROVE  /\ Overtaken(x) \in ProfilePage!Flights /\ Same(Overtaken(x), x)
           /\ Overtaken(x).behind /\ Overtaken(x).crossed = x.crossed
BY DEF ProfilePage!Flights, Overtaken, Same

LEMMA RequestFacts ==
    ASSUME ProfilePage!ProfileAssumption, NEW kind \in ProfilePage!Kinds
    PROVE  /\ ProfilePage!Request(kind) \in ProfilePage!Flights
           /\ ProfilePage!Request(kind).kind = kind /\ ProfilePage!Request(kind).stage = "sent"
<1>1. ProfilePage!FirstRow \in ProfilePage!ProfileRows /\ 0 \in ProfilePage!Photos
  BY DEF ProfilePage!FirstRow, ProfilePage!ProfileRows, ProfilePage!Photos, ProfilePage!ProfileAssumption
<1> QED
  BY <1>1 DEF ProfilePage!Request, ProfilePage!Flights

\* The answer that a request becomes.
LEMMA AnswerFacts ==
    ASSUME NEW x \in ProfilePage!Flights, NEW row \in ProfilePage!ProfileRows
    PROVE  LET y == [x EXCEPT !.stage = "served", !.row = row, !.behind = FALSE, !.stale = FALSE, !.typed = {}]
           IN  /\ y \in ProfilePage!Flights /\ y.kind = x.kind /\ y.stage = "served" /\ y.row = row
               /\ y.crossed = x.crossed /\ y.old = x.old /\ y.new = x.new
<1> SUFFICES ASSUME NEW y, y = [x EXCEPT !.stage = "served", !.row = row, !.behind = FALSE, !.stale = FALSE,
                                         !.typed = {}]
             PROVE  /\ y \in ProfilePage!Flights /\ y.kind = x.kind /\ y.stage = "served" /\ y.row = row
                    /\ y.crossed = x.crossed /\ y.old = x.old /\ y.new = x.new
  OBVIOUS
<1>1. y = [kind |-> x.kind, stage |-> "served", crossed |-> x.crossed, behind |-> FALSE, row |-> row,
           old |-> x.old, new |-> x.new, stale |-> FALSE, typed |-> {}]
  BY DEF ProfilePage!Flights
<1> QED
  BY <1>1 DEF ProfilePage!Flights

\* A request that joins overlaps all that are on their way.
LEMMA JoinFacts ==
    ASSUME ProfilePage!TypeOK, NEW x \in ProfilePage!Flights, flights' = ProfilePage!Joined(x)
    PROVE  \E z \in ProfilePage!Flights :
             /\ flights' = {Crossed(y) : y \in flights} \cup {z}
             /\ Same(z, x) /\ z.behind = x.behind /\ (z.crossed <=> flights # {})
<1> DEFINE b == flights # {}
           z == [x EXCEPT !.crossed = b]
<1>1. b \in BOOLEAN
  OBVIOUS
<1>2. flights' = {Crossed(y) : y \in flights} \cup {z}
  BY DEF ProfilePage!Joined, Crossed
<1>3. ASSUME NEW c \in BOOLEAN
      PROVE  LET w == [x EXCEPT !.crossed = c]
             IN  w \in ProfilePage!Flights /\ Same(w, x) /\ w.behind = x.behind /\ w.crossed = c
  BY <1>3 DEF ProfilePage!Flights, Same
<1>4. z \in ProfilePage!Flights /\ Same(z, x) /\ z.behind = x.behind /\ z.crossed = b
  <2> HIDE DEF b
  <2> QED
    BY <1>1, <1>3
<1> QED
  BY <1>2, <1>4

-----------------------------------------------------------------------------
(* The kinds of steps *)

\* A request is sent.
LEMMA JoinStep ==
    ASSUME ProfilePage!TypeOK, ProfileSafe, NEW x \in ProfilePage!Flights, flights' = ProfilePage!Joined(x),
           UNCHANGED <<profile, files, mine>>, x.stage = "sent",
           \A y \in flights : y.kind # x.kind,
           allowance'.leftover = allowance.leftover,
           allowance.writes \in Nat, allowance'.writes \in Nat, allowance.writes <= allowance'.writes,
           x.kind = "avatar" => x.new \in 0..allowance'.writes /\ x.new \notin 0..allowance.writes,
           x.kind = "save" /\ flights = {} /\ ~x.stale
             => \A f \in Fields \ x.typed : x.row.fields[f] = profile.fields[f]
    PROVE  ProfileSafe'
<1>1. PICK z \in ProfilePage!Flights :
        /\ flights' = {Crossed(y) : y \in flights} \cup {z}
        /\ Same(z, x) /\ z.behind = x.behind /\ (z.crossed <=> flights # {})
  BY JoinFacts
<1>2. \A y \in flights : Same(Crossed(y), y) /\ Crossed(y).crossed
  BY CrossedFacts DEF ProfilePage!TypeOK
<1>3. \A y \in flights' : y = z \/ \E u \in flights : y = Crossed(u) /\ Same(y, u) /\ y.crossed
  BY <1>1, <1>2
<1>4. \A y \in flights : Crossed(y) \in flights' /\ Same(Crossed(y), y)
  BY <1>1, <1>2
<1>5. Alone'
  BY <1>1, <1>3 DEF ProfileSafe, Alone, Same
<1>6. CrossedKnown'
  BY <1>1, <1>3 DEF CrossedKnown
<1>7. AnswersCurrent'
  BY <1>1, <1>3 DEF AnswersCurrent, Same
<1>8. PageCurrent'
  BY <1>4 DEF ProfileSafe, PageCurrent, Same
<1>9. SavesCurrent'
  BY <1>1, <1>3 DEF SavesCurrent, Same
<1>10. Numbered'
  <2>a. 0..allowance.writes \subseteq 0..allowance'.writes
    OBVIOUS
  <2>b. files' \subseteq 0..allowance'.writes /\ profile'.photo \in files' /\ profile.photo \in 0..allowance.writes
    BY <2>a DEF ProfileSafe, Numbered
  <2> QED
    BY <1>1, <1>3, <2>a, <2>b DEF ProfileSafe, Numbered, Same
<1>11. DiskKnown'
  <2>1. /\ z.stage = "sent"
        /\ (\A y \in flights' : y.stage \notin {"written", "committed"})
           => \A y \in flights : y.stage \notin {"written", "committed"}
    BY <1>1, <1>4 DEF Same
  <2> QED
    BY <1>3, <2>1 DEF ProfileSafe, DiskKnown, Same
<1> QED
  BY <1>5, <1>6, <1>7, <1>8, <1>9, <1>10, <1>11 DEF ProfileSafe

\* A request moves on.
LEMMA MoveStep ==
    ASSUME Alone, CrossedKnown, NEW x \in flights, NEW y, flights' = (flights \ {x}) \cup {y},
           y.kind = x.kind, y.stage = "failed" \/ (x.stage # "failed" /\ y.crossed = x.crossed)
    PROVE  Alone' /\ CrossedKnown'
<1>1. \A z \in flights' : z = y \/ (z \in flights /\ z # x /\ z.kind # y.kind)
  BY DEF Alone
<1>2. Alone'
  BY <1>1 DEF Alone
<1>3. CrossedKnown'
  BY <1>1 DEF CrossedKnown
<1> QED
  BY <1>2, <1>3

\* One request on its way at most has not crossed another.
LEMMA OthersCrossed ==
    ASSUME CrossedKnown, NEW x \in flights
    PROVE  \A z \in flights : z # x => z.stage = "failed" \/ z.crossed
BY DEF CrossedKnown

\* The server reads the row for an answer.
LEMMA LoadStep ==
    ASSUME ProfilePage!TypeOK, ProfileSafe, NEW x \in flights, ProfilePage!LoadServed(x)
    PROVE  ProfileSafe'
<1> DEFINE y == [x EXCEPT !.stage = "served", !.row = profile, !.behind = FALSE, !.stale = FALSE, !.typed = {}]
<1>1. /\ y \in ProfilePage!Flights /\ y.kind = "load" /\ y.stage = "served" /\ y.row = profile
      /\ y.crossed = x.crossed
  <2>1. x \in ProfilePage!Flights /\ profile \in ProfilePage!ProfileRows /\ x.kind = "load"
    BY DEF ProfilePage!TypeOK, ProfilePage!LoadServed
  <2> QED
    BY <2>1, AnswerFacts
<1>2. /\ flights' = (flights \ {x}) \cup {y} /\ UNCHANGED <<profile, files, mine, allowance>>
      /\ x.kind = "load" /\ x.stage = "sent"
  BY DEF ProfilePage!LoadServed, ProfilePage!Moved, ProfilePage!Answering
<1> HIDE DEF y
<1>3. Alone' /\ CrossedKnown'
  BY <1>1, <1>2, MoveStep DEF ProfileSafe
<1>4. AnswersCurrent'
  BY <1>1, <1>2 DEF ProfileSafe, AnswersCurrent
<1>5. PageCurrent'
  BY <1>1, <1>2 DEF ProfileSafe, PageCurrent
<1>6. SavesCurrent'
  BY <1>1, <1>2 DEF ProfileSafe, SavesCurrent
<1>7. Numbered'
  BY <1>1, <1>2 DEF ProfileSafe, Numbered
<1>8. DiskKnown'
  BY <1>1, <1>2 DEF ProfileSafe, DiskKnown
<1> QED
  BY <1>3, <1>4, <1>5, <1>6, <1>7, <1>8 DEF ProfileSafe

\* The server writes every field and answers with the row.
LEMMA SaveStep ==
    ASSUME ProfilePage!TypeOK, ProfileSafe, NEW x \in flights, ProfilePage!SaveServed(x),
           profile' \in ProfilePage!ProfileRows
    PROVE  ProfileSafe'
<1> DEFINE y == [x EXCEPT !.stage = "served", !.row = profile', !.behind = FALSE, !.stale = FALSE, !.typed = {}]
<1>0. x \in ProfilePage!Flights
  BY DEF ProfilePage!TypeOK
<1>1. PICK z \in ProfilePage!Flights :
        /\ flights' = (flights \ {x}) \cup {z} /\ z.kind = "save" /\ z.stage = "served" /\ z.row = profile'
        /\ z.crossed = x.crossed
  <2>1. flights' = (flights \ {x}) \cup {y} /\ x.kind = "save"
    BY DEF ProfilePage!SaveServed, ProfilePage!Moved, ProfilePage!Answering
  <2>2. /\ y \in ProfilePage!Flights /\ y.kind = x.kind /\ y.stage = "served" /\ y.row = profile'
        /\ y.crossed = x.crossed
    BY <1>0, AnswerFacts
  <2> HIDE DEF y
  <2> QED
    BY <2>1, <2>2
<1>2. /\ UNCHANGED <<files, mine, allowance>> /\ profile'.photo = profile.photo
      /\ x.kind = "save" /\ x.stage = "sent"
  BY DEF ProfilePage!SaveServed, ProfilePage!TypeOK, ProfilePage!ProfileRows
<1>3. Alone' /\ CrossedKnown'
  BY <1>1, <1>2, MoveStep DEF ProfileSafe
<1>4. \A u \in flights : u # x => u.stage = "failed" \/ u.crossed
  BY OthersCrossed DEF ProfileSafe
<1>5. AnswersCurrent'
  BY <1>1, <1>2, <1>4 DEF AnswersCurrent
<1>6. PageCurrent'
  BY <1>1, <1>2 DEF ProfileSafe, PageCurrent
<1>7. SavesCurrent'
  BY <1>1, <1>2, <1>4 DEF SavesCurrent
<1>8. Numbered'
  BY <1>1, <1>2 DEF ProfileSafe, Numbered
<1>9. DiskKnown'
  BY <1>1, <1>2 DEF ProfileSafe, DiskKnown
<1> QED
  BY <1>3, <1>5, <1>6, <1>7, <1>8, <1>9 DEF ProfileSafe

\* The three writes of an upload: the file, the row, the removal of the old file.
LEMMA PhotoReadStep ==
    ASSUME ProfilePage!TypeOK, ProfileSafe, NEW x \in flights, ProfilePage!PhotoRead(x)
    PROVE  ProfileSafe'
<1>0. x \in ProfilePage!Flights
  BY DEF ProfilePage!TypeOK
<1>1. PICK y : /\ flights' = (flights \ {x}) \cup {y} /\ y.kind = "avatar" /\ y.stage = "read"
               /\ y.crossed = x.crossed /\ y.old = profile.photo /\ y.new = x.new
  <2> DEFINE y == [x EXCEPT !.stage = "read", !.old = profile.photo]
  <2>1. flights' = (flights \ {x}) \cup {y} /\ y.kind = "avatar" /\ y.stage = "read"
        /\ y.crossed = x.crossed /\ y.old = profile.photo /\ y.new = x.new
    BY <1>0 DEF ProfilePage!PhotoRead, ProfilePage!Moved, ProfilePage!Flights
  <2> QED
    BY <2>1
<1>2. UNCHANGED <<profile, files, mine, allowance>> /\ x.kind = "avatar" /\ x.stage = "sent"
  BY DEF ProfilePage!PhotoRead
<1>3. Alone' /\ CrossedKnown'
  BY <1>1, <1>2, MoveStep DEF ProfileSafe
<1>4. AnswersCurrent'
  BY <1>1, <1>2 DEF ProfileSafe, AnswersCurrent
<1>5. PageCurrent'
  BY <1>1, <1>2 DEF ProfileSafe, PageCurrent
<1>6. SavesCurrent'
  BY <1>1, <1>2 DEF ProfileSafe, SavesCurrent
<1>7. Numbered'
  BY <1>1, <1>2 DEF ProfileSafe, Numbered
<1>8. DiskKnown'
  BY <1>1, <1>2 DEF ProfileSafe, DiskKnown
<1> QED
  BY <1>3, <1>4, <1>5, <1>6, <1>7, <1>8 DEF ProfileSafe

LEMMA PhotoWrittenStep ==
    ASSUME ProfilePage!TypeOK, ProfileSafe, NEW x \in flights, ProfilePage!PhotoWritten(x)
    PROVE  ProfileSafe'
<1>0. x \in ProfilePage!Flights
  BY DEF ProfilePage!TypeOK
<1>1. PICK y : /\ flights' = (flights \ {x}) \cup {y} /\ y.kind = x.kind /\ y.stage = "written"
               /\ y.crossed = x.crossed /\ y.old = x.old /\ y.new = x.new
  <2> DEFINE y == [x EXCEPT !.stage = "written"]
  <2>1. flights' = (flights \ {x}) \cup {y} /\ y.kind = x.kind /\ y.stage = "written"
        /\ y.crossed = x.crossed /\ y.old = x.old /\ y.new = x.new
    BY <1>0 DEF ProfilePage!PhotoWritten, ProfilePage!Moved, ProfilePage!Flights
  <2> QED
    BY <2>1
<1>2. UNCHANGED <<profile, mine, allowance>> /\ files' = files \cup {x.new} /\ x.stage = "read"
  BY DEF ProfilePage!PhotoWritten
<1>3. /\ x.kind = "avatar" /\ x.new \in 0..allowance.writes /\ x.new # profile.photo /\ x.old # x.new
      /\ x.old \in 0..allowance.writes
  BY <1>2 DEF ProfileSafe, Numbered
<1>4. \A z \in flights : z # x => z.kind # "avatar" /\ z.stage \notin {"read", "written", "committed"}
  BY <1>3 DEF ProfileSafe, Alone, Numbered
<1>5. Alone' /\ CrossedKnown'
  BY <1>1, <1>2, MoveStep DEF ProfileSafe
<1>6. AnswersCurrent'
  BY <1>1, <1>2 DEF ProfileSafe, AnswersCurrent
<1>7. PageCurrent'
  BY <1>1, <1>2 DEF ProfileSafe, PageCurrent
<1>8. SavesCurrent'
  BY <1>1, <1>2, <1>3 DEF ProfileSafe, SavesCurrent
<1>9. Numbered'
  BY <1>1, <1>2, <1>3, <1>4 DEF ProfileSafe, Numbered
<1>10. DiskKnown'
  BY <1>1, <1>2, <1>4 DEF ProfileSafe, DiskKnown
<1> QED
  BY <1>5, <1>6, <1>7, <1>8, <1>9, <1>10 DEF ProfileSafe

LEMMA PhotoCommittedStep ==
    ASSUME ProfilePage!TypeOK, ProfileSafe, NEW x \in flights, ProfilePage!PhotoCommitted(x),
           profile' \in ProfilePage!ProfileRows
    PROVE  ProfileSafe'
<1>0. x \in ProfilePage!Flights /\ profile \in ProfilePage!ProfileRows
  BY DEF ProfilePage!TypeOK
<1>1. PICK y : /\ flights' = (flights \ {x}) \cup {y} /\ y.kind = x.kind /\ y.stage = "committed"
               /\ y.crossed = x.crossed /\ y.old = x.old /\ y.new = x.new /\ y.row = profile'
  <2> DEFINE w == [x EXCEPT !.stage = "served", !.row = profile', !.behind = FALSE, !.stale = FALSE, !.typed = {}]
             y == [w EXCEPT !.stage = "committed"]
  <2>1. flights' = (flights \ {x}) \cup {y}
    BY DEF ProfilePage!PhotoCommitted, ProfilePage!Moved, ProfilePage!Answering
  <2>2. /\ w \in ProfilePage!Flights /\ w.kind = x.kind /\ w.row = profile'
        /\ w.crossed = x.crossed /\ w.old = x.old /\ w.new = x.new
    BY <1>0, AnswerFacts
  <2> HIDE DEF w
  <2>3. /\ y.kind = w.kind /\ y.stage = "committed" /\ y.crossed = w.crossed /\ y.old = w.old /\ y.new = w.new
        /\ y.row = w.row
    BY <2>2 DEF ProfilePage!Flights
  <2> HIDE DEF y
  <2> QED
    BY <2>1, <2>2, <2>3
<1>2. /\ UNCHANGED <<files, mine>> /\ x.stage = "written"
      /\ profile'.photo = x.new /\ profile'.fields = profile.fields
  BY <1>0 DEF ProfilePage!PhotoCommitted, ProfilePage!ProfileRows
<1>3. /\ allowance'.writes = allowance.writes
      /\ allowance'.leftover <=> allowance.leftover \/ profile.photo # x.old
  <2>1. allowance' = [allowance EXCEPT !.leftover = allowance.leftover \/ profile.photo # x.old]
    BY DEF ProfilePage!PhotoCommitted
  <2> QED
    BY <2>1 DEF ProfilePage!TypeOK
<1>4. /\ x.kind = "avatar" /\ x.new \in files /\ x.old # x.new /\ x.old \in 0..allowance.writes
  BY <1>2 DEF ProfileSafe, Numbered
<1>5. \A z \in flights : z # x => /\ z.kind # "avatar" /\ z.stage \notin {"read", "written", "committed"}
                                  /\ z.stage = "failed" \/ z.crossed
  BY <1>4, OthersCrossed DEF ProfileSafe, Alone, Numbered
<1>6. Alone' /\ CrossedKnown'
  BY <1>1, <1>2, MoveStep DEF ProfileSafe
<1>7. AnswersCurrent'
  BY <1>1, <1>5 DEF AnswersCurrent
<1>8. PageCurrent'
  BY <1>1, <1>2, <1>4 DEF ProfileSafe, PageCurrent
<1>9. SavesCurrent'
  BY <1>1, <1>5 DEF SavesCurrent
<1>10. Numbered'
  BY <1>1, <1>2, <1>3, <1>4, <1>5 DEF ProfileSafe, Numbered
<1>11. DiskKnown'
  <2> SUFFICES ASSUME ~allowance'.leftover PROVE files' = {profile'.photo, x.old}
    BY <1>1, <1>5 DEF DiskKnown
  <2>1. files = {profile.photo, x.new} /\ profile.photo = x.old
    BY <1>2, <1>3 DEF ProfileSafe, DiskKnown
  <2> QED
    BY <1>2, <2>1
<1> QED
  BY <1>6, <1>7, <1>8, <1>9, <1>10, <1>11 DEF ProfileSafe

LEMMA PhotoRemovedStep ==
    ASSUME ProfilePage!TypeOK, ProfileSafe, NEW x \in flights, ProfilePage!PhotoRemoved(x)
    PROVE  ProfileSafe'
<1>0. x \in ProfilePage!Flights
  BY DEF ProfilePage!TypeOK
<1>1. PICK y : /\ flights' = (flights \ {x}) \cup {y} /\ y.kind = x.kind /\ y.stage = "served"
               /\ y.crossed = x.crossed /\ y.row = x.row /\ y.behind = x.behind
  <2> DEFINE y == [x EXCEPT !.stage = "served", !.old = 0, !.new = 0]
  <2>1. flights' = (flights \ {x}) \cup {y} /\ y.kind = x.kind /\ y.stage = "served"
        /\ y.crossed = x.crossed /\ y.row = x.row /\ y.behind = x.behind
    BY <1>0 DEF ProfilePage!PhotoRemoved, ProfilePage!Moved, ProfilePage!Flights
  <2> QED
    BY <2>1
<1>2. UNCHANGED <<profile, mine, allowance>> /\ files' = files \ {x.old} /\ x.stage = "committed"
  BY DEF ProfilePage!PhotoRemoved
<1>3. x.kind = "avatar" /\ x.old # profile.photo
  BY <1>2 DEF ProfileSafe, Numbered
<1>4. \A z \in flights : z # x => z.kind # "avatar" /\ z.stage \notin {"read", "written", "committed"}
  BY <1>3 DEF ProfileSafe, Alone, Numbered
<1>5. Alone' /\ CrossedKnown'
  BY <1>1, <1>2, MoveStep DEF ProfileSafe
<1>6. AnswersCurrent'
  BY <1>1, <1>2 DEF ProfileSafe, AnswersCurrent
<1>7. PageCurrent'
  BY <1>1, <1>2, <1>3 DEF ProfileSafe, PageCurrent
<1>8. SavesCurrent'
  BY <1>1, <1>2 DEF ProfileSafe, SavesCurrent
<1>9. Numbered'
  BY <1>1, <1>2, <1>3, <1>4 DEF ProfileSafe, Numbered
<1>10. DiskKnown'
  BY <1>1, <1>2, <1>3, <1>4 DEF ProfileSafe, DiskKnown
<1> QED
  BY <1>5, <1>6, <1>7, <1>8, <1>9, <1>10 DEF ProfileSafe

\* A failure at any point.
LEMMA FailStep ==
    ASSUME ProfilePage!ProfileAssumption, ProfilePage!TypeOK, ProfileSafe, NEW x \in flights, ProfilePage!Fails(x)
    PROVE  ProfileSafe'
<1>0. x \in ProfilePage!Flights
  BY DEF ProfilePage!TypeOK
<1>1. PICK y : flights' = (flights \ {x}) \cup {y} /\ y.kind = x.kind /\ y.stage = "failed"
  <2> DEFINE r == ProfilePage!Request(x.kind)
             y == [r EXCEPT !.stage = "failed"]
  <2>1. r \in ProfilePage!Flights /\ r.kind = x.kind
    BY <1>0, RequestFacts DEF ProfilePage!Flights
  <2>2. flights' = (flights \ {x}) \cup {y}
    BY DEF ProfilePage!Fails, ProfilePage!Moved
  <2> HIDE DEF r
  <2>3. y.kind = x.kind /\ y.stage = "failed"
    BY <2>1 DEF ProfilePage!Flights
  <2> QED
    BY <2>2, <2>3
<1>2. UNCHANGED <<profile, files>>
  BY DEF ProfilePage!Fails
<1>3. /\ mine'.shown = mine.shown /\ mine'.me = mine.me /\ mine'.form = mine.form /\ mine'.typed = mine.typed
      /\ mine'.behind <=> mine.behind \/ (x.stage \in {"committed", "served"} /\ x.kind # "load")
  BY DEF ProfilePage!Fails, ProfilePage!TypeOK, ProfilePage!Screens
<1>4. /\ allowance'.writes = allowance.writes
      /\ allowance'.leftover <=> allowance.leftover \/ x.stage \in {"written", "committed"}
  BY DEF ProfilePage!Fails, ProfilePage!TypeOK
<1>5. Alone' /\ CrossedKnown'
  BY <1>1, MoveStep DEF ProfileSafe
<1>6. AnswersCurrent'
  BY <1>1, <1>2 DEF ProfileSafe, AnswersCurrent
<1>7. PageCurrent'
  BY <1>1, <1>2, <1>3 DEF ProfileSafe, PageCurrent
<1>8. SavesCurrent'
  BY <1>1, <1>2 DEF ProfileSafe, SavesCurrent
<1>9. Numbered'
  BY <1>1, <1>2, <1>4 DEF ProfileSafe, Numbered
<1>10. DiskKnown'
  BY <1>1, <1>2, <1>4 DEF ProfileSafe, DiskKnown
<1> QED
  BY <1>5, <1>6, <1>7, <1>8, <1>9, <1>10 DEF ProfileSafe

\* An answer replaces the page.
LEMMA AnsweredStep ==
    ASSUME ProfilePage!TypeOK, ProfileSafe, NEW x \in flights, ProfilePage!Answered(x)
    PROVE  ProfileSafe'
<1>1. /\ flights' = flights \ {x} /\ UNCHANGED <<profile, files, allowance>> /\ x.stage = "served"
      /\ mine'.me = x.row /\ mine'.form = x.row.fields
      /\ mine'.behind <=> x.crossed \/ x.behind
  BY DEF ProfilePage!Answered, ProfilePage!toFormState
<1>2. Alone' /\ CrossedKnown' /\ AnswersCurrent' /\ SavesCurrent'
  BY <1>1 DEF ProfileSafe, Alone, CrossedKnown, AnswersCurrent, SavesCurrent
<1>3. PageCurrent'
  BY <1>1 DEF ProfileSafe, PageCurrent, AnswersCurrent
<1>4. Numbered'
  BY <1>1 DEF ProfileSafe, Numbered
<1>5. DiskKnown'
  BY <1>1 DEF ProfileSafe, DiskKnown
<1> QED
  BY <1>2, <1>3, <1>4, <1>5 DEF ProfileSafe

\* Requests are forgotten, and the page with them unless they had failed.
LEMMA ForgetStep ==
    ASSUME ProfilePage!TypeOK, ProfileSafe, UNCHANGED <<profile, files>>,
           flights' \subseteq flights, \A x \in flights \ flights' : x.stage = "failed" \/ x.kind = "load",
           mine'.shown # "ready" \/ (mine' = mine /\ \A x \in flights \ flights' : x.stage = "failed"),
           allowance'.leftover = allowance.leftover,
           allowance.writes \in Nat, allowance'.writes \in Nat, allowance.writes <= allowance'.writes
    PROVE  ProfileSafe'
<1>1. Alone' /\ CrossedKnown' /\ AnswersCurrent' /\ SavesCurrent'
  BY DEF ProfileSafe, Alone, CrossedKnown, AnswersCurrent, SavesCurrent
<1>2. PageCurrent'
  BY DEF ProfileSafe, PageCurrent
<1>3. Numbered'
  <2>1. 0..allowance.writes \subseteq 0..allowance'.writes
    OBVIOUS
  <2> QED
    BY <2>1 DEF ProfileSafe, Numbered
<1>4. DiskKnown'
  <2>1. \A x \in flights \ flights' : x.stage \notin {"written", "committed"}
    BY DEF ProfileSafe, Numbered
  <2> QED
    BY <2>1 DEF ProfileSafe, DiskKnown
<1> QED
  BY <1>1, <1>2, <1>3, <1>4 DEF ProfileSafe

\* The member types; or the page starts to fetch again.
LEMMA TypeStep ==
    ASSUME ProfilePage!TypeOK, ProfileSafe,
           ProfilePage!TryAgain \/ \E f \in Fields : ProfilePage!Type(f)
    PROVE  ProfileSafe'
<1>1. UNCHANGED <<profile, files, flights>> /\ UNCHANGED <<allowance.writes, allowance.leftover>>
  BY DEF ProfilePage!TryAgain, ProfilePage!Type, ProfilePage!TypeOK
<1>2. PageCurrent'
  <2>1. CASE ProfilePage!TryAgain
    BY <2>1 DEF ProfilePage!TryAgain, PageCurrent, ProfilePage!TypeOK, ProfilePage!Screens
  <2>2. ASSUME NEW f \in Fields, ProfilePage!Type(f) PROVE PageCurrent'
    <3>1. PICK v : mine' = [mine EXCEPT !.form[f] = v, !.typed = @ \cup {f}]
      BY <2>2 DEF ProfilePage!Type
    <3>2. /\ mine'.shown = mine.shown /\ mine'.me = mine.me /\ mine'.behind = mine.behind
          /\ mine'.typed = mine.typed \cup {f}
          /\ \A g \in Fields : g # f => mine'.form[g] = mine.form[g]
      BY <3>1 DEF ProfilePage!TypeOK, ProfilePage!Screens, ProfilePage!Forms
    <3> QED
      BY <1>1, <3>2 DEF ProfileSafe, PageCurrent
  <2> QED
    BY <2>1, <2>2
<1>3. Alone' /\ CrossedKnown' /\ AnswersCurrent' /\ SavesCurrent'
  BY <1>1 DEF ProfileSafe, Alone, CrossedKnown, AnswersCurrent, SavesCurrent
<1>4. Numbered' /\ DiskKnown'
  BY <1>1 DEF ProfileSafe, Numbered, DiskKnown
<1> QED
  BY <1>2, <1>3, <1>4 DEF ProfileSafe

\* The row is written behind the page.
LEMMA OthersStep ==
    ASSUME ProfilePage!ProfileAssumption, ProfilePage!TypeOK, ProfileSafe,
           ProfilePage!OthersWrite \/ ProfilePage!OthersUpload
    PROVE  ProfileSafe'
<1>1. flights' = {Overtaken(x) : x \in flights}
  BY DEF ProfilePage!OthersWrite, ProfilePage!OthersUpload, Overtaken
<1>2. /\ \A y \in flights' : \E x \in flights : y = Overtaken(x) /\ Same(y, x) /\ y.behind /\ y.crossed = x.crossed
      /\ \A x \in flights : Overtaken(x) \in flights' /\ Same(Overtaken(x), x)
  BY <1>1, OvertakenFacts DEF ProfilePage!TypeOK
<1>3. mine'.behind /\ mine'.me = mine.me /\ mine'.form = mine.form /\ mine'.typed = mine.typed
      /\ mine'.shown = mine.shown
  BY DEF ProfilePage!OthersWrite, ProfilePage!OthersUpload, ProfilePage!TypeOK, ProfilePage!Screens
<1>4. /\ allowance'.leftover = allowance.leftover /\ allowance'.writes = allowance.writes + 1
      /\ allowance.writes \in Nat
  <2>1. CASE ProfilePage!OthersWrite
    BY <2>1 DEF ProfilePage!OthersWrite, ProfilePage!TypeOK, ProfilePage!ProfileAssumption
  <2>2. CASE ProfilePage!OthersUpload
    BY <2>2 DEF ProfilePage!OthersUpload, ProfilePage!TypeOK, ProfilePage!ProfileAssumption
  <2> QED
    BY <2>1, <2>2
<1>5. Alone'
  BY <1>2 DEF ProfileSafe, Alone, Same
<1>6. CrossedKnown'
  BY <1>1, <1>2 DEF ProfileSafe, CrossedKnown, Same
<1>7. AnswersCurrent' /\ SavesCurrent'
  BY <1>2 DEF AnswersCurrent, SavesCurrent
<1>8. PageCurrent'
  BY <1>3 DEF ProfileSafe, PageCurrent
<1>9. 0..allowance.writes \subseteq 0..allowance'.writes
  BY <1>4
<1>10. Numbered' /\ DiskKnown'
  <2>1. CASE ProfilePage!OthersWrite
    <3>1. files' = files /\ profile'.photo = profile.photo
      BY <2>1 DEF ProfilePage!OthersWrite, ProfilePage!TypeOK, ProfilePage!ProfileRows
    <3>2. Numbered'
      BY <1>2, <1>9, <3>1 DEF ProfileSafe, Numbered, Same
    <3>3. DiskKnown'
      BY <1>2, <1>4, <3>1 DEF ProfileSafe, DiskKnown, Same
    <3> QED
      BY <3>2, <3>3
  <2>2. CASE ProfilePage!OthersUpload
    <3> DEFINE new == allowance.writes + 1
    <3>1. files' = (files \ {profile.photo}) \cup {new} /\ profile'.photo = new
      BY <2>2 DEF ProfilePage!OthersUpload, ProfilePage!TypeOK, ProfilePage!ProfileRows
    <3>2. new \notin 0..allowance.writes /\ new \in 0..allowance'.writes
      BY <1>4
    <3> HIDE DEF new
    <3>3. Numbered'
      <4>1. files' \subseteq 0..allowance'.writes /\ profile'.photo \in files'
        BY <1>9, <3>1, <3>2 DEF ProfileSafe, Numbered
      <4>2. \A x \in flights :
              /\ x.stage \in {"read", "written", "committed"} => x.kind = "avatar" /\ x.old \in 0..allowance'.writes
              /\ x.kind = "avatar" /\ x.stage \in {"sent", "read", "written"}
                 => x.new # profile'.photo /\ x.new \in 0..allowance'.writes
              /\ x.kind = "avatar" /\ x.stage \in {"read", "written"} => x.old # x.new
              /\ x.stage = "written" => x.new \in files'
              /\ x.stage = "committed" => x.old # profile'.photo
        BY <1>9, <3>1, <3>2 DEF ProfileSafe, Numbered
      <4> QED
        BY <1>2, <4>1, <4>2 DEF Numbered, Same
    <3>4. \A x \in flights : /\ x.stage = "written" => x.new # profile.photo
                             /\ x.stage = "committed" => x.old # profile.photo
      BY DEF ProfileSafe, Numbered
    <3>5. DiskKnown'
      <4>1. ASSUME ~allowance.leftover
            PROVE  /\ (\A x \in flights : x.stage \notin {"written", "committed"}) => files' = {new}
                   /\ \A x \in flights : /\ x.stage = "written" => files' = {new, x.new}
                                         /\ x.stage = "committed" => files' = {new, x.old}
        BY <3>1, <3>4, <4>1 DEF ProfileSafe, DiskKnown
      <4>2. (\A y \in flights' : y.stage \notin {"written", "committed"})
            => \A x \in flights : x.stage \notin {"written", "committed"}
        BY <1>2 DEF Same
      <4>3. \A y \in flights' : \E x \in flights : y.stage = x.stage /\ y.new = x.new /\ y.old = x.old
        BY <1>2 DEF Same
      <4> QED
        BY <1>4, <3>1, <4>1, <4>2, <4>3 DEF DiskKnown
    <3> QED
      BY <3>3, <3>5
  <2> QED
    BY <2>1, <2>2
<1> QED
  BY <1>5, <1>6, <1>7, <1>8, <1>10 DEF ProfileSafe

\* The request of a save: the form as it is.
LEMMA SaveRequest ==
    ASSUME ProfilePage!ProfileAssumption, ProfilePage!TypeOK, ProfilePage!Save
    PROVE  \E x \in ProfilePage!Flights :
             /\ flights' = ProfilePage!Joined(x) /\ x.kind = "save" /\ x.stage = "sent"
             /\ x.row.fields = mine.form /\ (x.stale <=> mine.behind) /\ x.typed = mine.typed
<1>1. ProfilePage!FirstRow \in ProfilePage!ProfileRows /\ mine.form \in [Fields -> 1..MaxValues]
      /\ mine.behind \in BOOLEAN /\ mine.typed \in SUBSET Fields /\ 0 \in ProfilePage!Photos
  BY DEF ProfilePage!FirstRow, ProfilePage!ProfileRows, ProfilePage!Photos, ProfilePage!ProfileAssumption,
     ProfilePage!Save, ProfilePage!validateProfileForm, ProfilePage!TypeOK, ProfilePage!Screens, ProfilePage!Forms,
     ProfilePage!Texts
<1>2. PICK filled, b, t : filled = mine.form /\ b = mine.behind /\ t = mine.typed
  OBVIOUS
<1>3. PICK row : row = [ProfilePage!FirstRow EXCEPT !.fields = filled]
  OBVIOUS
<1>4. row \in ProfilePage!ProfileRows /\ row.fields = filled
  BY <1>1, <1>2, <1>3 DEF ProfilePage!ProfileRows
<1>5. PICK x : x = [ProfilePage!Request("save") EXCEPT !.row.fields = filled, !.stale = b, !.typed = t]
  OBVIOUS
<1>6. x = [kind |-> "save", stage |-> "sent", crossed |-> FALSE, behind |-> FALSE, row |-> row,
           old |-> 0, new |-> 0, stale |-> b, typed |-> t]
  BY <1>3, <1>5 DEF ProfilePage!Request
<1>7. flights' = ProfilePage!Joined(x)
  BY <1>2, <1>5 DEF ProfilePage!Save
<1>8. x \in ProfilePage!Flights
  BY <1>1, <1>2, <1>4, <1>6 DEF ProfilePage!Flights, ProfilePage!Kinds
<1>9. x.kind = "save" /\ x.stage = "sent" /\ x.row = row /\ x.stale = b /\ x.typed = t
  BY <1>6
<1> QED
  BY <1>2, <1>4, <1>7, <1>8, <1>9

\* The request of an upload: a photo that was never on the disk.
LEMMA UploadRequest ==
    ASSUME ProfilePage!ProfileAssumption, ProfilePage!TypeOK, ProfilePage!Upload
    PROVE  \E x \in ProfilePage!Flights :
             /\ flights' = ProfilePage!Joined(x) /\ x.kind = "avatar" /\ x.stage = "sent"
             /\ x.new = allowance.writes + 1
<1> DEFINE r == ProfilePage!Request("avatar")
           x == [r EXCEPT !.new = allowance.writes + 1]
<1>1. r \in ProfilePage!Flights /\ r.kind = "avatar" /\ r.stage = "sent"
  BY RequestFacts DEF ProfilePage!Kinds
<1>2. allowance.writes + 1 \in ProfilePage!Photos
  BY DEF ProfilePage!Upload, ProfilePage!MaySend, ProfilePage!TypeOK, ProfilePage!Photos, ProfilePage!ProfileAssumption
<1>3. flights' = ProfilePage!Joined(x)
  BY DEF ProfilePage!Upload
<1> HIDE DEF r
<1>4. ASSUME NEW n \in ProfilePage!Photos
      PROVE  LET y == [r EXCEPT !.new = n]
             IN  y \in ProfilePage!Flights /\ y.kind = "avatar" /\ y.stage = "sent" /\ y.new = n
  BY <1>1, <1>4 DEF ProfilePage!Flights
<1> QED
  BY <1>2, <1>3, <1>4

LEMMA SendStep ==
    ASSUME ProfilePage!ProfileAssumption, ProfilePage!TypeOK, ProfileSafe,
           ProfilePage!Load \/ ProfilePage!Save \/ ProfilePage!Upload
    PROVE  ProfileSafe'
<1>1. UNCHANGED <<profile, files, mine>> /\ allowance'.leftover = allowance.leftover
      /\ allowance.writes \in Nat /\ allowance'.writes \in Nat /\ allowance.writes <= allowance'.writes
  BY DEF ProfilePage!Load, ProfilePage!Save, ProfilePage!Upload, ProfilePage!TypeOK, ProfilePage!ProfileAssumption
<1>2. CASE ProfilePage!Load
  <2> DEFINE x == ProfilePage!Request("load")
  <2>1. x \in ProfilePage!Flights /\ x.kind = "load" /\ x.stage = "sent"
    BY RequestFacts DEF ProfilePage!Kinds
  <2>2. flights' = ProfilePage!Joined(x) /\ \A y \in flights : y.kind # "load"
    BY <1>2 DEF ProfilePage!Load, ProfilePage!Flying
  <2> HIDE DEF x
  <2> QED
    BY <1>1, <2>1, <2>2, JoinStep
<1>3. CASE ProfilePage!Save
  <2>1. PICK x \in ProfilePage!Flights :
          /\ flights' = ProfilePage!Joined(x) /\ x.kind = "save" /\ x.stage = "sent"
          /\ x.row.fields = mine.form /\ (x.stale <=> mine.behind) /\ x.typed = mine.typed
    BY <1>3, SaveRequest
  <2>2. mine.shown = "ready" /\ \A y \in flights : y.kind # "save"
    BY <1>3 DEF ProfilePage!Save, ProfilePage!busy, ProfilePage!Flying
  <2>3. flights = {} /\ ~x.stale => \A f \in Fields \ x.typed : x.row.fields[f] = profile.fields[f]
    BY <2>1, <2>2 DEF ProfileSafe, PageCurrent
  <2> QED
    BY <1>1, <2>1, <2>2, <2>3, JoinStep
<1>4. CASE ProfilePage!Upload
  <2>1. PICK x \in ProfilePage!Flights :
          /\ flights' = ProfilePage!Joined(x) /\ x.kind = "avatar" /\ x.stage = "sent"
          /\ x.new = allowance.writes + 1
    BY <1>4, UploadRequest
  <2>2. allowance'.writes = allowance.writes + 1 /\ \A y \in flights : y.kind # "avatar"
    BY <1>4 DEF ProfilePage!Upload, ProfilePage!avatarUploading, ProfilePage!Flying, ProfilePage!TypeOK
  <2>3. x.new \in 0..allowance'.writes /\ x.new \notin 0..allowance.writes
    BY <1>1, <2>1, <2>2
  <2> QED
    BY <1>1, <2>1, <2>2, <2>3, JoinStep
<1> QED
  BY <1>2, <1>3, <1>4

LEMMA ProfileSafeStep ==
    ASSUME ProfilePage!ProfileAssumption, ProfilePage!TypeOK, ProfileSafe, ProfilePage!Next,
           profile' \in ProfilePage!ProfileRows
    PROVE  ProfileSafe'
<1>1. CASE ProfilePage!SessionLost
  <2>1. /\ mine'.shown = "fetching" /\ allowance'.leftover = allowance.leftover
        /\ allowance.writes \in Nat /\ allowance'.writes \in Nat /\ allowance.writes <= allowance'.writes
    BY <1>1 DEF ProfilePage!SessionLost, ProfilePage!NoForm, ProfilePage!TypeOK, ProfilePage!ProfileAssumption
  <2>2. UNCHANGED <<profile, files>> /\ flights' \subseteq flights
        /\ \A x \in flights \ flights' : x.kind = "load"
    BY <1>1 DEF ProfilePage!SessionLost
  <2> QED
    BY <2>1, <2>2, ForgetStep
<1>2. ASSUME NEW x \in flights, ProfilePage!Failed(x) PROVE ProfileSafe'
  <2>1. mine'.shown # "ready" \/ mine' = mine
    BY <1>2 DEF ProfilePage!Failed, ProfilePage!NoForm
  <2>2. allowance.writes \in Nat
    BY DEF ProfilePage!TypeOK
  <2>3. UNCHANGED <<profile, files, allowance>> /\ flights' \subseteq flights
        /\ \A y \in flights \ flights' : y.stage = "failed"
    BY <1>2 DEF ProfilePage!Failed
  <2> QED
    BY <2>1, <2>2, <2>3, ForgetStep
<1>3. CASE ProfilePage!Load \/ ProfilePage!Save \/ ProfilePage!Upload
  BY <1>3, SendStep
<1>4. CASE ProfilePage!TryAgain \/ \E f \in Fields : ProfilePage!Type(f)
  BY <1>4, TypeStep
<1>5. CASE ProfilePage!OthersWrite \/ ProfilePage!OthersUpload
  BY <1>5, OthersStep
<1>6. ASSUME NEW x \in flights,
             \/ ProfilePage!LoadServed(x) \/ ProfilePage!SaveServed(x)
             \/ ProfilePage!PhotoRead(x) \/ ProfilePage!PhotoWritten(x) \/ ProfilePage!PhotoCommitted(x)
             \/ ProfilePage!PhotoRemoved(x) \/ ProfilePage!Fails(x) \/ ProfilePage!Answered(x)
      PROVE  ProfileSafe'
  BY <1>6, LoadStep, SaveStep, PhotoReadStep, PhotoWrittenStep, PhotoCommittedStep, PhotoRemovedStep, FailStep,
     AnsweredStep
<1> QED
  BY <1>1, <1>2, <1>3, <1>4, <1>5, <1>6 DEF ProfilePage!Next

LEMMA ProfileTypeStep ==
    ASSUME ProfilePage!ProfileAssumption, ProfilePage!TypeOK, ProfilePage!Next
    PROVE  ProfilePage!TypeOK'
<1> DEFINE Allowances == [values : 1..MaxValues, writes : 0..MaxWrites, leftover : BOOLEAN]
<1>a. /\ profile \in ProfilePage!ProfileRows /\ files \subseteq ProfilePage!Photos /\ mine \in ProfilePage!Screens
      /\ flights \subseteq ProfilePage!Flights /\ allowance \in Allowances
      /\ MaxValues \in Nat \ {0} /\ MaxWrites \in Nat
  BY DEF ProfilePage!TypeOK, ProfilePage!ProfileAssumption
<1>b. ASSUME profile' \in ProfilePage!ProfileRows, files' \subseteq ProfilePage!Photos, mine' \in ProfilePage!Screens,
             flights' \subseteq ProfilePage!Flights, allowance' \in Allowances
      PROVE  ProfilePage!TypeOK'
  BY <1>b DEF ProfilePage!TypeOK, ProfilePage!ProfileRows, ProfilePage!Photos, ProfilePage!Screens,
     ProfilePage!Flights, ProfilePage!Kinds, ProfilePage!Forms, ProfilePage!Texts
<1>c. ASSUME NEW x \in ProfilePage!Flights, flights' = ProfilePage!Joined(x) PROVE flights' \subseteq ProfilePage!Flights
  <2>1. \A y \in flights : Crossed(y) \in ProfilePage!Flights
    BY <1>a, CrossedFacts
  <2>2. PICK z \in ProfilePage!Flights : flights' = {Crossed(y) : y \in flights} \cup {z}
    BY <1>c, JoinFacts
  <2> QED
    BY <2>1, <2>2
<1>d. ProfilePage!FirstRow \in ProfilePage!ProfileRows /\ 0 \in ProfilePage!Photos
  BY <1>a DEF ProfilePage!FirstRow, ProfilePage!ProfileRows, ProfilePage!Photos
<1>e. /\ ProfilePage!NoForm \in ProfilePage!Screens
      /\ [ProfilePage!NoForm EXCEPT !.shown = "error"] \in ProfilePage!Screens
  <2>1. ProfilePage!NoForm \in ProfilePage!Screens
    BY <1>a, <1>d DEF ProfilePage!NoForm, ProfilePage!Screens, ProfilePage!Forms, ProfilePage!Texts
  <2>2. \A m \in ProfilePage!Screens : [m EXCEPT !.shown = "error"] \in ProfilePage!Screens
    BY DEF ProfilePage!Screens
  <2> QED
    BY <2>1, <2>2
<1>1. CASE ProfilePage!Load
  <2>1. ProfilePage!Request("load") \in ProfilePage!Flights
    BY RequestFacts DEF ProfilePage!Kinds
  <2> QED
    BY <1>1, <1>a, <1>b, <1>c, <2>1 DEF ProfilePage!Load
<1>2. CASE ProfilePage!SessionLost
  <2>1. allowance' \in Allowances
    BY <1>2, <1>a DEF ProfilePage!SessionLost, ProfilePage!MaySend
  <2> QED
    BY <1>2, <1>a, <1>b, <1>e, <2>1 DEF ProfilePage!SessionLost
<1>3. CASE ProfilePage!TryAgain
  <2>1. mine' \in ProfilePage!Screens
    BY <1>3, <1>a DEF ProfilePage!TryAgain, ProfilePage!Screens
  <2> QED
    BY <1>3, <1>a, <1>b, <2>1 DEF ProfilePage!TryAgain
<1>4. CASE ProfilePage!Save
  <2>1. flights' \subseteq ProfilePage!Flights
    BY <1>4, <1>c, SaveRequest
  <2>2. allowance' \in Allowances
    BY <1>4, <1>a DEF ProfilePage!Save, ProfilePage!MaySend
  <2> QED
    BY <1>4, <1>a, <1>b, <2>1, <2>2 DEF ProfilePage!Save
<1>5. CASE ProfilePage!Upload
  <2>1. flights' \subseteq ProfilePage!Flights
    BY <1>5, <1>c, UploadRequest
  <2>2. allowance' \in Allowances
    BY <1>5, <1>a DEF ProfilePage!Upload, ProfilePage!MaySend
  <2> QED
    BY <1>5, <1>a, <1>b, <2>1, <2>2 DEF ProfilePage!Upload
<1>6. ASSUME NEW f \in Fields, ProfilePage!Type(f) PROVE ProfilePage!TypeOK'
  <2>1. allowance' \in Allowances
    BY <1>6, <1>a DEF ProfilePage!Type
  <2>2. PICK v \in ProfilePage!Texts : mine' = [mine EXCEPT !.form[f] = v, !.typed = @ \cup {f}]
    <3>1. mine.me.fields[f] \in ProfilePage!Texts /\ 0 \in ProfilePage!Texts
      BY <1>a DEF ProfilePage!Screens, ProfilePage!ProfileRows, ProfilePage!Texts
    <3>2. allowance.values < MaxValues => allowance.values + 1 \in ProfilePage!Texts
      BY <1>a DEF ProfilePage!Texts
    <3>3. CASE allowance.values < MaxValues /\ mine' = [mine EXCEPT !.form[f] = allowance.values + 1, !.typed = @ \cup {f}]
      BY <3>2, <3>3
    <3>4. CASE \E v \in {0, mine.me.fields[f]} : mine' = [mine EXCEPT !.form[f] = v, !.typed = @ \cup {f}]
      BY <3>1, <3>4
    <3> QED
      BY <1>6, <3>3, <3>4 DEF ProfilePage!Type
  <2>3. mine' \in ProfilePage!Screens
    <3>1. [mine.form EXCEPT ![f] = v] \in ProfilePage!Forms
      BY <1>a DEF ProfilePage!Screens, ProfilePage!Forms
    <3>2. mine' = [shown |-> mine.shown, me |-> mine.me, form |-> [mine.form EXCEPT ![f] = v],
                   typed |-> mine.typed \cup {f}, behind |-> mine.behind]
      BY <1>a, <2>2 DEF ProfilePage!Screens
    <3> QED
      BY <1>a, <3>1, <3>2 DEF ProfilePage!Screens
  <2> QED
    BY <1>6, <1>a, <1>b, <2>1, <2>3 DEF ProfilePage!Type
<1>7. ASSUME NEW x \in flights, ProfilePage!LoadServed(x) PROVE ProfilePage!TypeOK'
  <2> DEFINE y == [x EXCEPT !.stage = "served", !.row = profile', !.behind = FALSE, !.stale = FALSE, !.typed = {}]
  <2>1. flights' = (flights \ {x}) \cup {y}
    BY <1>7 DEF ProfilePage!LoadServed, ProfilePage!Moved, ProfilePage!Answering
  <2>2. x \in ProfilePage!Flights /\ profile' \in ProfilePage!ProfileRows
    BY <1>7, <1>a DEF ProfilePage!LoadServed
  <2>a. y \in ProfilePage!Flights
    BY <2>2, AnswerFacts
  <2> HIDE DEF y
  <2>3. flights' \subseteq ProfilePage!Flights
    BY <1>a, <2>1, <2>a
  <2> QED
    BY <1>7, <1>a, <1>b, <2>3 DEF ProfilePage!LoadServed
<1>8. ASSUME NEW x \in flights, ProfilePage!SaveServed(x) PROVE ProfilePage!TypeOK'
  <2> DEFINE y == [x EXCEPT !.stage = "served", !.row = profile', !.behind = FALSE, !.stale = FALSE, !.typed = {}]
  <2>1. flights' = (flights \ {x}) \cup {y}
    BY <1>8 DEF ProfilePage!SaveServed, ProfilePage!Moved, ProfilePage!Answering
  <2>2. x \in ProfilePage!Flights /\ profile' \in ProfilePage!ProfileRows
    BY <1>8, <1>a DEF ProfilePage!SaveServed, ProfilePage!ProfileRows, ProfilePage!Flights
  <2>a. y \in ProfilePage!Flights
    BY <2>2, AnswerFacts
  <2> HIDE DEF y
  <2>3. flights' \subseteq ProfilePage!Flights
    BY <1>a, <2>1, <2>a
  <2> QED
    BY <1>8, <1>a, <1>b, <2>2, <2>3 DEF ProfilePage!SaveServed
<1>9. ASSUME NEW x \in flights, ProfilePage!PhotoRead(x) PROVE ProfilePage!TypeOK'
  <2>1. profile.photo \in ProfilePage!Photos
    BY <1>a DEF ProfilePage!ProfileRows
  <2>2. flights' \subseteq ProfilePage!Flights
    BY <1>9, <1>a, <2>1 DEF ProfilePage!PhotoRead, ProfilePage!Moved, ProfilePage!Flights
  <2> QED
    BY <1>9, <1>a, <1>b, <2>2 DEF ProfilePage!PhotoRead
<1>10. ASSUME NEW x \in flights, ProfilePage!PhotoWritten(x) PROVE ProfilePage!TypeOK'
  <2>1. flights' \subseteq ProfilePage!Flights
    BY <1>10, <1>a DEF ProfilePage!PhotoWritten, ProfilePage!Moved, ProfilePage!Flights
  <2>2. files' \subseteq ProfilePage!Photos
    BY <1>10, <1>a DEF ProfilePage!PhotoWritten, ProfilePage!Flights
  <2> QED
    BY <1>10, <1>a, <1>b, <2>1, <2>2 DEF ProfilePage!PhotoWritten
<1>11. ASSUME NEW x \in flights, ProfilePage!PhotoCommitted(x) PROVE ProfilePage!TypeOK'
  <2>1. PICK w : /\ w = [x EXCEPT !.stage = "served", !.row = profile', !.behind = FALSE, !.stale = FALSE, !.typed = {}]
                 /\ flights' = (flights \ {x}) \cup {[w EXCEPT !.stage = "committed"]}
    BY <1>11 DEF ProfilePage!PhotoCommitted, ProfilePage!Moved, ProfilePage!Answering
  <2>2. x \in ProfilePage!Flights /\ profile' \in ProfilePage!ProfileRows
    BY <1>11, <1>a DEF ProfilePage!PhotoCommitted, ProfilePage!ProfileRows, ProfilePage!Flights
  <2>3. w \in ProfilePage!Flights
    BY <2>1, <2>2, AnswerFacts
  <2>4. [w EXCEPT !.stage = "committed"] \in ProfilePage!Flights
    BY <2>3 DEF ProfilePage!Flights
  <2>5. flights' \subseteq ProfilePage!Flights
    BY <1>a, <2>1, <2>4
  <2>6. allowance' \in Allowances
    <3>1. PICK b \in BOOLEAN : allowance' = [allowance EXCEPT !.leftover = b]
      BY <1>11, <1>a DEF ProfilePage!PhotoCommitted
    <3> QED
      BY <1>a, <3>1
  <2> QED
    BY <1>11, <1>a, <1>b, <2>2, <2>5, <2>6 DEF ProfilePage!PhotoCommitted
<1>12. ASSUME NEW x \in flights, ProfilePage!PhotoRemoved(x) PROVE ProfilePage!TypeOK'
  <2>1. flights' \subseteq ProfilePage!Flights
    BY <1>12, <1>a, <1>d DEF ProfilePage!PhotoRemoved, ProfilePage!Moved, ProfilePage!Flights
  <2> QED
    BY <1>12, <1>a, <1>b, <2>1 DEF ProfilePage!PhotoRemoved
<1>13. ASSUME NEW x \in flights, ProfilePage!Fails(x) PROVE ProfilePage!TypeOK'
  <2>1. PICK r : r = ProfilePage!Request(x.kind) /\ flights' = (flights \ {x}) \cup {[r EXCEPT !.stage = "failed"]}
    BY <1>13 DEF ProfilePage!Fails, ProfilePage!Moved
  <2>2. x.kind \in ProfilePage!Kinds
    BY <1>a DEF ProfilePage!Flights
  <2>3. r \in ProfilePage!Flights
    BY <2>1, <2>2, RequestFacts
  <2>4. [r EXCEPT !.stage = "failed"] \in ProfilePage!Flights
    BY <2>3 DEF ProfilePage!Flights
  <2>5. flights' \subseteq ProfilePage!Flights
    BY <1>a, <2>1, <2>4
  <2>6. PICK b \in BOOLEAN : allowance' = [allowance EXCEPT !.leftover = b]
    BY <1>13, <1>a DEF ProfilePage!Fails
  <2>7. PICK c \in BOOLEAN : mine' = [mine EXCEPT !.behind = c]
    BY <1>13, <1>a DEF ProfilePage!Fails, ProfilePage!Screens
  <2>8. allowance' \in Allowances
    BY <1>a, <2>6
  <2>9. mine' \in ProfilePage!Screens
    BY <1>a, <2>7 DEF ProfilePage!Screens
  <2> QED
    BY <1>13, <1>a, <1>b, <2>5, <2>8, <2>9 DEF ProfilePage!Fails
<1>14. ASSUME NEW x \in flights, ProfilePage!Answered(x) PROVE ProfilePage!TypeOK'
  <2>1. x.row \in ProfilePage!ProfileRows /\ x.row.fields \in ProfilePage!Forms /\ x.crossed \in BOOLEAN
        /\ x.behind \in BOOLEAN
    BY <1>a DEF ProfilePage!Flights, ProfilePage!ProfileRows, ProfilePage!Forms, ProfilePage!Texts
  <2>2. mine' \in ProfilePage!Screens
    <3> DEFINE b == x.crossed \/ x.behind
    <3>1. b \in BOOLEAN
      OBVIOUS
    <3>2. mine' = [shown |-> "ready", me |-> x.row, form |-> x.row.fields, typed |-> {}, behind |-> b]
      BY <1>14 DEF ProfilePage!Answered, ProfilePage!toFormState
    <3> HIDE DEF b
    <3> QED
      BY <2>1, <3>1, <3>2 DEF ProfilePage!Screens
  <2> QED
    BY <1>14, <1>a, <1>b, <2>2 DEF ProfilePage!Answered
<1>15. ASSUME NEW x \in flights, ProfilePage!Failed(x) PROVE ProfilePage!TypeOK'
  BY <1>15, <1>a, <1>b, <1>e DEF ProfilePage!Failed
<1>16. CASE ProfilePage!OthersWrite
  <2>1. PICK f \in Fields : profile' = [profile EXCEPT !.fields[f] = allowance.values + 1]
    BY <1>16 DEF ProfilePage!OthersWrite
  <2>2. profile' \in ProfilePage!ProfileRows
    <3>1. allowance.values + 1 \in 1..MaxValues
      BY <1>16, <1>a DEF ProfilePage!OthersWrite
    <3> DEFINE v == allowance.values + 1
    <3> HIDE DEF v
    <3>2. [profile.fields EXCEPT ![f] = v] \in [Fields -> 1..MaxValues]
      BY <1>a, <3>1 DEF ProfilePage!ProfileRows, v
    <3>3. profile' = [fields |-> [profile.fields EXCEPT ![f] = v], photo |-> profile.photo]
      BY <1>a, <2>1 DEF ProfilePage!ProfileRows, v
    <3> QED
      BY <1>a, <3>2, <3>3 DEF ProfilePage!ProfileRows
  <2>3. mine' \in ProfilePage!Screens
    BY <1>16, <1>a DEF ProfilePage!OthersWrite, ProfilePage!Screens
  <2>4. flights' \subseteq ProfilePage!Flights
    BY <1>16, <1>a, OvertakenFacts DEF ProfilePage!OthersWrite, Overtaken
  <2>5. allowance' \in Allowances
    <3>1. allowance' = [values |-> allowance.values + 1, writes |-> allowance.writes + 1, leftover |-> allowance.leftover]
      BY <1>16, <1>a DEF ProfilePage!OthersWrite
    <3> QED
      BY <1>16, <1>a, <3>1 DEF ProfilePage!OthersWrite, ProfilePage!MaySend
  <2> QED
    BY <1>16, <1>a, <1>b, <2>2, <2>3, <2>4, <2>5 DEF ProfilePage!OthersWrite
<1>17. CASE ProfilePage!OthersUpload
  <2>1. allowance.writes + 1 \in ProfilePage!Photos
    BY <1>17, <1>a DEF ProfilePage!OthersUpload, ProfilePage!MaySend, ProfilePage!Photos
  <2>2. profile' \in ProfilePage!ProfileRows /\ files' \subseteq ProfilePage!Photos
    BY <1>17, <1>a, <2>1 DEF ProfilePage!OthersUpload, ProfilePage!ProfileRows
  <2>3. mine' \in ProfilePage!Screens
    BY <1>17, <1>a DEF ProfilePage!OthersUpload, ProfilePage!Screens
  <2>4. flights' \subseteq ProfilePage!Flights
    BY <1>17, <1>a, OvertakenFacts DEF ProfilePage!OthersUpload, Overtaken
  <2>5. allowance' \in Allowances
    BY <1>17, <1>a DEF ProfilePage!OthersUpload, ProfilePage!MaySend
  <2> QED
    BY <1>b, <2>2, <2>3, <2>4, <2>5
<1> QED
  BY <1>1, <1>2, <1>3, <1>4, <1>5, <1>6, <1>7, <1>8, <1>9, <1>10, <1>11, <1>12, <1>13, <1>14, <1>15, <1>16, <1>17
  DEF ProfilePage!Next

-----------------------------------------------------------------------------
(* The theorems *)

(* The profile page never leaves its invariant. *)
THEOREM ProfileInvariant == Spec => []ProfileInv
<1>0. ProfilePage!ProfileAssumption
  BY MemberAssumption
<1>1. ProfilePage!Init => ProfileInv
  BY <1>0, ProfileInit
<1>2. ProfileInv /\ [ProfilePage!Next]_ProfilePage!profileVars => ProfileInv'
  <2> SUFFICES ASSUME ProfileInv, [ProfilePage!Next]_ProfilePage!profileVars PROVE ProfileInv'
    OBVIOUS
  <2>1. CASE ProfilePage!Next
    <3>1. ProfilePage!TypeOK'
      BY <1>0, <2>1, ProfileTypeStep DEF ProfileInv
    <3>2. profile' \in ProfilePage!ProfileRows
      BY <3>1 DEF ProfilePage!TypeOK, ProfilePage!ProfileRows, ProfilePage!Photos
    <3> QED
      BY <1>0, <2>1, <3>1, <3>2, ProfileSafeStep DEF ProfileInv
  <2>2. CASE UNCHANGED ProfilePage!profileVars
    BY <2>2 DEF ProfileInv, ProfileSafe, ProfilePage!TypeOK, Alone, CrossedKnown, AnswersCurrent, PageCurrent,
       SavesCurrent, Numbered, DiskKnown, ProfilePage!profileVars, ProfilePage!ProfileRows, ProfilePage!Photos,
       ProfilePage!Screens, ProfilePage!Flights, ProfilePage!Kinds, ProfilePage!Forms, ProfilePage!Texts
  <2> QED
    BY <2>1, <2>2
<1> QED
  BY <1>1, <1>2, PartsBehave, PTL DEF ProfilePage!Spec

(* A page that says "saved" shows what is saved, unless somebody else wrote the row, an
   answer was lost, or two of its own requests crossed. *)
THEOREM SavedMeansSavedHolds == Spec => []SavedMeansSaved
<1>1. ProfileInv => SavedMeansSaved
  BY DEF ProfileInv, ProfileSafe, PageCurrent, SavedMeansSaved, ProfilePage!SavedMeansSaved
<1> QED
  BY <1>1, ProfileInvariant, PTL

(* The photo of the row is on the disk, however uploads overlap and fail; and nothing else
   stays there unless an upload failed between its writes or two overlapped. *)
THEOREM PhotoMatchesDiskHolds == Spec => []PhotoMatchesDisk
<1>1. ProfileInv => PhotoMatchesDisk
  BY DEF ProfileInv, ProfileSafe, Numbered, DiskKnown, PhotoMatchesDisk, ProfilePage!PhotoMatchesDisk,
     ProfilePage!avatarUploading, ProfilePage!Flying
<1> QED
  BY <1>1, ProfileInvariant, PTL

(* A save changes no field its member did not type in, under the same conditions. *)
THEOREM UntypedFieldsSurviveHolds == Spec => UntypedFieldsSurvive
<1> DEFINE Survives == \A x \in flights : \A f \in Fields :
                         ProfilePage!SaveServed(x) /\ profile'.fields[f] # profile.fields[f]
                         => f \in x.typed \/ x.stale \/ x.behind \/ x.crossed
<1>1. ProfileInv => Survives
  <2> SUFFICES ASSUME ProfileInv, NEW x \in flights, NEW f \in Fields, ProfilePage!SaveServed(x),
                      profile'.fields[f] # profile.fields[f], f \notin x.typed
               PROVE  x.stale \/ x.behind \/ x.crossed
    OBVIOUS
  <2>1. profile'.fields = x.row.fields /\ x.kind = "save" /\ x.stage = "sent"
    BY DEF ProfilePage!SaveServed, ProfileInv, ProfilePage!TypeOK, ProfilePage!ProfileRows
  <2> QED
    BY <2>1 DEF ProfileInv, ProfileSafe, SavesCurrent
<1>2. ProfileInv /\ [ProfilePage!Next]_ProfilePage!profileVars => [Survives]_ProfilePage!profileVars
  BY <1>1
<1> QED
  BY <1>2, ProfileInvariant, PartsBehave, PTL
  DEF UntypedFieldsSurvive, ProfilePage!UntypedFieldsSurvive, ProfilePage!Spec
=============================================================================
