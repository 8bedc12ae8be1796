---------------------------- MODULE HeroToggles ----------------------------
(***************************************************************************)
(* The banner toggles of the administrators' posts, or events              *)
(* (useHeroTargetControls).  A list and the page of one row each mount the *)
(* hook anew.  A lookup is cached for each list of targets that was asked  *)
(* for, so one target is in several.  A change is optimistic and rolled    *)
(* back if it fails; it blocks the toggles of its own hook only, and its   *)
(* callbacks use the targets its hook showed last.  The banner forms write *)
(* the same rows without touching the lookups.                             *)
(***************************************************************************)
EXTENDS Naturals, Sequences

CONSTANTS Targets,     \* posts, or events
          Pages,       \* what the pages of the list show, in order
          Edited,      \* those whose own page is opened
          MaxBanners,  \* bound: banners created
          MaxChanges,  \* bound: toggles, saves of the forms and writes by others
          MaxMoves     \* bound: pages turned or mounted

TogglesAssumption ==
  /\ Targets \cap {"none", "gone"} = {} /\ Pages \subseteq Seq(Targets) /\ Edited \subseteq Targets
  /\ MaxBanners \in Nat \ {0} /\ MaxChanges \in Nat /\ MaxMoves \in Nat

VARIABLES
  banners,  \* the rows at the server, by number
  lookups,  \* the cached lookup of each list of targets
  view,     \* the page that is mounted, and the targets it shows
  changes,  \* the mutations, by number, with the items to go back to; history: whether
            \* nobody else was writing the same target, or writing at all
  notes     \* changes and moves used; history: the lookups whose data may have come to be
            \* untrue

heroVars == <<banners, lookups, view, changes, notes>>

Ids      == 1..MaxBanners
NoBanner == [target |-> "none", enabled |-> FALSE, pinned |-> FALSE]
Gone     == [target |-> "gone", enabled |-> FALSE, pinned |-> FALSE]
Existing == {i \in Ids : banners[i].target \in Targets}
BannersOf(t) == {i \in Existing : banners[i].target = t}

\* A list shows no targets while it is being loaded; nothing is asked about none, and
\* what is put into their lookup is seen nowhere.
Forms   == {<<t>> : t \in Edited}
Keys    == (Pages \cup Forms) \ {<< >>}
On(key) == {key[i] : i \in DOMAIN key}
KeysOf(t) == {k \in Keys : t \in On(k)}

\* The items of a lookup: number 0 stands for a banner being created.
Item(i)    == [id |-> i, target |-> banners[i].target,
               enabled |-> banners[i].enabled, pinned |-> banners[i].pinned]
Found(key) == {Item(i) : i \in {j \in Existing : banners[j].target \in On(key)}}
Optimistic(t) == [id |-> 0, target |-> t, enabled |-> TRUE, pinned |-> FALSE]
Of(t, items)  == {x \in items : x.target = t}

Key    == view.ids
Lookup == lookups[Key]
Fetching    == Key \in Keys /\ Lookup.asked # {}
heroById(t) == Of(t, Lookup.items)

NoChange == [status |-> "idle"]
UnderWay == {n \in 1..MaxChanges : changes[n] # NoChange}
Here     == {n \in UnderWay : changes[n].here}
Writing  == {changes[n].target : n \in UnderWay}

\* Mutant: the toggles do not wait for the lookup.
isPending_LookupUnseen == Here # {}

isPending == Fetching \/ Here # {}

\* setQueryData: the lookup has data, and they count as fresh, until they are invalidated
\* or some time has passed, which may be at any moment.
Put(k, items) == [lookups[k] EXCEPT !.items = items, !.loaded = TRUE, !.fresh = TRUE]

\* A lookup on the screen is fetched unless it is on its way.
Idle(k) == k \in Keys /\ lookups[k].asked = {}
Asking(k) == [lookups EXCEPT ![k].asked = {Found(k)}, ![k].fresh = FALSE]

MayChange == notes.used < MaxChanges
Doubting(ks) == [notes EXCEPT !.doubted = @ \cup (ks \cap Keys)]
Trusting(ks) == [notes EXCEPT !.doubted = @ \ ks]

----------------------------------------------------------------------------
Init ==
  /\ banners = [i \in Ids |-> NoBanner]
  /\ \E ids \in Pages : view = [kind |-> "list", ids |-> ids]
  /\ lookups = [k \in Keys |-> [items |-> {}, loaded |-> FALSE, fresh |-> FALSE, asked |-> {}]]
  /\ changes = [n \in 1..MaxChanges |-> NoChange]
  /\ notes = [used |-> 0, moves |-> 0, doubted |-> {}]

\* The lookup on the screen is fetched again: the connection or the reader is back.
Ask ==
  /\ Idle(Key)
  /\ lookups' = Asking(Key)
  /\ notes' = Trusting({Key})
  /\ UNCHANGED <<banners, view, changes>>

\* The server reads the banners later than it was asked.
Reads(k) ==
  /\ lookups[k].asked # {}
  /\ lookups' = [lookups EXCEPT ![k].asked = {Found(k)}]
  /\ notes' = Trusting({k})
  /\ UNCHANGED <<banners, view, changes>>

\* The answer is kept, whether or not its lookup is still on the screen.
Answered(k) ==
  /\ \E items \in lookups[k].asked :
       lookups' = [lookups EXCEPT ![k] = [items |-> items, loaded |-> TRUE, fresh |-> TRUE, asked |-> {}]]
  /\ UNCHANGED <<banners, view, changes, notes>>

\* The toggles over a lookup that failed show what it had before, and are enabled.
AskFailed(k) ==
  /\ lookups[k].asked # {}
  /\ lookups' = [lookups EXCEPT ![k].asked = {}, ![k].fresh = FALSE]
  /\ notes' = Doubting({k})
  /\ UNCHANGED <<banners, view, changes>>

\* A lookup that comes on the screen is fetched if it is not fresh.
Shows(kind, ids) ==
  /\ notes.moves < MaxMoves
  /\ view' = [kind |-> kind, ids |-> ids]
  /\ \/ /\ Idle(ids)
        /\ lookups' = Asking(ids)
        /\ notes' = [notes EXCEPT !.doubted = @ \ {ids}, !.moves = @ + 1]
     \/ /\ Idle(ids) => lookups[ids].fresh
        /\ notes' = [notes EXCEPT !.moves = @ + 1]
        /\ UNCHANGED lookups
  /\ UNCHANGED banners

\* The list turns a page, sets a filter or is loaded; a change on its way follows it.
Turn(ids) ==
  /\ view.kind = "list" /\ ids # Key
  /\ Shows("list", ids)
  /\ changes' = [n \in 1..MaxChanges |-> IF n \in Here THEN [changes[n] EXCEPT !.key = ids] ELSE changes[n]]

\* Another page is mounted, with a hook of its own; a change on its way goes on.
Open(kind, ids) ==
  /\ Shows(kind, ids)
  /\ changes' = [n \in 1..MaxChanges |-> IF n \in Here THEN [changes[n] EXCEPT !.here = FALSE] ELSE changes[n]]

\* Somebody else writes, or wants to write, the banner of t.
Disturbed(t) ==
  [n \in 1..MaxChanges |->
     IF n \notin UnderWay THEN changes[n]
     ELSE IF changes[n].status = "served" THEN [changes[n] EXCEPT !.alone = FALSE]
     ELSE [changes[n] EXCEPT !.alone = FALSE, !.sure = @ /\ changes[n].target # t]]

\* cancelQueries: the fetches of the lookups whose targets begin with those of the screen.
Begins(k) == \A i \in DOMAIN Key : i \in DOMAIN k /\ k[i] = Key[i]
Stopped   == {k \in Keys : Begins(k) /\ lookups[k].asked # {}}

\* onMutate: the items as they will be, in the lookup of the screen.
Mutate(t, kind, id, field, on, items) ==
  /\ ~isPending /\ MayChange
  /\ changes' = [Disturbed(t) EXCEPT ![notes.used + 1] =
       [status |-> "sent", kind |-> kind, target |-> t, id |-> id, field |-> field, on |-> on,
        from |-> Key, key |-> Key, here |-> TRUE,
        sure |-> Key \notin notes.doubted /\ t \notin Writing,
        alone |-> Key \notin notes.doubted /\ UnderWay = {},
        had |-> Lookup.loaded, previous |-> Lookup.items]]
  /\ lookups' = [k \in Keys |-> IF k = Key THEN Put(k, items)
                                ELSE IF k \in Stopped THEN [lookups[k] EXCEPT !.asked = {}] ELSE lookups[k]]
  /\ notes' = [notes EXCEPT !.used = @ + 1, !.doubted = @ \cup Stopped]
  /\ UNCHANGED <<banners, view>>

\* toggleHero of a target without a banner.
TurnOn(t) ==
  /\ heroById(t) = {}
  /\ Mutate(t, "create", 0, "enabled", TRUE, Lookup.items \cup {Optimistic(t)})

\* toggleHero and togglePinned of a target that has one; the pin needs "on".
Set(r, field, on) == IF field = "enabled" THEN [r EXCEPT !.enabled = on] ELSE [r EXCEPT !.pinned = on]
Switch(x, field) ==
  /\ x \in heroById(x.target) /\ x.id > 0
  /\ field = "pinned" => x.enabled
  /\ LET on == IF field = "enabled" THEN ~x.enabled ELSE ~x.pinned IN
     Mutate(x.target, "update", x.id, field, on, (Lookup.items \ {x}) \cup {Set(x, field, on)})

\* The server creates a banner without asking whether the target has one, and updates
\* the field that is named.
Created(i, t) ==
  /\ banners[i] = NoBanner /\ \A j \in Ids : banners[j] = NoBanner => i <= j
  /\ banners' = [banners EXCEPT ![i] = [target |-> t, enabled |-> TRUE, pinned |-> FALSE]]

\* The answer carries the row.
Receipt(c, i) ==
  [status |-> "served", kind |-> c.kind, target |-> c.target, from |-> c.from, key |-> c.key,
   here |-> c.here, alone |-> c.alone, had |-> c.had, previous |-> c.previous,
   id |-> i, row |-> banners'[i]]

Served(n) ==
  /\ changes[n].status = "sent"
  /\ \E i \in Ids :
       /\ \/ changes[n].kind = "create" /\ Created(i, changes[n].target)
          \/ /\ changes[n].kind = "update" /\ i = changes[n].id /\ i \in Existing
             /\ banners' = [banners EXCEPT ![i] = Set(@, changes[n].field, changes[n].on)]
       /\ changes' = [changes EXCEPT ![n] = Receipt(@, i)]
  /\ UNCHANGED <<lookups, view, notes>>

\* onSuccess: the item of the answer, in the lookup the hook showed last.
AnswerItem(c)  == [id |-> c.id, target |-> c.row.target, enabled |-> c.row.enabled, pinned |-> c.row.pinned]
Replaced(c, x) == IF c.kind = "create" THEN x.target = c.target ELSE x.id = c.id
Confirmed(c)   == {IF Replaced(c, x) THEN AnswerItem(c) ELSE x : x \in lookups[c.key].items}

\* Mutant: the other lookups stay fresh, and none is asked for.
Succeeded_NothingStale(n) ==
  /\ changes[n].status = "served"
  /\ lookups' = [k \in Keys |-> IF k = changes[n].key THEN Put(k, Confirmed(changes[n])) ELSE lookups[k]]
  /\ changes' = [changes EXCEPT ![n] = NoChange]
  /\ UNCHANGED <<banners, view, notes>>

\* Every lookup is then marked as stale, and that of the screen is fetched again.  A fetch
\* goes on if it is of another lookup, or of one without data.
GoesOn(c, k) == lookups[k].asked # {} /\ (k # Key \/ ~(lookups[k].loaded \/ k = c.key))
Succeeded(n) ==
  LET c == changes[n]
      fetched == Key \in Keys /\ ~GoesOn(c, Key)
      items(k) == IF k = c.key THEN Confirmed(c) ELSE lookups[k].items
  IN
  /\ c.status = "served"
  /\ lookups' = [k \in Keys |->
       [items |-> items(k), loaded |-> lookups[k].loaded \/ k = c.key, fresh |-> FALSE,
        asked |-> IF k = Key /\ fetched THEN {Found(k)} ELSE lookups[k].asked]]
  /\ changes' = [changes EXCEPT ![n] = NoChange]
  /\ notes' = [notes EXCEPT !.doubted = (IF fetched THEN @ \ {Key} ELSE @) \cup {k \in Keys : GoesOn(c, k)}]
  /\ UNCHANGED <<banners, view>>

\* onError puts the items of before into the lookup the hook showed last, or removes the
\* optimistic item from it.  The call may have been served all the same.
Failed(n) ==
  LET c == changes[n] IN
  /\ c.status \in {"sent", "served"}
  /\ lookups' = [k \in Keys |->
       IF k # c.key THEN lookups[k]
       ELSE Put(k, IF c.had THEN c.previous ELSE {x \in lookups[k].items : x.target # c.target})]
  /\ changes' = [changes EXCEPT ![n] = NoChange]
  /\ notes' = Doubting((IF c.alone /\ c.key = c.from THEN {} ELSE {c.from, c.key})
                       \cup (IF c.status = "served" THEN KeysOf(c.target) ELSE {}))
  /\ UNCHANGED <<banners, view>>

Elsewhere(t) ==
  /\ MayChange
  /\ notes' = [notes EXCEPT !.used = @ + 1, !.doubted = @ \cup KeysOf(t)]
  /\ changes' = Disturbed(t)
  /\ UNCHANGED <<lookups, view>>

\* The form that creates a banner, another administrator, or a call that was given up and
\* arrives: no lookup is told.
OthersCreate(t) == Elsewhere(t) /\ \E i \in Ids : Created(i, t)

\* The form of a banner, which sends every field, or a deletion: no lookup is told.
OthersWrite(i) ==
  /\ i \in Existing /\ Elsewhere(banners[i].target)
  /\ \/ \E p \in BOOLEAN : banners' = [banners EXCEPT ![i].enabled = ~@, ![i].pinned = p]
     \/ banners' = [banners EXCEPT ![i] = Gone]

Next ==
  \/ Ask
  \/ \E k \in Keys : Reads(k) \/ Answered(k) \/ AskFailed(k)
  \/ \E ids \in Pages : Turn(ids) \/ Open("list", ids)
  \/ \E ids \in Forms : Open("form", ids)
  \/ \E t \in On(Key) : TurnOn(t)
  \/ \E t \in On(Key) : \E x \in heroById(t) : \E field \in {"enabled", "pinned"} : Switch(x, field)
  \/ \E n \in UnderWay : Served(n) \/ Succeeded(n) \/ Failed(n)
  \/ \E t \in Targets : OthersCreate(t)
  \/ \E i \in Ids : OthersWrite(i)

Spec == Init /\ [][Next]_heroVars

----------------------------------------------------------------------------
Banners == [target : Targets, enabled : BOOLEAN, pinned : BOOLEAN]
Items   == [id : 0..MaxBanners, target : Targets, enabled : BOOLEAN, pinned : BOOLEAN]
Lookups == [items : SUBSET Items, loaded : BOOLEAN, fresh : BOOLEAN, asked : SUBSET SUBSET Items]

Sendings == [status : {"sent"}, kind : {"create", "update"}, target : Targets, id : 0..MaxBanners,
             field : {"enabled", "pinned"}, on : BOOLEAN, from : Keys, key : Keys \cup {<< >>},
             here : BOOLEAN, sure : BOOLEAN, alone : BOOLEAN, had : BOOLEAN, previous : SUBSET Items]
Receipts == [status : {"served"}, kind : {"create", "update"}, target : Targets, from : Keys, key : Keys \cup {<< >>},
             here : BOOLEAN, alone : BOOLEAN, had : BOOLEAN, previous : SUBSET Items,
             id : Ids, row : Banners]

TypeOK ==
  /\ banners \in [Ids -> Banners \cup {NoBanner, Gone}]
  /\ lookups \in [Keys -> Lookups]
  /\ \/ view.kind = "list" /\ view.ids \in Pages
     \/ view.kind = "form" /\ view.ids \in Forms
  /\ changes \in [1..MaxChanges -> {NoChange} \cup Sendings \cup Receipts]
  /\ notes \in [used : 0..MaxChanges, moves : 0..MaxMoves, doubted : SUBSET Keys]

\* A toggle that can be clicked shows the banners of its target, unless its lookup may
\* be untrue or another page's change of that target is on its way.
ToggleIsTrue ==
  ~isPending /\ Key \notin notes.doubted
  => \A t \in On(Key) \ Writing : heroById(t) = Of(t, Found(Key))

\* A toggle gives no target a second banner, although the server would, unless it was
\* switched on over a lookup that may be untrue, or others were writing the target.
OneBannerPerTarget ==
  [][\A n \in UnderWay :
       changes[n].status = "sent" /\ changes[n].kind = "create" /\ changes[n].sure /\ Served(n)
       => BannersOf(changes[n].target) = {}]_heroVars

============================================================================
