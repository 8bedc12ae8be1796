---------------------------- MODULE AdminLists ----------------------------
(***************************************************************************)
(* The administrators' lists of posts, events and hero banners: pages and  *)
(* filters, each with a query of its own in the cache, and the deletion of *)
(* a row through the confirmation dialog.  Deleting a post from its own    *)
(* page goes the same way, and so do the comments under a post, in a list  *)
(* without pages or filters; only deletions are followed there.            *)
(***************************************************************************)
EXTENDS Integers, FiniteSets

CONSTANTS Rows,        \* numbers of the rows; a list is sorted from the highest down
          Matching,    \* the rows that satisfy the filter
          PageSize,
          NoRow,
          MaxFetches,  \* bound: requests for a page of the list
          MaxDeletes   \* bound: deletions confirmed, and deletions by others

ListsAssumption ==
  /\ Rows \subseteq Nat /\ IsFiniteSet(Rows) /\ Matching \subseteq Rows
  /\ NoRow \notin Rows /\ PageSize \in Nat \ {0} /\ MaxFetches \in Nat /\ MaxDeletes \in Nat

VARIABLES
  rows,      \* the rows at the server
  look,      \* what is shown: the kind of list, the page, the filter, the dialog's row
  queries,   \* the cached query of each page and filter
  deletion,  \* the mutation that deletes; history: whether its dialog was closed meanwhile
  ledger     \* requests and deletions used; history: the rows whose deletion was
             \* acknowledged, and the queries whose fetch went on over an invalidation

listVars == <<rows, look, queries, deletion, ledger>>

Kinds   == {"posts", "events", "hero", "comments"}
Filters == {"all", "matching"}

\* The rows of a page of those that satisfy the filter; all comments are on one page.
Found(filter)   == IF filter = "all" THEN rows ELSE rows \cap Matching
PageOf(found, page) ==
  {r \in found : Cardinality({s \in found : s > r}) \div PageSize = page \/ look.kind = "comments"}

Pages    == 0..((Cardinality(Rows) + PageSize - 1) \div PageSize)
Keys     == Pages \X Filters
Key      == <<look.page, look.filter>>
Shown    == queries[Key]

\* What the server answers to a request for the page, with the total of the list.
Answer(key) == [rows |-> PageOf(Found(key[2]), key[1]), total |-> Cardinality(Found(key[2]))]
Unloaded    == [rows |-> {}, total |-> -1]
IsLoading   == Shown.data = Unloaded
IsFetching  == Shown.asked # {}

\* The query functions of the three pages, unsent.
NewQuery == [data |-> Unloaded, fresh |-> FALSE, asked |-> {}]

\* The pager of the posts is absent for one page, that of the banners for an empty page.
PagerShown ==
  CASE look.kind = "posts"  -> ~IsLoading /\ Shown.data.total > PageSize
    [] look.kind = "events" -> TRUE
    [] look.kind = "hero"   -> Shown.data.rows # {}
    [] look.kind = "comments" -> FALSE

PagerEnabled == look.kind = "events" => ~IsFetching
PrevEnabled == PagerShown /\ PagerEnabled /\ look.page > 0
NextEnabled == PagerShown /\ PagerEnabled /\ (look.page + 1) * PageSize < Shown.data.total

Pending == deletion.status # "idle"

----------------------------------------------------------------------------
Init ==
  /\ rows = Rows
  /\ look \in [kind : Kinds, page : {0}, filter : {"all"}, target : {NoRow}]
  /\ queries = [k \in Keys |-> NewQuery]
  /\ deletion = [status |-> "idle", row |-> NoRow, escaped |-> FALSE]
  /\ ledger = [fetches |-> 0, deletes |-> 0, gone |-> {}, raced |-> {}]

\* The query on the screen is fetched: it has no data, or is stale and was mounted,
\* refreshed by the button, or its reader came back online.
Fetch ==
  /\ ~Shown.fresh /\ ~IsFetching /\ ledger.fetches < MaxFetches
  /\ queries' = [queries EXCEPT ![Key].asked = {Answer(Key)}]
  /\ ledger' = [ledger EXCEPT !.fetches = @ + 1, !.raced = @ \ {Key}]
  /\ UNCHANGED <<rows, look, deletion>>

\* An answer is kept for the key it was asked for, on the screen or not.
FetchAnswered(key) ==
  /\ \E a \in queries[key].asked :
       queries' = [queries EXCEPT ![key] = [data |-> a, fresh |-> TRUE, asked |-> {}]]
  /\ UNCHANGED <<rows, look, deletion, ledger>>

FetchFailed(key) ==
  /\ queries[key].asked # {}
  /\ queries' = [queries EXCEPT ![key].asked = {}]
  /\ UNCHANGED <<rows, look, deletion, ledger>>

GoStale(key) ==
  /\ queries[key].fresh
  /\ queries' = [queries EXCEPT ![key].fresh = FALSE]
  /\ UNCHANGED <<rows, look, deletion, ledger>>

PrevPage ==
  /\ PrevEnabled /\ look.target = NoRow
  /\ look' = [look EXCEPT !.page = @ - 1]
  /\ UNCHANGED <<rows, queries, deletion, ledger>>

NextPage ==
  /\ NextEnabled /\ look.target = NoRow
  /\ look' = [look EXCEPT !.page = @ + 1]
  /\ UNCHANGED <<rows, queries, deletion, ledger>>

\* The list of banners has no filters, nor have the comments.
SetFilter ==
  /\ look.kind \in {"posts", "events"} /\ look.target = NoRow
  /\ \E f \in Filters \ {look.filter} : look' = [look EXCEPT !.filter = f, !.page = 0]
  /\ UNCHANGED <<rows, queries, deletion, ledger>>

\* Mutant: the rows can be reached behind the dialog.
AskDelete_NotModal ==
  /\ look.kind = "comments" => ~Pending
  /\ \E r \in Shown.data.rows : look' = [look EXCEPT !.target = r]
  /\ UNCHANGED <<rows, queries, deletion, ledger>>

\* The buttons of the comments are disabled while a deletion is pending.
DeleteEnabled == look.kind = "comments" => ~Pending

\* The dialog is modal: a row is chosen only when none is.
AskDelete ==
  /\ look.target = NoRow /\ DeleteEnabled
  /\ \E r \in Shown.data.rows : look' = [look EXCEPT !.target = r]
  /\ UNCHANGED <<rows, queries, deletion, ledger>>

Confirm ==
  /\ look.target # NoRow /\ ~Pending /\ ledger.deletes < MaxDeletes
  /\ deletion' = [status |-> "sent", row |-> look.target, escaped |-> FALSE]
  /\ ledger' = [ledger EXCEPT !.deletes = @ + 1]
  /\ UNCHANGED <<rows, look, queries>>

\* The cancel button is disabled while the deletion is pending; escape and a click
\* beside the dialog are not.
Cancel ==
  /\ look.target # NoRow
  /\ look' = [look EXCEPT !.target = NoRow]
  /\ deletion' = [deletion EXCEPT !.escaped = Pending]
  /\ UNCHANGED <<rows, queries, ledger>>

DeleteServed ==
  /\ deletion.status = "sent" /\ deletion.row \in rows
  /\ rows' = rows \ {deletion.row}
  /\ deletion' = [deletion EXCEPT !.status = "served"]
  /\ UNCHANGED <<look, queries, ledger>>

\* A fetch goes on over an invalidation if its query is not on the screen, or has no data
\* that the answer would replace.
Continues(qs, k) == qs[k].asked # {} /\ (k # Key \/ qs[k].data = Unloaded)

\* Mutant: only the query on the screen is invalidated.
Invalidated_ShownOnly(qs) ==
  [qs EXCEPT ![Key].fresh = FALSE, ![Key].asked = IF Continues(qs, Key) THEN @ ELSE {Answer(Key)}]

\* Every query of the list is marked as stale, and the one on the screen is fetched again
\* unless its first fetch is on its way.
Invalidated(qs) ==
  [k \in Keys |-> [qs[k] EXCEPT !.fresh = FALSE,
                                !.asked = IF k # Key \/ Continues(qs, k) THEN @ ELSE {Answer(k)}]]

DeleteAnswered ==
  /\ deletion.status = "served"
  /\ look' = [look EXCEPT !.target = NoRow]
  /\ queries' = Invalidated(queries)
  /\ deletion' = [status |-> "idle", row |-> NoRow, escaped |-> FALSE]
  /\ ledger' = [ledger EXCEPT !.gone = @ \cup {deletion.row},
                  !.raced = {k \in Keys : Continues(queries, k)} \cup (@ \ {Key})]
  /\ UNCHANGED rows

\* The error leaves the dialog open, except over the comments.
DeleteError ==
  /\ deletion.status \in {"sent", "served"}
  /\ deletion' = [status |-> "idle", row |-> NoRow, escaped |-> FALSE]
  /\ look' = [look EXCEPT !.target = IF look.kind = "comments" THEN NoRow ELSE @]
  /\ UNCHANGED <<rows, queries, ledger>>

OtherDeletes ==
  /\ ledger.deletes < MaxDeletes
  /\ \E r \in rows : rows' = rows \ {r}
  /\ ledger' = [ledger EXCEPT !.deletes = @ + 1]
  /\ UNCHANGED <<look, queries, deletion>>

Next ==
  \/ Fetch \/ \E k \in Keys : FetchAnswered(k) \/ FetchFailed(k) \/ GoStale(k)
  \/ PrevPage \/ NextPage \/ SetFilter \/ AskDelete \/ Confirm \/ Cancel
  \/ DeleteServed \/ DeleteAnswered \/ DeleteError \/ OtherDeletes

Spec == Init /\ [][Next]_listVars

----------------------------------------------------------------------------
Answers == [rows : SUBSET Rows, total : {-1} \cup 0..Cardinality(Rows)]

Looks   == [kind : Kinds, page : Pages, filter : Filters, target : Rows \cup {NoRow}]
Queries == [data : Answers, fresh : BOOLEAN, asked : SUBSET Answers]
Deletions == [status : {"idle", "sent", "served"}, row : Rows \cup {NoRow}, escaped : BOOLEAN]
Ledgers == [fetches : 0..MaxFetches, deletes : 0..MaxDeletes, gone : SUBSET Rows, raced : SUBSET Keys]

TypeOK ==
  /\ rows \subseteq Rows /\ look \in Looks /\ queries \in [Keys -> Queries]
  /\ deletion \in Deletions /\ ledger \in Ledgers
  /\ ledger.gone \cap rows = {}

\* No page of the list, on the screen or cached for later, passes for fresh with a row
\* whose deletion this administrator was told of, unless that page was being fetched,
\* unseen or for the first time, when the deletion was acknowledged: the invalidation
\* does not stop such a fetch, whose answer may be from before.
NoFreshGhost ==
  \A k \in Keys :
    queries[k].fresh /\ queries[k].data.rows \cap ledger.gone # {} => k \in ledger.raced

\* A dialog is closed by its reader or by the answer for the row it names, unless the
\* dialog of the deletion under way was closed before its answer came.
AnswerClosesItsDialog ==
  [][look.target # NoRow /\ look'.target # look.target
       => Cancel \/ deletion.row = look.target \/ deletion.escaped]_listVars
============================================================================
