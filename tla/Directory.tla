----------------------------- MODULE Directory -----------------------------
(***************************************************************************)
(* The alumni directory page: what the address says, what the filters      *)
(* hold, what the debounced filters ask the server for and how many pages  *)
(* of the answer are shown.                                                *)
(*                                                                         *)
(* The address is read into the filters and the debounced filters are      *)
(* written back with router.replace, so the page is two loops that chase   *)
(* each other.  A filter state is a search (every text filter and the sort *)
(* order, as one value) and a page; every search matches Pages pages, of   *)
(* which the last is short (or empty).  The members do not change.         *)
(***************************************************************************)
EXTENDS Integers

CONSTANTS
  Searches,    \* contents of the text filters and the sort order
  Plain,       \* the default one
  Pages,       \* pages every search matches
  NoUrl,       \* no replacement of the address is under way
  MaxMoves     \* bound: what the user does

DirectoryAssumption ==
  /\ Plain \in Searches
  /\ Pages \in Nat \ {0}
  /\ NoUrl \notin [search : Searches, page : 0 .. Pages]
  /\ MaxMoves \in Nat

VARIABLES
  url,       \* filtersFromUrl: the address as readFilters reads it
  synced,    \* lastSyncedParamsRef: the address the page believes it is at
  filters,   \* what the inputs show
  settled,   \* debouncedFilters
  ticking,   \* the 350 ms timer of useDebouncedValue is running
  leaving,   \* the address router.replace is moving to, NoUrl when none
  loaded,    \* pages of each search in the query cache
  fetching,  \* what the query of each search is doing
  wish,      \* history: the filters the user last asked for
  unheard,   \* history: that was an address the page believed it was at
  echoes,    \* history: replacements sent since then, counted to four
  moves      \* what the user did

browserVars == <<url, synced, leaving>>
filterVars  == <<filters, settled, ticking, wish, unheard, echoes>>
queryVars   == <<loaded, fetching>>
directoryVars == <<browserVars, filterVars, queryVars, moves>>

States == [search : Searches, page : 0 .. Pages]
Default == [search |-> Plain, page |-> 0]

TypeOK ==
  /\ {url, synced, filters, settled, wish} \subseteq States
  /\ {ticking, unheard} \subseteq BOOLEAN
  /\ leaving \in States \cup {NoUrl}
  /\ loaded \in [Searches -> 0 .. Pages]
  /\ fetching \in [Searches -> {"idle", "first", "next", "failed", "again"}]
  /\ echoes \in 0 .. 4
  /\ moves \in 0 .. MaxMoves

(***************************************************************************)
(* The member list                                                         *)
(***************************************************************************)

\* getNextPageParam: a full last page promises another one.
hasNextPage(s) == loaded[s] \in 1 .. Pages - 1

desiredPageCount == settled.page + 1
visiblePages == IF loaded[settled.search] < desiredPageCount
                THEN loaded[settled.search] ELSE desiredPageCount

\* DirectoryResults is on the page, and not the loading or the error message.
ResultsShown ==
  /\ loaded[settled.search] > 0
  /\ fetching[settled.search] \notin {"failed", "again"}

\* The end of the list takes the user further: the button, or its observer.
CanLoadMore ==
  ResultsShown /\ hasNextPage(settled.search) /\ fetching[settled.search] = "idle"

\* Mutant: the first page is all that is fetched of itself.
Observed_FirstOnly(want, pages, doing) ==
  LET s == want.search IN
  IF pages[s] = 0 /\ doing[s] \in {"idle", "failed"} THEN "first" ELSE doing[s]

\* The observer of a search with nothing in the cache fetches its first page;
\* the effect below fetches on until the page the filters name is loaded.
Observed(want, pages, doing) ==
  LET s == want.search IN
  CASE pages[s] = 0 /\ doing[s] \in {"idle", "failed"} -> "first"
    [] /\ doing[s] = "idle" /\ pages[s] \in 1 .. Pages - 1
       /\ pages[s] < want.page + 1                      -> "next"
    [] OTHER                                            -> doing[s]

Watch(want, pages, doing) ==
  fetching' = [doing EXCEPT ![want.search] = Observed(want, pages, doing)]

\* An answer; the effect looks again when it is the search on the page.
Answered(s, pages) ==
  LET doing == [fetching EXCEPT ![s] = "idle"] IN
  /\ loaded' = pages
  /\ IF s = settled.search THEN Watch(settled, pages, doing)
                           ELSE fetching' = doing

FetchServed(s) ==
  /\ fetching[s] \in {"first", "next", "again"}
  /\ Answered(s, IF fetching[s] = "again" /\ loaded[s] > 0
                 THEN loaded ELSE [loaded EXCEPT ![s] = @ + 1])
  /\ UNCHANGED <<browserVars, filterVars, moves>>

FetchFailed(s) ==
  /\ fetching[s] \in {"first", "next", "again"}
  /\ fetching' = [fetching EXCEPT ![s] = "failed"]
  /\ UNCHANGED <<browserVars, filterVars, loaded, moves>>

\* The button under the error message.
Refetch ==
  /\ fetching[settled.search] = "failed"
  /\ fetching' = [fetching EXCEPT ![settled.search] =
                    IF loaded[settled.search] = 0 THEN "first" ELSE "again"]
  /\ UNCHANGED <<browserVars, filterVars, loaded, moves>>

(***************************************************************************)
(* The filters                                                             *)
(***************************************************************************)

\* A change of the filters restarts the debounce.
setFilters(f) ==
  /\ filters' = f
  /\ ticking' = (ticking \/ f # filters)
  /\ wish' = f /\ unheard' = FALSE /\ echoes' = 0
  /\ UNCHANGED settled

\* updateFilter and updateSort: another search starts at its first page.
UpdateFilter(s) ==
  /\ moves < MaxMoves /\ s # filters.search
  /\ setFilters([search |-> s, page |-> 0])
  /\ moves' = moves + 1
  /\ UNCHANGED <<browserVars, queryVars>>

ResetFilters ==
  /\ moves < MaxMoves
  /\ setFilters(Default)
  /\ moves' = moves + 1
  /\ UNCHANGED <<browserVars, queryVars>>

\* handleLoadMore, from the button or from the observer of the end of the list.
\* It counts from the page on the screen and asks for a page in any case.
HandleLoadMore ==
  /\ CanLoadMore
  /\ setFilters([filters EXCEPT !.page = settled.page + 1])
  /\ fetching' = [fetching EXCEPT ![settled.search] = "next"]
  /\ UNCHANGED <<browserVars, loaded, moves>>

(***************************************************************************)
(* The address                                                             *)
(***************************************************************************)

Counted(n) == IF n < 4 THEN n + 1 ELSE n

\* Mutant: every address is taken over, the page's own too.
AddressIs_AlwaysTaken(u, pending) ==
  /\ url' = u /\ filters' = u /\ ticking' = TRUE
  /\ synced' = settled
  /\ leaving' = IF u = settled THEN pending ELSE settled

\* Mutant: what the page was sent to is not remembered.
AddressIs_Forgetful(u, pending) ==
  /\ url' = u
  /\ filters' = IF synced = u THEN filters ELSE u
  /\ ticking' = (ticking \/ synced # u)
  /\ synced' = u
  /\ leaving' = IF u = settled THEN pending ELSE settled

\* The effects of a changed address, in their order: one takes the filters
\* over unless the page itself asked for that address, the other sends the
\* debounced filters out again when they differ.
AddressIs(u, pending) ==
  /\ url' = u
  /\ filters' = IF synced = u THEN filters ELSE u
  /\ ticking' = (ticking \/ synced # u)
  /\ synced' = settled
  /\ leaving' = IF u = settled THEN pending ELSE settled

\* router.replace arrives.
ReplaceArrives ==
  /\ leaving # NoUrl
  /\ AddressIs(leaving, NoUrl)
  /\ echoes' = IF leaving = settled THEN echoes ELSE Counted(echoes)
  /\ UNCHANGED <<settled, wish, unheard, queryVars, moves>>

\* Back or forward within the page: it takes the place of a pending replace.
GoTo(u) ==
  /\ moves < MaxMoves
  /\ u # url
  /\ AddressIs(u, NoUrl)
  /\ wish' = u /\ unheard' = (synced = u)
  /\ echoes' = IF u = settled THEN 0 ELSE 1
  /\ moves' = moves + 1
  /\ UNCHANGED <<settled, queryVars>>

\* The timer: the filters settle, the list follows and the address is sent after.
DebounceEnds ==
  /\ ticking
  /\ ticking' = FALSE
  /\ settled' = filters
  /\ IF url = filters
     THEN UNCHANGED <<synced, leaving, echoes>>
     ELSE synced' = filters /\ leaving' = filters /\ echoes' = Counted(echoes)
  /\ Watch(filters, loaded, fetching)
  /\ UNCHANGED <<url, filters, wish, unheard, loaded, moves>>

Init ==
  /\ url \in [search : {Plain}, page : 0 .. Pages - 1]
  /\ synced = url /\ filters = url /\ settled = url /\ wish = url
  /\ ticking = FALSE /\ leaving = NoUrl /\ unheard = FALSE
  /\ loaded = [s \in Searches |-> 0]
  /\ fetching = [s \in Searches |-> IF s = Plain THEN "first" ELSE "idle"]
  /\ echoes = 0 /\ moves = 0

Next ==
  \/ \E s \in Searches : FetchServed(s) \/ FetchFailed(s) \/ UpdateFilter(s)
  \/ Refetch \/ ResetFilters \/ HandleLoadMore
  \/ ReplaceArrives \/ DebounceEnds
  \/ \E u \in [search : Searches, page : 0 .. Pages - 1] : GoTo(u)

Spec == Init /\ [][Next]_directoryVars

-----------------------------------------------------------------------------

Quiet == ~ticking /\ leaving = NoUrl

\* The two loops end where the user wanted to be: with no timer and no
\* replacement under way, the address, the inputs and the list all show the
\* filters the user last asked for.
LastWishWins ==
  Quiet => /\ url = settled /\ filters = settled
           /\ settled = wish \/ unheard

\* They do not chase each other: one action of the user is followed by at
\* most two replacements of the address, whatever the timing.
NoPingPong == echoes <= 2

\* The list is never left short of the page the filters name: once nothing is
\* under way, that page is loaded or the search has no more.
WantedPagesArrive ==
  Quiet /\ fetching[settled.search] = "idle" =>
    visiblePages = IF desiredPageCount < Pages THEN desiredPageCount ELSE Pages
============================================================================
