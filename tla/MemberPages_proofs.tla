------------------------ MODULE MemberPages_proofs ------------------------
(***************************************************************************)
(* Proofs about the directory page, whose two loops, from the address to   *)
(* the filters and back, end where the user wanted to be after at most two *)
(* replacements of the address; about the pages on which a post is         *)
(* written; and, with those of the modules below, about the types of the   *)
(* whole.                                                                  *)
(***************************************************************************)
EXTENDS MyProfile_proofs, SequenceTheorems, NaturalsInduction, WellFoundedInduction

-----------------------------------------------------------------------------
(* The directory *)

(* Without a timer the filters are settled, and without a replacement the address says
   what is settled; a replacement goes to the address that the page believes it is at. *)
LoopsJoin ==
  /\ ~ticking => filters = settled
  /\ leaving = NoUrl => url = settled
  /\ leaving # NoUrl => synced = leaving
  /\ filters = wish \/ unheard

(* Replacements that may still be sent without the user: one when the timer ends, one when
   the address arrives somewhere else than the list. *)
TimerToEnd == IF ticking THEN 1 ELSE 0
ToSendBack == IF leaving \in {NoUrl, settled} THEN 0 ELSE 1
EchoesBounded == echoes + TimerToEnd + ToSendBack <= 2

(* A query fetches what is missing, and one at rest has fetched what is shown. *)
FetchesFit ==
  /\ \A s \in Searches : /\ fetching[s] = "first" => loaded[s] = 0
                         /\ fetching[s] = "next"  => loaded[s] \in 1 .. Pages - 1
  /\ fetching[settled.search] = "idle"
     => /\ loaded[settled.search] > 0
        /\ loaded[settled.search] = Pages \/ loaded[settled.search] >= settled.page + 1

DirectoryInv == DirectoryPage!TypeOK /\ LoopsJoin /\ EchoesBounded /\ FetchesFit

LEMMA DirectoryInit == ASSUME DirectoryPage!DirectoryAssumption, DirectoryPage!Init PROVE DirectoryInv
<1> USE DEF DirectoryPage!DirectoryAssumption, DirectoryPage!Init
<1>1. DirectoryPage!TypeOK
  <2>1. url \in DirectoryPage!States
    BY DEF DirectoryPage!States
  <2>2. loaded \in [Searches -> 0 .. Pages]
    OBVIOUS
  <2>3. fetching \in [Searches -> {"idle", "first", "next", "failed", "again"}]
    OBVIOUS
  <2>4. {url, synced, filters, settled, wish} \subseteq DirectoryPage!States /\ echoes \in 0 .. 4 /\ moves \in 0 .. MaxMoves
    BY <2>1
  <2>5. {ticking, unheard} \subseteq BOOLEAN /\ leaving \in DirectoryPage!States \cup {NoUrl}
    OBVIOUS
  <2> QED
    BY <2>2, <2>3, <2>4, <2>5 DEF DirectoryPage!TypeOK
<1>2. LoopsJoin /\ EchoesBounded
  BY DEF LoopsJoin, EchoesBounded, TimerToEnd, ToSendBack
<1>3. FetchesFit
  BY DEF FetchesFit
<1> QED
  BY <1>1, <1>2, <1>3 DEF DirectoryInv

\* What the effect of the query leaves behind.
LEMMA ObservedFacts ==
    ASSUME DirectoryPage!DirectoryAssumption, NEW want \in DirectoryPage!States,
           NEW pages \in [Searches -> 0 .. Pages],
           NEW doing \in [Searches -> {"idle", "first", "next", "failed", "again"}],
           DirectoryPage!Watch(want, pages, doing),
           \A s \in Searches : /\ doing[s] = "first" => pages[s] = 0
                               /\ doing[s] = "next"  => pages[s] \in 1 .. Pages - 1
    PROVE  /\ fetching' \in [Searches -> {"idle", "first", "next", "failed", "again"}]
           /\ \A s \in Searches : /\ fetching'[s] = "first" => pages[s] = 0
                                  /\ fetching'[s] = "next"  => pages[s] \in 1 .. Pages - 1
           /\ fetching'[want.search] = "idle"
              => pages[want.search] > 0 /\ (pages[want.search] = Pages \/ pages[want.search] >= want.page + 1)
<1>1. want.search \in Searches /\ want.page \in 0 .. Pages /\ Pages \in Nat \ {0}
  BY DEF DirectoryPage!States, DirectoryPage!DirectoryAssumption
<1>2. PICK d : d = DirectoryPage!Observed(want, pages, doing)
  OBVIOUS
<1>3. fetching' = [doing EXCEPT ![want.search] = d]
  BY <1>2 DEF DirectoryPage!Watch
<1>4. /\ d \in {"idle", "first", "next", "failed", "again"}
      /\ d = "first" => pages[want.search] = 0
      /\ d = "next"  => pages[want.search] \in 1 .. Pages - 1
      /\ d = "idle"  => pages[want.search] > 0
                        /\ (pages[want.search] = Pages \/ pages[want.search] >= want.page + 1)
  BY <1>1, <1>2 DEF DirectoryPage!Observed
<1> QED
  BY <1>1, <1>3, <1>4

-----------------------------------------------------------------------------
(* The list *)

LEMMA FetchStep ==
    ASSUME DirectoryPage!DirectoryAssumption, DirectoryInv, NEW s \in Searches,
           DirectoryPage!FetchServed(s) \/ DirectoryPage!FetchFailed(s)
    PROVE  DirectoryInv'
<1>1. /\ UNCHANGED <<url, synced, leaving, filters, settled, ticking, wish, unheard, echoes, moves>>
      /\ settled \in DirectoryPage!States /\ settled.search \in Searches
      /\ loaded \in [Searches -> 0 .. Pages] /\ Pages \in Nat \ {0}
      /\ fetching \in [Searches -> {"idle", "first", "next", "failed", "again"}]
  BY DEF DirectoryPage!FetchServed, DirectoryPage!FetchFailed, DirectoryPage!browserVars, DirectoryPage!filterVars,
     DirectoryInv, DirectoryPage!TypeOK, DirectoryPage!States, DirectoryPage!DirectoryAssumption
<1>2. LoopsJoin' /\ EchoesBounded'
  BY <1>1 DEF DirectoryInv, LoopsJoin, EchoesBounded, TimerToEnd, ToSendBack
<1>3. /\ loaded' \in [Searches -> 0 .. Pages]
      /\ fetching' \in [Searches -> {"idle", "first", "next", "failed", "again"}]
      /\ FetchesFit'
  <2>1. CASE DirectoryPage!FetchFailed(s)
    BY <1>1, <2>1 DEF DirectoryPage!FetchFailed, DirectoryInv, FetchesFit
  <2>2. CASE DirectoryPage!FetchServed(s)
    <3> DEFINE doing == [fetching EXCEPT ![s] = "idle"]
               pages == IF fetching[s] = "again" /\ loaded[s] > 0 THEN loaded ELSE [loaded EXCEPT ![s] = @ + 1]
    <3>1. /\ loaded' = pages /\ fetching[s] \in {"first", "next", "again"}
          /\ IF s = settled.search THEN DirectoryPage!Watch(settled, pages, doing) ELSE fetching' = doing
      BY <2>2 DEF DirectoryPage!FetchServed, DirectoryPage!Answered
    <3>2. pages \in [Searches -> 0 .. Pages]
      <4>1. (fetching[s] = "again" /\ loaded[s] > 0) \/ loaded[s] + 1 \in 0 .. Pages
        BY <1>1, <3>1 DEF DirectoryInv, FetchesFit
      <4> QED
        BY <1>1, <4>1
    <3>3. /\ \A t \in Searches : t # s => pages[t] = loaded[t] /\ doing[t] = fetching[t]
          /\ doing[s] = "idle" /\ doing \in [Searches -> {"idle", "first", "next", "failed", "again"}]
      BY <1>1
    <3>4. \A t \in Searches : /\ doing[t] = "first" => pages[t] = 0
                              /\ doing[t] = "next"  => pages[t] \in 1 .. Pages - 1
      BY <3>3 DEF DirectoryInv, FetchesFit
    <3> HIDE DEF doing, pages
    <3>5. CASE s = settled.search
      BY <1>1, <3>1, <3>2, <3>3, <3>4, <3>5, ObservedFacts DEF FetchesFit
    <3>6. CASE s # settled.search
      BY <1>1, <3>1, <3>2, <3>3, <3>4, <3>6 DEF DirectoryInv, FetchesFit
    <3> QED
      BY <3>5, <3>6
  <2> QED
    BY <2>1, <2>2
<1>4. DirectoryPage!TypeOK'
  BY <1>1, <1>3 DEF DirectoryInv, DirectoryPage!TypeOK, DirectoryPage!States
<1> QED
  BY <1>2, <1>3, <1>4 DEF DirectoryInv

LEMMA RefetchStep ==
    ASSUME DirectoryPage!DirectoryAssumption, DirectoryInv, DirectoryPage!Refetch
    PROVE  DirectoryInv'
<1>1. /\ UNCHANGED <<url, synced, leaving, filters, settled, ticking, wish, unheard, echoes, moves, loaded>>
      /\ settled.search \in Searches /\ loaded \in [Searches -> 0 .. Pages] /\ Pages \in Nat \ {0}
      /\ fetching \in [Searches -> {"idle", "first", "next", "failed", "again"}]
  BY DEF DirectoryPage!Refetch, DirectoryPage!browserVars, DirectoryPage!filterVars, DirectoryInv,
     DirectoryPage!TypeOK, DirectoryPage!States, DirectoryPage!DirectoryAssumption
<1>2. PICK d \in {"first", "again"} : /\ fetching' = [fetching EXCEPT ![settled.search] = d]
                                      /\ d = "first" => loaded[settled.search] = 0
  BY DEF DirectoryPage!Refetch
<1>3. LoopsJoin' /\ EchoesBounded'
  BY <1>1 DEF DirectoryInv, LoopsJoin, EchoesBounded, TimerToEnd, ToSendBack
<1>4. fetching' \in [Searches -> {"idle", "first", "next", "failed", "again"}] /\ FetchesFit'
  BY <1>1, <1>2 DEF DirectoryInv, FetchesFit
<1>5. DirectoryPage!TypeOK'
  BY <1>1, <1>4 DEF DirectoryInv, DirectoryPage!TypeOK, DirectoryPage!States
<1> QED
  BY <1>3, <1>4, <1>5 DEF DirectoryInv

-----------------------------------------------------------------------------
(* The filters *)

\* The user changes the filters.
LEMMA SetFiltersFacts ==
    ASSUME DirectoryInv, NEW f \in DirectoryPage!States, DirectoryPage!setFilters(f),
           UNCHANGED <<url, synced, leaving>>
    PROVE  /\ LoopsJoin' /\ EchoesBounded'
           /\ filters' \in DirectoryPage!States /\ wish' \in DirectoryPage!States /\ settled' = settled
           /\ ticking' \in BOOLEAN /\ unheard' = FALSE /\ echoes' = 0
<1>1. /\ filters' = f /\ wish' = f /\ unheard' = FALSE /\ echoes' = 0
      /\ UNCHANGED <<url, synced, leaving, settled>>
  BY DEF DirectoryPage!setFilters
<1>2. ticking' = (ticking \/ f # filters)
  BY DEF DirectoryPage!setFilters
<1>3. ticking' \in BOOLEAN
  BY <1>2
<1>4. ~ticking' => filters' = settled'
  BY <1>1, <1>2 DEF DirectoryInv, LoopsJoin
<1>5. LoopsJoin'
  BY <1>1, <1>4 DEF DirectoryInv, LoopsJoin
<1>6. EchoesBounded'
  BY <1>1 DEF EchoesBounded, TimerToEnd, ToSendBack
<1> QED
  BY <1>1, <1>3, <1>5, <1>6

\* The types of the filters and of the list, while the address stays.
LEMMA TypeKept ==
    ASSUME DirectoryPage!TypeOK, UNCHANGED <<url, synced, leaving, settled, loaded>>,
           filters' \in DirectoryPage!States, wish' \in DirectoryPage!States,
           ticking' \in BOOLEAN, unheard' = FALSE, echoes' = 0,
           fetching' \in [Searches -> {"idle", "first", "next", "failed", "again"}],
           moves' \in 0 .. MaxMoves
    PROVE  DirectoryPage!TypeOK'
<1>1. DirectoryPage!States' = DirectoryPage!States
  BY DEF DirectoryPage!States
<1>2. {url', synced', filters', settled', wish'} \subseteq DirectoryPage!States
  BY DEF DirectoryPage!TypeOK
<1>3. {ticking', unheard'} \subseteq BOOLEAN
  OBVIOUS
<1>4. echoes' \in 0 .. 4
  OBVIOUS
<1> QED
  BY <1>1, <1>2, <1>3, <1>4 DEF DirectoryPage!TypeOK

LEMMA UpdateStep ==
    ASSUME DirectoryPage!DirectoryAssumption, DirectoryInv,
           DirectoryPage!ResetFilters \/ \E s \in Searches : DirectoryPage!UpdateFilter(s)
    PROVE  DirectoryInv'
<1>1. PICK f \in DirectoryPage!States : DirectoryPage!setFilters(f)
  <2>1. DirectoryPage!Default \in DirectoryPage!States
        /\ \A s \in Searches : [search |-> s, page |-> 0] \in DirectoryPage!States
    BY DEF DirectoryPage!Default, DirectoryPage!States, DirectoryPage!DirectoryAssumption
  <2> QED
    BY <2>1 DEF DirectoryPage!ResetFilters, DirectoryPage!UpdateFilter
<1>2. /\ UNCHANGED <<url, synced, leaving, loaded, fetching>>
      /\ moves < MaxMoves /\ moves' = moves + 1
  BY DEF DirectoryPage!ResetFilters, DirectoryPage!UpdateFilter, DirectoryPage!browserVars, DirectoryPage!queryVars
<1>3. /\ LoopsJoin' /\ EchoesBounded'
      /\ filters' \in DirectoryPage!States /\ wish' \in DirectoryPage!States /\ settled' = settled
      /\ ticking' \in BOOLEAN /\ unheard' = FALSE /\ echoes' = 0
  BY <1>1, <1>2, SetFiltersFacts
<1>4. moves' \in 0 .. MaxMoves
  BY <1>2 DEF DirectoryInv, DirectoryPage!TypeOK, DirectoryPage!DirectoryAssumption
<1>5. DirectoryPage!TypeOK'
  <2>1. fetching' \in [Searches -> {"idle", "first", "next", "failed", "again"}]
    BY <1>2 DEF DirectoryInv, DirectoryPage!TypeOK
  <2> QED
    BY <1>2, <1>3, <1>4, <2>1, TypeKept DEF DirectoryInv
<1>6. FetchesFit'
  BY <1>2, <1>3 DEF DirectoryInv, FetchesFit
<1> QED
  BY <1>3, <1>5, <1>6 DEF DirectoryInv

\* The end of the list asks for the page after the one that is shown, which there is.
LEMMA LoadMoreStep ==
    ASSUME DirectoryPage!DirectoryAssumption, DirectoryInv, DirectoryPage!HandleLoadMore
    PROVE  DirectoryInv'
<1> DEFINE s == settled.search
<1>1. /\ filters \in DirectoryPage!States /\ settled \in DirectoryPage!States /\ s \in Searches
      /\ loaded \in [Searches -> 0 .. Pages] /\ Pages \in Nat \ {0} /\ settled.page \in 0 .. Pages
      /\ fetching \in [Searches -> {"idle", "first", "next", "failed", "again"}]
      /\ loaded[s] \in 1 .. Pages - 1 /\ fetching[s] = "idle"
      /\ UNCHANGED <<url, synced, leaving, loaded, moves>>
      /\ fetching' = [fetching EXCEPT ![s] = "next"]
  BY DEF DirectoryPage!HandleLoadMore, DirectoryPage!CanLoadMore, DirectoryPage!hasNextPage, DirectoryInv,
     DirectoryPage!TypeOK, DirectoryPage!States, DirectoryPage!DirectoryAssumption, DirectoryPage!browserVars
<1>2. settled.page + 1 \in 0 .. Pages
  BY <1>1 DEF DirectoryInv, FetchesFit
<1>3. PICK f : f = [filters EXCEPT !.page = settled.page + 1] /\ DirectoryPage!setFilters(f)
  BY DEF DirectoryPage!HandleLoadMore
<1>4. f \in DirectoryPage!States
  <2>1. f = [search |-> filters.search, page |-> settled.page + 1]
    BY <1>1, <1>3 DEF DirectoryPage!States
  <2> QED
    BY <1>1, <1>2, <2>1 DEF DirectoryPage!States
<1>5. /\ LoopsJoin' /\ EchoesBounded'
      /\ filters' \in DirectoryPage!States /\ wish' \in DirectoryPage!States /\ settled' = settled
      /\ ticking' \in BOOLEAN /\ unheard' = FALSE /\ echoes' = 0
  BY <1>1, <1>3, <1>4, SetFiltersFacts
<1>6. fetching' \in [Searches -> {"idle", "first", "next", "failed", "again"}] /\ FetchesFit'
  BY <1>1, <1>5 DEF DirectoryInv, FetchesFit
<1>7. DirectoryPage!TypeOK'
  <2>1. moves' \in 0 .. MaxMoves
    BY <1>1 DEF DirectoryInv, DirectoryPage!TypeOK
  <2> QED
    BY <1>1, <1>5, <1>6, <2>1, TypeKept DEF DirectoryInv
<1> QED
  BY <1>5, <1>6, <1>7 DEF DirectoryInv

-----------------------------------------------------------------------------
(* The address *)

LEMMA CountedFacts ==
    ASSUME NEW n \in 0 .. 4
    PROVE  DirectoryPage!Counted(n) \in 0 .. 4 /\ DirectoryPage!Counted(n) <= n + 1
BY DEF DirectoryPage!Counted

\* A replacement arrives: it goes where the page believes it is, so the filters stay.
LEMMA ReplaceStep ==
    ASSUME DirectoryPage!DirectoryAssumption, DirectoryInv, DirectoryPage!ReplaceArrives
    PROVE  DirectoryInv'
<1>1. /\ leaving # NoUrl /\ synced = leaving
      /\ {url, synced, filters, settled, wish} \subseteq DirectoryPage!States
      /\ ticking \in BOOLEAN /\ echoes \in 0 .. 4 /\ NoUrl \notin DirectoryPage!States
  BY DEF DirectoryPage!ReplaceArrives, DirectoryInv, LoopsJoin, DirectoryPage!TypeOK,
     DirectoryPage!DirectoryAssumption, DirectoryPage!States
<1>2. /\ url' = leaving /\ filters' = filters /\ ticking' = ticking /\ synced' = settled
      /\ leaving' = IF leaving = settled THEN NoUrl ELSE settled
      /\ echoes' = IF leaving = settled THEN echoes ELSE DirectoryPage!Counted(echoes)
      /\ UNCHANGED <<settled, wish, unheard, loaded, fetching, moves>>
  BY <1>1 DEF DirectoryPage!ReplaceArrives, DirectoryPage!AddressIs, DirectoryPage!queryVars
<1>3. DirectoryPage!Counted(echoes) \in 0 .. 4 /\ DirectoryPage!Counted(echoes) <= echoes + 1
  BY <1>1, CountedFacts
<1>4. LoopsJoin'
  BY <1>1, <1>2 DEF DirectoryInv, LoopsJoin
<1>5. EchoesBounded'
  BY <1>1, <1>2, <1>3 DEF DirectoryInv, EchoesBounded, TimerToEnd, ToSendBack
<1>6. FetchesFit'
  BY <1>2 DEF DirectoryInv, FetchesFit
<1>7. DirectoryPage!TypeOK'
  BY <1>1, <1>2, <1>3 DEF DirectoryInv, DirectoryPage!TypeOK, DirectoryPage!States
<1> QED
  BY <1>4, <1>5, <1>6, <1>7 DEF DirectoryInv

\* The user goes back or forward.
LEMMA GoToStep ==
    ASSUME DirectoryPage!DirectoryAssumption, DirectoryInv,
           NEW u \in [search : Searches, page : 0 .. Pages - 1], DirectoryPage!GoTo(u)
    PROVE  DirectoryInv'
<1>1. /\ u \in DirectoryPage!States /\ moves < MaxMoves /\ moves' = moves + 1
      /\ {url, synced, filters, settled, wish} \subseteq DirectoryPage!States
      /\ ticking \in BOOLEAN /\ NoUrl \notin DirectoryPage!States /\ unheard \in BOOLEAN
  BY DEF DirectoryPage!GoTo, DirectoryInv, DirectoryPage!TypeOK, DirectoryPage!DirectoryAssumption,
     DirectoryPage!States
<1>2. /\ url' = u /\ filters' = (IF synced = u THEN filters ELSE u)
      /\ ticking' = (ticking \/ synced # u) /\ synced' = settled
      /\ leaving' = IF u = settled THEN NoUrl ELSE settled
      /\ wish' = u /\ unheard' = (synced = u)
      /\ echoes' = IF u = settled THEN 0 ELSE 1
      /\ UNCHANGED <<settled, loaded, fetching>>
  BY DEF DirectoryPage!GoTo, DirectoryPage!AddressIs, DirectoryPage!queryVars
<1>3. LoopsJoin'
  BY <1>1, <1>2 DEF DirectoryInv, LoopsJoin
<1>4. EchoesBounded'
  BY <1>1, <1>2 DEF EchoesBounded, TimerToEnd, ToSendBack
<1>5. FetchesFit'
  BY <1>2 DEF DirectoryInv, FetchesFit
<1>6. moves' \in 0 .. MaxMoves
  BY <1>1 DEF DirectoryInv, DirectoryPage!TypeOK, DirectoryPage!DirectoryAssumption
<1>7. DirectoryPage!TypeOK'
  BY <1>1, <1>2, <1>6 DEF DirectoryInv, DirectoryPage!TypeOK, DirectoryPage!States
<1> QED
  BY <1>3, <1>4, <1>5, <1>7 DEF DirectoryInv

\* The timer ends.
LEMMA DebounceStep ==
    ASSUME DirectoryPage!DirectoryAssumption, DirectoryInv, DirectoryPage!DebounceEnds
    PROVE  DirectoryInv'
<1>1. /\ {url, synced, filters, settled, wish} \subseteq DirectoryPage!States
      /\ echoes \in 0 .. 4 /\ NoUrl \notin DirectoryPage!States /\ loaded \in [Searches -> 0 .. Pages]
      /\ fetching \in [Searches -> {"idle", "first", "next", "failed", "again"}]
  BY DEF DirectoryInv, DirectoryPage!TypeOK, DirectoryPage!DirectoryAssumption, DirectoryPage!States
<1>2. /\ ticking /\ ticking' = FALSE /\ settled' = filters
      /\ IF url = filters
         THEN UNCHANGED <<synced, leaving, echoes>>
         ELSE synced' = filters /\ leaving' = filters /\ echoes' = DirectoryPage!Counted(echoes)
      /\ DirectoryPage!Watch(filters, loaded, fetching)
      /\ UNCHANGED <<url, filters, wish, unheard, loaded, moves>>
  BY DEF DirectoryPage!DebounceEnds
<1>3. DirectoryPage!Counted(echoes) \in 0 .. 4 /\ DirectoryPage!Counted(echoes) <= echoes + 1
  BY <1>1, CountedFacts
<1>4. /\ fetching' \in [Searches -> {"idle", "first", "next", "failed", "again"}]
      /\ \A s \in Searches : /\ fetching'[s] = "first" => loaded[s] = 0
                             /\ fetching'[s] = "next"  => loaded[s] \in 1 .. Pages - 1
      /\ fetching'[filters.search] = "idle"
         => loaded[filters.search] > 0
            /\ (loaded[filters.search] = Pages \/ loaded[filters.search] >= filters.page + 1)
  BY <1>1, <1>2, ObservedFacts DEF DirectoryInv, FetchesFit
<1>5. LoopsJoin'
  BY <1>1, <1>2 DEF DirectoryInv, LoopsJoin
<1>6. EchoesBounded'
  BY <1>1, <1>2, <1>3 DEF DirectoryInv, EchoesBounded, TimerToEnd, ToSendBack
<1>7. FetchesFit'
  BY <1>2, <1>4 DEF FetchesFit
<1>8. DirectoryPage!TypeOK'
  BY <1>1, <1>2, <1>3, <1>4 DEF DirectoryInv, DirectoryPage!TypeOK, DirectoryPage!States
<1> QED
  BY <1>5, <1>6, <1>7, <1>8 DEF DirectoryInv

-----------------------------------------------------------------------------
(* The theorems *)

(* The directory page never leaves its invariant. *)
THEOREM DirectoryInvariant == Spec => []DirectoryInv
<1>0. DirectoryPage!DirectoryAssumption
  BY MemberAssumption
<1>1. DirectoryPage!Init => DirectoryInv
  BY <1>0, DirectoryInit
<1>2. DirectoryInv /\ [DirectoryPage!Next]_DirectoryPage!directoryVars => DirectoryInv'
  <2> SUFFICES ASSUME DirectoryInv, [DirectoryPage!Next]_DirectoryPage!directoryVars PROVE DirectoryInv'
    OBVIOUS
  <2>1. CASE DirectoryPage!Next
    BY <1>0, <2>1, FetchStep, RefetchStep, UpdateStep, LoadMoreStep, ReplaceStep, GoToStep, DebounceStep
    DEF DirectoryPage!Next
  <2>2. CASE UNCHANGED DirectoryPage!directoryVars
    BY <2>2 DEF DirectoryInv, DirectoryPage!TypeOK, LoopsJoin, EchoesBounded, TimerToEnd, ToSendBack, FetchesFit,
       DirectoryPage!States, DirectoryPage!directoryVars, DirectoryPage!browserVars, DirectoryPage!filterVars,
       DirectoryPage!queryVars
  <2> QED
    BY <2>1, <2>2
<1> QED
  BY <1>1, <1>2, PartsBehave, PTL DEF DirectoryPage!Spec

(* At rest the address, the inputs and the list show what the user last asked for. *)
THEOREM LastWishWinsHolds == Spec => []LastWishWins
<1>1. DirectoryInv => LastWishWins
  BY DEF DirectoryInv, LoopsJoin, LastWishWins, DirectoryPage!LastWishWins, DirectoryPage!Quiet
<1> QED
  BY <1>1, DirectoryInvariant, PTL

(* One action of the user is followed by at most two replacements of the address. *)
THEOREM NoPingPongHolds == Spec => []NoPingPong
<1>1. DirectoryInv => NoPingPong
  BY DEF DirectoryInv, EchoesBounded, TimerToEnd, ToSendBack, NoPingPong, DirectoryPage!NoPingPong,
     DirectoryPage!TypeOK
<1> QED
  BY <1>1, DirectoryInvariant, PTL

(* At rest the page that the filters name is loaded, or the search has no more. *)
THEOREM WantedPagesArriveHolds == Spec => []WantedPagesArrive
<1>1. DirectoryInv => WantedPagesArrive
  <2> SUFFICES ASSUME DirectoryInv, fetching[settled.search] = "idle"
               PROVE  DirectoryPage!visiblePages
                        = IF DirectoryPage!desiredPageCount < Pages THEN DirectoryPage!desiredPageCount ELSE Pages
    BY DEF WantedPagesArrive, DirectoryPage!WantedPagesArrive
  <2>1. /\ loaded[settled.search] \in 0 .. Pages /\ settled.page \in 0 .. Pages /\ Pages \in Nat
        /\ loaded[settled.search] = Pages \/ loaded[settled.search] >= settled.page + 1
    BY MemberAssumption DEF DirectoryInv, FetchesFit, DirectoryPage!TypeOK, DirectoryPage!States,
       DirectoryPage!DirectoryAssumption
  <2> QED
    BY <2>1 DEF DirectoryPage!visiblePages, DirectoryPage!desiredPageCount
<1> QED
  BY <1>1, DirectoryInvariant, PTL

-----------------------------------------------------------------------------
(* Removing an image from a list *)

(* Induction over the naturals, for a set. *)
LEMMA NatSetInduction ==
    ASSUME NEW S \in SUBSET Nat, 0 \in S, \A n \in S : n + 1 \in S
    PROVE  S = Nat
<1> SUFFICES ASSUME S # Nat PROVE FALSE
  OBVIOUS
<1>1. PICK x \in Nat \ S : \A y \in Nat \ S : ~(<<y, x>> \in OpToRel(<, Nat))
  BY NatLessThanWellFounded, WFMin
<1>2. x - 1 \in Nat /\ x - 1 < x
  <2>1. x # 0
    OBVIOUS
  <2> QED
    BY <2>1
<1>3. x - 1 \in S
  BY <1>1, <1>2 DEF OpToRel
<1>4. (x - 1) + 1 = x
  OBVIOUS
<1> QED
  BY <1>3, <1>4

(* What is left is a list of the same elements; nothing is left of nothing. *)
LEMMA WithoutType ==
    ASSUME NEW T, NEW s \in Seq(T), NEW x
    PROVE  /\ PostPages!Without(s, x) \in Seq(T)
           /\ s = <<>> => PostPages!Without(s, x) = <<>>
<1> DEFINE After(f, n) == IF n = 0 THEN <<>>
                          ELSE IF s[n] = x THEN f[n - 1]
                          ELSE Append(f[n - 1], s[n])
           Good(m, f) == f = [n \in 0 .. m |-> After(f, n)]
           kept == CHOOSE f : Good(Len(s), f)
<1>0. Len(s) \in Nat /\ \A n \in 1 .. Len(s) : s[n] \in T
  OBVIOUS
<1>1. \A m \in Nat : \E f : Good(m, f)
  <2> DEFINE S == {m \in Nat : \E f : Good(m, f)}
  <2>1. 0 \in S
    <3>1. Good(0, [n \in 0 .. 0 |-> <<>>])
      OBVIOUS
    <3> QED
      BY <3>1
  <2>2. ASSUME NEW m \in S PROVE m + 1 \in S
    <3>1. PICK f : Good(m, f)
      BY <2>2
    <3> DEFINE g == [n \in 0 .. m + 1 |-> After(f, n)]
    <3> HIDE DEF After
    <3>2. \A n \in 0 .. m : f[n] = After(f, n)
      BY <3>1
    <3>3. \A n \in 0 .. m : g[n] = f[n]
      BY <3>2
    <3>4. ASSUME NEW n \in 0 .. m + 1 PROVE After(g, n) = After(f, n)
      <4>1. CASE n = 0
        BY <4>1 DEF After
      <4>2. CASE n # 0
        <5>1. n - 1 \in 0 .. m
          BY <4>2
        <5>2. g[n - 1] = f[n - 1]
          BY <3>3, <5>1
        <5> QED
          BY <4>2, <5>2 DEF After
      <4> QED
        BY <4>1, <4>2
    <3>5. Good(m + 1, g)
      BY <3>4
    <3> QED
      BY <3>5
  <2>3. S \in SUBSET Nat
    OBVIOUS
  <2>4. S = Nat
    <3> HIDE DEF S
    <3> QED
      BY <2>1, <2>2, <2>3, NatSetInduction
  <2> QED
    BY <2>4
<1>2. Good(Len(s), kept)
  BY <1>0, <1>1
<1>3. PostPages!Without(s, x) = kept[Len(s)]
  BY DEF PostPages!Without
<1>4. \A n \in 0 .. Len(s) : kept[n] = After(kept, n)
  <2> HIDE DEF kept, After
  <2> QED
    BY <1>2
<1> HIDE DEF kept
<1>5. kept[0] = <<>>
  <2>1. kept[0] = After(kept, 0)
    BY <1>0, <1>4
  <2> QED
    BY <2>1
<1>6. \A m \in Nat : m <= Len(s) => kept[m] \in Seq(T)
  <2> DEFINE S == {m \in Nat : m <= Len(s) => kept[m] \in Seq(T)}
  <2>1. 0 \in S
    <3>1. kept[0] \in Seq(T)
      BY <1>5, EmptySeq
    <3> QED
      BY <3>1
  <2>2. ASSUME NEW m \in S PROVE m + 1 \in S
    <3> SUFFICES ASSUME m + 1 <= Len(s) PROVE kept[m + 1] \in Seq(T)
      OBVIOUS
    <3>1. m \in Nat /\ m + 1 \in 1 .. Len(s) /\ m + 1 \in 0 .. Len(s) /\ m + 1 # 0 /\ (m + 1) - 1 = m
      BY <1>0, <2>2
    <3>2. kept[m] \in Seq(T)
      BY <1>0, <2>2, <3>1
    <3>3. kept[m + 1] = After(kept, m + 1)
      BY <1>4, <3>1
    <3>4. s[m + 1] \in T
      BY <1>0, <3>1
    <3> QED
      BY <3>1, <3>2, <3>3, <3>4
  <2>3. S \in SUBSET Nat
    OBVIOUS
  <2>4. S = Nat
    <3> HIDE DEF S
    <3> QED
      BY <2>1, <2>2, <2>3, NatSetInduction
  <2> QED
    BY <2>4
<1>7. s = <<>> => Len(s) = 0
  OBVIOUS
<1> QED
  BY <1>0, <1>3, <1>5, <1>6, <1>7

-----------------------------------------------------------------------------
(* The pages on which a post is written *)

(* The publication on the form is the one it was seeded with until the switch is used, and
   a request made from such a form leaves it alone. *)
PublicationAsSeeded ==
  /\ page.open /\ ~form.asked => form.published = cached.published
  /\ PostPages!Editing /\ save.status = "sent" /\ ~save.form.asked => save.publish = "keep"

EditorInv == PostPages!TypeOK /\ PublicationAsSeeded

LEMMA NoRowType == PostPages!NoRow \in PostPages!Rows /\ PostPages!Seed(PostPages!NoRow) \in PostPages!Forms
BY EmptySeq DEF PostPages!NoRow, PostPages!Rows, PostPages!Texts, PostPages!Seed, PostPages!Forms

LEMMA SeedType == ASSUME NEW r \in PostPages!Rows PROVE PostPages!Seed(r) \in PostPages!Forms
BY DEF PostPages!Rows, PostPages!Seed, PostPages!Forms

LEMMA EditorInit == ASSUME PostPages!EditorAssumption, PostPages!Init PROVE EditorInv
<1> USE DEF PostPages!EditorAssumption
<1>1. ASSUME NEW kind \in PostPages!Kinds, NEW manager \in BOOLEAN, NEW board \in BOOLEAN,
             NEW r \in PostPages!Rows, PostPages!Mount(kind, manager, board, r)
      PROVE  EditorInv
  <2> USE DEF PostPages!Init, PostPages!Mount
  <2>1. form \in PostPages!Forms
    BY <1>1, SeedType
  <2>2. page \in [kind : PostPages!Kinds, manager : BOOLEAN, board : BOOLEAN, open : BOOLEAN]
    BY <1>1
  <2>3. budget \in [saves : 0 .. MaxSaves, fetches : 0 .. MaxFetches, others : 0 .. MaxOthers]
    OBVIOUS
  <2>4. PostPages!TypeOK
    BY <1>1, <2>1, <2>2, <2>3 DEF PostPages!TypeOK
  <2>5. PublicationAsSeeded
    BY <1>1 DEF PublicationAsSeeded, PostPages!Seed
  <2> QED
    BY <2>4, <2>5 DEF EditorInv
<1>2. CASE \E board \in BOOLEAN :
             PostPages!Mount(IF board THEN "boardNew" ELSE "new", ~board, board, PostPages!NoRow)
  <2>1. PICK board \in BOOLEAN :
             PostPages!Mount(IF board THEN "boardNew" ELSE "new", ~board, board, PostPages!NoRow)
    BY <1>2
  <2>2. (IF board THEN "boardNew" ELSE "new") \in PostPages!Kinds
    BY DEF PostPages!Kinds
  <2> QED
    BY <1>1, <2>1, <2>2, NoRowType
<1>3. ASSUME NEW manager \in BOOLEAN, NEW board \in BOOLEAN, NEW published \in BOOLEAN,
             NEW cover \in Images \cup {NoImage}, NEW images \in {<<>>, <<CHOOSE i \in Images : TRUE>>},
             PostPages!Mount("edit", manager, board,
               [text |-> "old", cover |-> cover, images |-> images,
                published |-> published /\ ~board])
      PROVE  EditorInv
  <2> DEFINE r == [text |-> "old", cover |-> cover, images |-> images,
                   published |-> published /\ ~board]
  <2>1. (CHOOSE i \in Images : TRUE) \in Images
    OBVIOUS
  <2>2. images \in Seq(Images)
    <3>1. CASE images = <<>>
      BY <3>1
    <3>2. CASE images = <<CHOOSE i \in Images : TRUE>>
      BY <2>1, <3>2
    <3> QED
      BY <3>1, <3>2
  <2>3. r \in PostPages!Rows
    BY <2>2 DEF PostPages!Rows, PostPages!Texts
  <2>4. "edit" \in PostPages!Kinds
    BY DEF PostPages!Kinds
  <2> HIDE DEF r
  <2>5. PostPages!Mount("edit", manager, board, r)
    BY <1>3 DEF r
  <2> QED
    BY <1>1, <2>3, <2>4, <2>5
<1> QED
  BY <1>2, <1>3 DEF PostPages!Init

(* Every image that is shown is an image. *)
LEMMA ShownType ==
    ASSUME PostPages!TypeOK, NEW i \in PostPages!ToSet(PostPages!AllImages(form.cover, form.images))
    PROVE  i \in Images
<1>1. form.cover \in Images \cup {NoImage} /\ form.images \in Seq(Images)
  BY DEF PostPages!TypeOK, PostPages!Forms
<1>2. PostPages!AllImages(form.cover, form.images) \in Seq(Images)
  <2>1. CASE form.cover = NoImage
    BY <1>1, <2>1 DEF PostPages!AllImages
  <2>2. CASE form.cover # NoImage
    <3>1. <<form.cover>> \in Seq(Images) /\ PostPages!Without(form.images, form.cover) \in Seq(Images)
      BY <1>1, <2>2, WithoutType
    <3> QED
      BY <2>2, <3>1, ConcatProperties DEF PostPages!AllImages
  <2> QED
    BY <2>1, <2>2
<1> QED
  BY <1>2 DEF PostPages!ToSet

\* A step after which only some parts of the state differ keeps the type of the whole if
\* each part that differs has its type.
LEMMA EditorTypeStep ==
    ASSUME PostPages!EditorAssumption, PostPages!TypeOK, PostPages!Next
    PROVE  PostPages!TypeOK'
<1> DEFINE Saves == /\ save.status \in {"idle", "sent", "served", "refused", "leaving"}
                    /\ save.status = "sent" => /\ save.form \in PostPages!Forms
                                               /\ save.publish \in {"none", "now", "keep"}
           Budgets == [saves : 0 .. MaxSaves, fetches : 0 .. MaxFetches, others : 0 .. MaxOthers]
           Mounted == [kind : PostPages!Kinds, manager : BOOLEAN, board : BOOLEAN, open : BOOLEAN]
<1>0. PostPages!TypeOK <=> /\ page \in Mounted /\ budget \in Budgets /\ Saves
                           /\ post \in PostPages!Rows /\ cached \in PostPages!Rows /\ fetched \subseteq PostPages!Rows
                           /\ form \in PostPages!Forms /\ uploads \subseteq PostPages!Held
  BY DEF PostPages!TypeOK
<1>00. PostPages!TypeOK' <=> /\ page' \in Mounted /\ budget' \in Budgets /\ Saves'
                             /\ post' \in PostPages!Rows /\ cached' \in PostPages!Rows /\ fetched' \subseteq PostPages!Rows
                             /\ form' \in PostPages!Forms /\ uploads' \subseteq PostPages!Held
  BY DEF PostPages!TypeOK
<1>001. ASSUME UNCHANGED save PROVE Saves'
  BY <1>0, <1>001
<1>b. /\ budget.saves > 0 => [budget EXCEPT !.saves = @ - 1] \in Budgets
      /\ budget.fetches > 0 => [budget EXCEPT !.fetches = @ - 1] \in Budgets
      /\ budget.others > 0 => [budget EXCEPT !.others = @ - 1] \in Budgets
  BY <1>0 DEF PostPages!EditorAssumption
<1> HIDE DEF Saves, Budgets, Mounted
<1>1. CASE PostPages!OtherSession
  <2>1. PICK b \in BOOLEAN : post' = [post EXCEPT !.text = "foreign", !.published = b]
    BY <1>1 DEF PostPages!OtherSession
  <2>2. post' \in PostPages!Rows
    BY <1>0, <2>1 DEF PostPages!Rows, PostPages!Texts
  <2> QED
    BY <1>0, <1>00, <1>001, <1>b, <1>1, <2>2 DEF PostPages!OtherSession
<1>2. CASE PostPages!Refetch
  BY <1>0, <1>00, <1>001, <1>b, <1>2 DEF PostPages!Refetch
<1>3. CASE PostPages!FetchAnswered
  <2>1. PICK r \in fetched : /\ cached' = r /\ form' \in {form, PostPages!Seed(r)} /\ fetched' = {}
    BY <1>3 DEF PostPages!FetchAnswered
  <2>2. r \in PostPages!Rows /\ form' \in PostPages!Forms
    BY <1>0, <2>1, SeedType
  <2> QED
    BY <1>0, <1>00, <1>001, <1>3, <2>1, <2>2 DEF PostPages!FetchAnswered
<1>4. CASE PostPages!EditText
  <2>1. form' \in PostPages!Forms
    BY <1>0, <1>4 DEF PostPages!EditText, PostPages!Forms, PostPages!Texts
  <2> QED
    BY <1>0, <1>00, <1>001, <1>4, <2>1 DEF PostPages!EditText
<1>5. CASE PostPages!SetPublished
  <2>1. form' \in PostPages!Forms
    <3>1. form' = [form EXCEPT !.published = ~form.published, !.asked = TRUE]
      BY <1>5 DEF PostPages!SetPublished
    <3>2. (~form.published) \in BOOLEAN
      OBVIOUS
    <3> QED
      BY <1>0, <3>1, <3>2 DEF PostPages!Forms
  <2> QED
    BY <1>0, <1>00, <1>001, <1>5, <2>1 DEF PostPages!SetPublished
<1>6. CASE PostPages!StartUpload
  <2> DEFINE fresh == CHOOSE x \in Images : PostPages!Fresh(x)
  <2>1. fresh \in Images
    BY <1>6 DEF PostPages!StartUpload
  <2>2. form.cover \in Images \cup {NoImage} /\ form.images \in Seq(Images)
    BY <1>0 DEF PostPages!Forms
  <2>3. uploads' = uploads \cup {[url |-> fresh, cover |-> form.cover, images |-> form.images]}
    BY <1>6 DEF PostPages!StartUpload
  <2> HIDE DEF fresh
  <2>4. [url |-> fresh, cover |-> form.cover, images |-> form.images] \in PostPages!Held
    BY <2>1, <2>2 DEF PostPages!Held
  <2>5. uploads' \subseteq PostPages!Held
    BY <1>0, <2>3, <2>4
  <2> QED
    BY <1>0, <1>00, <1>001, <1>6, <2>5 DEF PostPages!StartUpload
<1>7. ASSUME NEW u \in uploads, PostPages!Uploaded(u) \/ PostPages!UploadFailed(u) PROVE PostPages!TypeOK'
  <2>1. u.url \in Images /\ u.images \in Seq(Images)
    BY <1>0 DEF PostPages!Held
  <2>2. Append(u.images, u.url) \in Seq(Images) /\ <<u.url>> \in Seq(Images)
    BY <2>1, AppendProperties
  <2>3. \/ UNCHANGED form
        \/ form' = [form EXCEPT !.cover = u.url]
        \/ form' = [form EXCEPT !.cover = u.url, !.images = <<u.url>>]
        \/ form' = [form EXCEPT !.images = Append(u.images, u.url)]
    BY <1>7 DEF PostPages!Uploaded, PostPages!UploadFailed
  <2>4. form' \in PostPages!Forms
    <3>1. CASE UNCHANGED form
      BY <1>0, <3>1
    <3>2. CASE form' = [form EXCEPT !.cover = u.url]
      BY <1>0, <2>1, <3>2 DEF PostPages!Forms
    <3>3. CASE form' = [form EXCEPT !.cover = u.url, !.images = <<u.url>>]
      BY <1>0, <2>1, <2>2, <3>3 DEF PostPages!Forms
    <3>4. CASE form' = [form EXCEPT !.images = Append(u.images, u.url)]
      BY <1>0, <2>2, <3>4 DEF PostPages!Forms
    <3> QED
      BY <2>3, <3>1, <3>2, <3>3, <3>4
  <2>5. uploads' \subseteq PostPages!Held
    BY <1>0, <1>7 DEF PostPages!Uploaded, PostPages!UploadFailed
  <2> QED
    BY <1>0, <1>00, <1>001, <1>7, <2>4, <2>5 DEF PostPages!Uploaded, PostPages!UploadFailed
<1>8. ASSUME NEW i \in Images, PostPages!SetMain(i) PROVE PostPages!TypeOK'
  <2>1. form' \in PostPages!Forms
    BY <1>0, <1>8 DEF PostPages!SetMain, PostPages!Forms
  <2> QED
    BY <1>0, <1>00, <1>001, <1>8, <2>1 DEF PostPages!SetMain
<1>9. ASSUME NEW i \in Images, PostPages!RemoveImage(i) PROVE PostPages!TypeOK'
  <2> DEFINE rest == PostPages!Without(form.images, i)
  <2>1. rest \in Seq(Images)
    BY <1>0, WithoutType DEF PostPages!Forms
  <2>2. rest # <<>> => Head(rest) \in Images
    BY <2>1
  <2>3. form' = [form EXCEPT !.images = rest,
                   !.cover = IF @ # i THEN @ ELSE IF rest = <<>> THEN NoImage ELSE Head(rest)]
    BY <1>9 DEF PostPages!RemoveImage
  <2> HIDE DEF rest
  <2>4. form' \in PostPages!Forms
    BY <1>0, <2>1, <2>2, <2>3 DEF PostPages!Forms
  <2> QED
    BY <1>0, <1>00, <1>001, <1>9, <2>4 DEF PostPages!RemoveImage
<1>10. CASE PostPages!Submit
  <2>1. PostPages!Publication \in {"none", "now", "keep"}
    BY DEF PostPages!Publication
  <2>2. Saves'
    BY <1>0, <1>10, <2>1 DEF PostPages!Submit, Saves
  <2> QED
    BY <1>0, <1>00, <1>b, <1>10, <2>2 DEF PostPages!Submit
<1>11. CASE PostPages!SaveServed
  <2>1. save.form \in PostPages!Forms /\ save'.status = "served"
    BY <1>0, <1>11 DEF PostPages!SaveServed, Saves
  <2>2. PICK b \in BOOLEAN : post' = [post EXCEPT !.text = save.form.text, !.cover = save.form.cover,
                                        !.images = save.form.images, !.published = b]
    <3>1. post.published \in BOOLEAN
      BY <1>0 DEF PostPages!Rows
    <3> DEFINE b == CASE save.publish = "now" -> TRUE
                      [] save.publish = "none" -> FALSE
                      [] OTHER -> post.published
    <3>2. b \in BOOLEAN
      BY <3>1
    <3>3. post' = [post EXCEPT !.text = save.form.text, !.cover = save.form.cover,
                     !.images = save.form.images, !.published = b]
      BY <1>11 DEF PostPages!SaveServed
    <3> QED
      BY <3>2, <3>3
  <2>3. post' \in PostPages!Rows
    BY <1>0, <2>1, <2>2 DEF PostPages!Rows, PostPages!Forms
  <2>4. Saves'
    BY <2>1 DEF Saves
  <2> QED
    BY <1>0, <1>00, <1>11, <2>3, <2>4 DEF PostPages!SaveServed
<1>12. CASE PostPages!SaveRefused \/ PostPages!SaveError
  <2>1. Saves'
    BY <1>12 DEF PostPages!SaveRefused, PostPages!SaveError, Saves
  <2> QED
    BY <1>0, <1>00, <1>12, <2>1 DEF PostPages!SaveRefused, PostPages!SaveError
<1>13. CASE PostPages!SaveAnswered
  <2>1. Saves'
    BY <1>13 DEF PostPages!SaveAnswered, Saves
  <2>2. fetched' \subseteq PostPages!Rows
    BY <1>0, <1>13 DEF PostPages!SaveAnswered
  <2> QED
    BY <1>0, <1>00, <1>13, <2>1, <2>2 DEF PostPages!SaveAnswered
<1>14. CASE PostPages!Leave
  <2>1. page' \in Mounted
    BY <1>0, <1>14 DEF PostPages!Leave, Mounted
  <2>2. cached' \in PostPages!Rows /\ form' \in PostPages!Forms
    BY <1>14, NoRowType DEF PostPages!Leave
  <2> QED
    BY <1>0, <1>00, <1>001, <1>14, <2>1, <2>2 DEF PostPages!Leave
<1> QED
  BY <1>1, <1>2, <1>3, <1>4, <1>5, <1>6, <1>7, <1>8, <1>9, <1>10, <1>11, <1>12, <1>13, <1>14, ShownType
  DEF PostPages!Next

\* Only a fetched row changes what the form is seeded from, and only the switch and a new
\* seed change the publication on the form.
LEMMA PublicationStep ==
    ASSUME PostPages!TypeOK, PublicationAsSeeded, PostPages!Next
    PROVE  PublicationAsSeeded'
<1>1. CASE PostPages!OtherSession \/ PostPages!Refetch \/ PostPages!StartUpload
  BY <1>1 DEF PublicationAsSeeded, PostPages!Editing, PostPages!OtherSession, PostPages!Refetch,
     PostPages!StartUpload
<1>2. CASE PostPages!FetchAnswered
  <2>1. PICK r \in fetched : /\ cached' = r /\ form' = IF r = cached THEN form ELSE PostPages!Seed(r)
                             /\ UNCHANGED <<page, save>>
    BY <1>2 DEF PostPages!FetchAnswered
  <2> QED
    BY <2>1 DEF PublicationAsSeeded, PostPages!Editing, PostPages!Seed
<1>3. CASE PostPages!EditText \/ PostPages!SetPublished
  <2>1. /\ ~form'.asked => ~form.asked /\ form'.published = form.published
        /\ UNCHANGED <<page, cached, save>>
    BY <1>3 DEF PostPages!EditText, PostPages!SetPublished, PostPages!TypeOK, PostPages!Forms
  <2> QED
    BY <2>1 DEF PublicationAsSeeded, PostPages!Editing
<1>4. ASSUME NEW u \in uploads, PostPages!Uploaded(u) \/ PostPages!UploadFailed(u)
      PROVE  PublicationAsSeeded'
  <2>1. /\ form'.published = form.published /\ form'.asked = form.asked
        /\ UNCHANGED <<page, cached, save>>
    BY <1>4 DEF PostPages!Uploaded, PostPages!UploadFailed, PostPages!TypeOK, PostPages!Forms
  <2> QED
    BY <2>1 DEF PublicationAsSeeded, PostPages!Editing
<1>5. ASSUME NEW i \in Images, PostPages!SetMain(i) \/ PostPages!RemoveImage(i)
      PROVE  PublicationAsSeeded'
  <2>1. /\ form'.published = form.published /\ form'.asked = form.asked
        /\ UNCHANGED <<page, cached, save>>
    BY <1>5 DEF PostPages!SetMain, PostPages!RemoveImage, PostPages!TypeOK, PostPages!Forms
  <2> QED
    BY <2>1 DEF PublicationAsSeeded, PostPages!Editing
<1>6. CASE PostPages!Submit
  <2>1. /\ save' = [status |-> "sent", form |-> form, publish |-> PostPages!Publication]
        /\ page.open /\ UNCHANGED <<page, cached, form>>
    BY <1>6 DEF PostPages!Submit, PostPages!CanSubmit
  <2>2. form.published \in BOOLEAN /\ cached.published \in BOOLEAN
    BY DEF PostPages!TypeOK, PostPages!Forms, PostPages!Rows
  <2>3. PostPages!Editing /\ ~form.asked => PostPages!Publication = "keep"
    BY <2>1, <2>2 DEF PostPages!Publication, PostPages!Editing, PublicationAsSeeded
  <2> QED
    BY <2>1, <2>3 DEF PublicationAsSeeded, PostPages!Editing
<1>7. CASE PostPages!SaveServed \/ PostPages!SaveRefused \/ PostPages!SaveAnswered \/ PostPages!SaveError
  <2>1. save'.status # "sent" /\ UNCHANGED <<page, cached, form>>
    BY <1>7 DEF PostPages!SaveServed, PostPages!SaveRefused, PostPages!SaveAnswered, PostPages!SaveError
  <2> QED
    BY <2>1 DEF PublicationAsSeeded
<1>8. CASE PostPages!Leave
  <2>1. ~page'.open /\ page'.kind = page.kind /\ UNCHANGED save
    BY <1>8 DEF PostPages!Leave
  <2> QED
    BY <2>1 DEF PublicationAsSeeded, PostPages!Editing
<1> QED
  BY <1>1, <1>2, <1>3, <1>4, <1>5, <1>6, <1>7, <1>8, ShownType DEF PostPages!Next

(* The inductive invariant holds of every reachable state. *)
THEOREM EditorInvariant == Spec => []EditorInv
<1>1. PostPages!Init => EditorInv
  BY MemberAssumption, EditorInit
<1>2. EditorInv /\ [PostPages!Next]_PostPages!editorVars => EditorInv'
  <2> SUFFICES ASSUME EditorInv, [PostPages!Next]_PostPages!editorVars PROVE EditorInv'
    OBVIOUS
  <2>1. CASE PostPages!Next
    BY <2>1, MemberAssumption, EditorTypeStep, PublicationStep DEF EditorInv
  <2>2. CASE UNCHANGED PostPages!editorVars
    BY <2>2 DEF EditorInv, PostPages!TypeOK, PublicationAsSeeded, PostPages!Editing, PostPages!editorVars
  <2> QED
    BY <2>1, <2>2
<1> QED
  BY <1>1, <1>2, PartsBehave, PTL DEF PostPages!Spec

\* What an upload leaves in a form that had a cover, or no images.
LEMMA UploadedCover ==
    ASSUME PostPages!EditorAssumption, PostPages!TypeOK, NEW u \in uploads, PostPages!Uploaded(u),
           ~PostPages!Uncovered(form), PostPages!Uncovered(form')
    PROVE  /\ PostPages!AllImages(u.cover, u.images) # <<>>
           /\ PostPages!AllImages(form.cover, form.images) = <<>>
           /\ form'.images = Append(u.images, u.url)
<1>1. /\ u.url \in Images /\ u.url # NoImage
      /\ u.cover \in Images \cup {NoImage} /\ u.images \in Seq(Images)
  BY DEF PostPages!TypeOK, PostPages!Held, PostPages!EditorAssumption
<1>2. form'.cover # u.url
  BY <1>1 DEF PostPages!Uncovered
<1>3. /\ form' = [form EXCEPT !.images = Append(u.images, u.url)]
      /\ ~(u.cover = NoImage /\ u.images = <<>>)
  BY <1>2 DEF PostPages!Uploaded, PostPages!TypeOK, PostPages!Forms
<1>4. form'.images = Append(u.images, u.url) /\ form'.cover = form.cover
  BY <1>3 DEF PostPages!TypeOK, PostPages!Forms
<1>5. form.cover = NoImage /\ form.images = <<>>
  BY <1>4 DEF PostPages!Uncovered
<1>6. PostPages!AllImages(u.cover, u.images) # <<>>
  <2>1. CASE u.cover = NoImage
    BY <1>3, <2>1 DEF PostPages!AllImages
  <2>2. CASE u.cover # NoImage
    <3>1. <<u.cover>> \in Seq(Images) /\ PostPages!Without(u.images, u.cover) \in Seq(Images)
      BY <1>1, <2>2, WithoutType
    <3>2. Len(<<u.cover>> \o PostPages!Without(u.images, u.cover))
          = Len(<<u.cover>>) + Len(PostPages!Without(u.images, u.cover))
      BY <3>1, ConcatProperties
    <3>3. Len(<<u.cover>>) = 1 /\ Len(PostPages!Without(u.images, u.cover)) \in Nat
      BY <3>1, LenProperties
    <3>4. Len(<<u.cover>> \o PostPages!Without(u.images, u.cover)) # 0
      BY <3>2, <3>3
    <3> QED
      BY <2>2, <3>4 DEF PostPages!AllImages
  <2> QED
    BY <2>1, <2>2
<1> QED
  BY <1>4, <1>5, <1>6 DEF PostPages!AllImages

\* A removed cover is replaced by the first of the images left.
LEMMA RemovedCover ==
    ASSUME PostPages!EditorAssumption, PostPages!TypeOK, NEW i \in Images,
           PostPages!SetMain(i) \/ PostPages!RemoveImage(i), ~PostPages!Uncovered(form)
    PROVE  ~PostPages!Uncovered(form')
<1>1. CASE PostPages!SetMain(i)
  BY <1>1 DEF PostPages!SetMain, PostPages!TypeOK, PostPages!Forms, PostPages!Uncovered,
     PostPages!EditorAssumption
<1>2. CASE PostPages!RemoveImage(i)
  <2> DEFINE rest == PostPages!Without(form.images, i)
  <2>1. form' = [form EXCEPT !.images = rest,
                   !.cover = IF @ # i THEN @ ELSE IF rest = <<>> THEN NoImage ELSE Head(rest)]
    BY <1>2 DEF PostPages!RemoveImage
  <2>2. rest \in Seq(Images) /\ (form.images = <<>> => rest = <<>>)
    BY WithoutType DEF PostPages!TypeOK, PostPages!Forms
  <2> HIDE DEF rest
  <2>3. rest # <<>> => Head(rest) # NoImage
    BY <2>2 DEF PostPages!EditorAssumption
  <2>4. /\ form'.images = rest
        /\ form'.cover = IF form.cover # i THEN form.cover ELSE IF rest = <<>> THEN NoImage ELSE Head(rest)
    BY <2>1 DEF PostPages!TypeOK, PostPages!Forms
  <2> QED
    BY <2>2, <2>3, <2>4 DEF PostPages!Uncovered
<1> QED
  BY <1>1, <1>2

(* A form loses its cover only to a row that has none, or to an upload that outlived the
   images it began beside. *)
THEOREM CoverLostOnlyToStaleUploadHolds == Spec => CoverLostOnlyToStaleUpload
<1>1. EditorInv /\ [PostPages!Next]_PostPages!editorVars => [PostPages!CoverExplained]_PostPages!editorVars
  <2> SUFFICES ASSUME EditorInv, PostPages!Next, ~PostPages!Uncovered(form), PostPages!Uncovered(form')
               PROVE  PostPages!CoverExplained
    BY DEF PostPages!CoverExplained
  <2>0. PostPages!EditorAssumption /\ PostPages!TypeOK
    BY MemberAssumption DEF EditorInv
  <2>1. CASE PostPages!FetchAnswered
    BY <2>1 DEF PostPages!FetchAnswered, PostPages!CoverExplained
  <2>2. ASSUME NEW u \in uploads, PostPages!Uploaded(u) PROVE PostPages!CoverExplained
    BY <2>0, <2>2, UploadedCover DEF PostPages!CoverExplained
  <2>3. ASSUME NEW i \in Images, PostPages!SetMain(i) \/ PostPages!RemoveImage(i) PROVE FALSE
    BY <2>0, <2>3, RemovedCover
  <2>4. CASE PostPages!EditText \/ PostPages!SetPublished
    <3>1. form'.images = form.images /\ form'.cover = form.cover
      BY <2>0, <2>4 DEF PostPages!EditText, PostPages!SetPublished, PostPages!TypeOK, PostPages!Forms
    <3> QED
      BY <3>1 DEF PostPages!Uncovered
  <2>5. CASE PostPages!Leave
    <3>1. form'.images = PostPages!NoRow.images
      BY <2>5 DEF PostPages!Leave, PostPages!Seed
    <3> QED
      BY <3>1 DEF PostPages!NoRow, PostPages!Uncovered
  <2>6. CASE \/ PostPages!OtherSession \/ PostPages!Refetch \/ PostPages!StartUpload \/ PostPages!Submit
             \/ PostPages!SaveServed \/ PostPages!SaveRefused \/ PostPages!SaveAnswered \/ PostPages!SaveError
    <3>1. UNCHANGED form
      BY <2>6 DEF PostPages!OtherSession, PostPages!Refetch, PostPages!StartUpload, PostPages!Submit,
         PostPages!SaveServed, PostPages!SaveRefused, PostPages!SaveAnswered, PostPages!SaveError
    <3> QED
      BY <3>1 DEF PostPages!Uncovered
  <2>7. ASSUME NEW u \in uploads, PostPages!UploadFailed(u) PROVE PostPages!CoverExplained
    <3>1. UNCHANGED form
      BY <2>7 DEF PostPages!UploadFailed
    <3> QED
      BY <3>1 DEF PostPages!Uncovered
  <2> QED
    BY <2>0, <2>1, <2>2, <2>3, <2>4, <2>5, <2>6, <2>7, ShownType DEF PostPages!Next
<1>2. CoverLostOnlyToStaleUpload <=> [][PostPages!CoverExplained]_PostPages!editorVars
  BY PTL DEF CoverLostOnlyToStaleUpload, PostPages!CoverLostOnlyToStaleUpload
<1> QED
  BY <1>1, <1>2, EditorInvariant, PartsBehave, PTL DEF PostPages!Spec

(* A save from a form whose publication was left alone never changes whether the post is
   public, whatever other sessions did to it. *)
THEOREM PublicationOnlyOnRequestHolds == Spec => PublicationOnlyOnRequest
<1> DEFINE OnRequest == PostPages!Editing /\ save.status = "sent" /\ post'.published # post.published
                        => save.form.asked \/ save'.status = "sent"
<1>1. EditorInv /\ [PostPages!Next]_PostPages!editorVars => [OnRequest]_PostPages!editorVars
  <2> SUFFICES ASSUME EditorInv, PostPages!Next, PostPages!Editing, save.status = "sent",
                      post'.published # post.published, ~save.form.asked
               PROVE  save'.status = "sent"
    OBVIOUS
  <2>1. CASE PostPages!SaveServed
    <3>1. save.publish = "keep" /\ post \in PostPages!Rows
      BY DEF EditorInv, PublicationAsSeeded, PostPages!TypeOK
    <3>2. post'.published = post.published
      BY <2>1, <3>1 DEF PostPages!SaveServed, PostPages!Rows
    <3> QED
      BY <3>2
  <2>2. CASE PostPages!OtherSession
    BY <2>2 DEF PostPages!OtherSession
  <2>3. CASE ~PostPages!SaveServed /\ ~PostPages!OtherSession
    <3>1. UNCHANGED post
      BY <2>3 DEF PostPages!Next, PostPages!Refetch, PostPages!FetchAnswered, PostPages!EditText,
         PostPages!SetPublished, PostPages!StartUpload, PostPages!Uploaded, PostPages!UploadFailed,
         PostPages!SetMain, PostPages!RemoveImage, PostPages!Submit, PostPages!SaveRefused,
         PostPages!SaveAnswered, PostPages!SaveError, PostPages!Leave
    <3> QED
      BY <3>1
  <2> QED
    BY <2>1, <2>2, <2>3
<1>2. PublicationOnlyOnRequest <=> [][OnRequest]_PostPages!editorVars
  BY PTL DEF PublicationOnlyOnRequest, PostPages!PublicationOnlyOnRequest
<1> QED
  BY <1>1, <1>2, EditorInvariant, PartsBehave, PTL DEF PostPages!Spec

-----------------------------------------------------------------------------
(* The whole *)

(* Every variable of the members' half keeps its type: the invariants of the seven parts
   hold together. *)
THEOREM TypeCorrect == Spec => []TypeOK
<1>1. Spec => []Rsvps!TypeOK
  <2>1. RsvpProofs!Spec => []RsvpProofs!TypeOK
    BY ServerConstants, RsvpProofs!RsvpTypeCorrect
  <2>2. RsvpProofs!TypeOK => Rsvps!TypeOK
    BY DEF RsvpProofs!TypeOK, RsvpProofs!Status, RsvpProofs!Steps, RsvpProofs!RequestRecords,
       Rsvps!TypeOK, Rsvps!Status, Rsvps!Steps, Rsvps!RequestRecords
  <2> QED
    BY <2>1, <2>2, PartsBehave, SameServer, PTL
<1>2. Spec => []EventPages!PageTypeOK
  <2>1. EventProofs!PageAssumption /\ EventProofs!RsvpParameters
    BY MemberAssumption DEF EventPages!PageAssumption, EventPages!RsvpParameters,
       EventProofs!PageAssumption, EventProofs!RsvpParameters
  <2>2. EventProofs!PageSpec => []EventProofs!PageInv
    BY <2>1, EventProofs!PageInvariant
  <2>3. EventProofs!PageInv => EventPages!PageTypeOK
    BY DEF EventProofs!PageInv, EventProofs!RsvpInv, EventProofs!PanelType, EventProofs!TypeOK,
       EventProofs!Status, EventProofs!Steps, EventProofs!RequestRecords,
       EventPages!PageTypeOK, EventPages!TypeOK, EventPages!Status, EventPages!Steps, EventPages!RequestRecords
  <2> QED
    BY <2>2, <2>3, SamePage, PartsBehave, PTL
<1>3. Init => screen \in Screens
  BY DEF Init
<1>4. screen \in Screens /\ [Next]_vars => (screen \in Screens)'
  BY DEF Next, vars
<1>5. SignupInv /\ ProfileInv /\ ChangesInv /\ DirectoryInv /\ EditorInv
      /\ Rsvps!TypeOK /\ EventPages!PageTypeOK /\ screen \in Screens => TypeOK
  BY DEF SignupInv, ProfileInv, ChangesInv, DirectoryInv, EditorInv, TypeOK
<1> QED
  BY <1>1, <1>2, <1>3, <1>4, <1>5, SignupInvariant, ProfileInvariant, ChangesInvariant,
     DirectoryInvariant, EditorInvariant, PTL DEF Spec
=============================================================================
