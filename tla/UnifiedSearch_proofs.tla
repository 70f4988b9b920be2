------------------------ MODULE UnifiedSearch_proofs ------------------------
(***************************************************************************)
(* Proofs about the search controller, for any categories, terms, numbers  *)
(* of pages and of late answers: typing, that what a category holds        *)
(* answers the running term, that what is awaited comes, that only the     *)
(* timer shows answers out of order, and that the controller implements    *)
(* the abstract list of answers.                                           *)
(***************************************************************************)
EXTENDS UnifiedSearch, FiniteSetTheorems, TLAPS

(***************************************************************************)
(* The inductive invariant. A request of the running search and the state  *)
(* of its category agree: the category loads, and has neither got another  *)
(* page nor changed its list since the request captured them.              *)
(***************************************************************************)
RequestsMatch ==
  \A r \in requests :
     /\ r.generation <= searchGeneration
     /\ Current(r) => /\ r.category \in DOMAIN searchStates
                      /\ r.term = query
                      /\ searchStates[r.category].status = "loading"
                      /\ r.cursor = searchStates[r.category].cursor
                      /\ r.entries = searchStates[r.category].entries

LoadingHasRequest ==
  \A c \in DOMAIN searchStates :
     searchStates[c].status = "loading" => \E r \in requests : Current(r) /\ r.category = c

(* The cursor of a category is the number of the pages it holds, while      *)
(* there are more to come.                                                  *)
CursorAtEnd ==
  \A c \in DOMAIN searchStates :
     LET s == searchStates[c]
     IN /\ Len(s.entries) <= MaxPages
        /\ s.hasMore <=> s.cursor # 0
        /\ s.cursor # 0 => s.cursor = Len(s.entries) /\ s.cursor < MaxPages
        /\ s.cursor = 0 /\ s.status = "loading" => s.entries = <<>>

(* The timer is armed as long as first pages load or are held back. *)
FirstPagesTimed ==
  (\E c \in DOMAIN searchStates : searchStates[c].status = "blocked" \/ FirstPageLoading(c))
     => revealTimer

SearchHasTerm == categories # <<>> => query \in Terms

SearchInv == /\ SearchTypeOK
             /\ SearchHasTerm
             /\ RequestsMatch
             /\ LoadingHasRequest
             /\ CursorAtEnd
             /\ AnswersOfQuery
             /\ FirstPagesTimed

(* The entry of c where a blocked category is revealed, or nothing changes. *)
SameOrRevealed(c) ==
  \/ searchStates'[c] = searchStates[c]
  \/ /\ searchStates[c].status = "blocked"
     /\ searchStates'[c] = [searchStates[c] EXCEPT !.status = "loaded"]

LEMMA InitInv == SearchInit => SearchInv
<1> SUFFICES ASSUME SearchInit PROVE SearchInv
  OBVIOUS
<1> USE DEF SearchInit
<1>1. ElementsOf(categories) = {} /\ DOMAIN searchStates = {}
  BY DEF ElementsOf
<1>2. SearchTypeOK
  <2>1. categories \in CategoryLists
    BY DEF CategoryLists, Distinct
  <2>2. searchStates \in [ElementsOf(categories) -> CategorySearchState]
    BY <1>1
  <2> QED
    BY <2>1, <2>2 DEF SearchTypeOK
<1> QED
  BY <1>1, <1>2 DEF SearchInv, SearchHasTerm, RequestsMatch, LoadingHasRequest,
     CursorAtEnd, AnswersOfQuery, FirstPagesTimed, FirstPageLoading

(***************************************************************************)
(* A new generation: what is in flight of older ones has smaller numbers.  *)
(***************************************************************************)
LEMMA SearchKeeps ==
  ASSUME SearchInv, NEW t \in Terms, NEW cats \in CategoryLists, Search(t, cats)
  PROVE  SearchInv'
<1> USE SearchAssumption
<1> DEFINE Asked(c) == [generation |-> NextGeneration, category |-> c, term |-> t,
                        cursor |-> 0, entries |-> <<>>]
<1>1. PICK late \in SUBSET requests :
        requests' = late \cup {Asked(c) : c \in ElementsOf(cats)}
  BY DEF Search, Late
<1>2. /\ query' = t /\ categories' = cats /\ revealTimer'
      /\ searchStates' = [c \in ElementsOf(cats) |-> Unanswered("loading")]
      /\ searchGeneration \in Nat /\ searchGeneration' = searchGeneration + 1
  BY DEF Search, NextGeneration, SearchInv, SearchTypeOK
<1>3. ElementsOf(cats) \subseteq Categories
  BY DEF ElementsOf, CategoryLists
<1>4. Unanswered("loading") \in CategorySearchState
  BY DEF Unanswered, CategorySearchState, Statuses
<1>5. \A c \in ElementsOf(cats) : Asked(c) \in Request
  BY <1>2, <1>3 DEF Request, NextGeneration
<1>6. requests' \subseteq Request
  BY <1>1, <1>5 DEF SearchInv, SearchTypeOK
<1>7. SearchTypeOK'
  <2>1. searchStates' \in [ElementsOf(categories') -> CategorySearchState]
    BY <1>2, <1>4
  <2>2. revealTimer' \in BOOLEAN
    BY DEF Search
  <2> QED
    BY <1>2, <1>6, <2>1, <2>2 DEF SearchTypeOK, ElementsOf
<1>8. \A r \in requests' : ~ (r.generation <= searchGeneration) =>
         r \in {Asked(c) : c \in ElementsOf(cats)}
  BY <1>1 DEF SearchInv, RequestsMatch
<1>9. \A r \in late : r.generation \in Nat /\ r.generation <= searchGeneration
  BY <1>1 DEF SearchInv, RequestsMatch, SearchTypeOK, Request
<1>10. RequestsMatch'
  <2> SUFFICES ASSUME NEW r \in requests'
               PROVE /\ r.generation <= searchGeneration'
                     /\ Current(r)' => /\ r.category \in DOMAIN searchStates'
                                       /\ r.term = query'
                                       /\ searchStates'[r.category].status = "loading"
                                       /\ r.cursor = searchStates'[r.category].cursor
                                       /\ r.entries = searchStates'[r.category].entries
    BY DEF RequestsMatch
  <2>1. CASE r \in late
    BY <1>2, <1>9, <2>1 DEF Current
  <2>2. ASSUME NEW c \in ElementsOf(cats), r = Asked(c)
        PROVE /\ r.generation <= searchGeneration'
              /\ Current(r)' => /\ r.category \in DOMAIN searchStates'
                                /\ r.term = query'
                                /\ searchStates'[r.category].status = "loading"
                                /\ r.cursor = searchStates'[r.category].cursor
                                /\ r.entries = searchStates'[r.category].entries
    BY <1>2, <2>2 DEF Unanswered, NextGeneration
  <2> QED
    BY <1>1, <2>1, <2>2
<1>11. LoadingHasRequest'
  <2>1. \A c \in ElementsOf(cats) : Asked(c) \in requests' /\ Asked(c).category = c
                                   /\ Asked(c).generation = searchGeneration'
    BY <1>1, <1>2 DEF NextGeneration
  <2>2. DOMAIN searchStates' = ElementsOf(cats)
    BY <1>2
  <2> QED
    BY <2>1, <2>2 DEF LoadingHasRequest, Current
<1>12. CursorAtEnd'
  BY <1>2 DEF CursorAtEnd, Unanswered
<1>13. AnswersOfQuery'
  BY <1>2 DEF AnswersOfQuery, Unanswered
<1>14. FirstPagesTimed' /\ SearchHasTerm'
  BY <1>2 DEF FirstPagesTimed, SearchHasTerm
<1> QED
  BY <1>7, <1>10, <1>11, <1>12, <1>13, <1>14 DEF SearchInv

LEMMA ResetKeeps == SearchInv /\ Reset => SearchInv'
<1> SUFFICES ASSUME SearchInv, Reset PROVE SearchInv'
  OBVIOUS
<1>1. /\ query' = NoTerm /\ categories' = <<>> /\ ~ revealTimer' /\ revealTimer' \in BOOLEAN
      /\ searchStates' = [c \in {} |-> Unanswered("loading")]
      /\ searchGeneration \in Nat /\ searchGeneration' = searchGeneration + 1
      /\ requests' \subseteq requests
  BY DEF Reset, Late, NextGeneration, SearchInv, SearchTypeOK
<1>2. ElementsOf(categories') = {} /\ DOMAIN searchStates' = {}
  BY <1>1 DEF ElementsOf
<1>3. SearchTypeOK'
  <2>1. categories' \in CategoryLists
    BY <1>1 DEF CategoryLists, Distinct
  <2>2. searchStates' \in [ElementsOf(categories') -> CategorySearchState]
    BY <1>1, <1>2
  <2> QED
    BY <1>1, <2>1, <2>2 DEF SearchInv, SearchTypeOK, ElementsOf
<1>4. RequestsMatch'
  <2>1. \A r \in requests' : r.generation \in Nat /\ r.generation <= searchGeneration
    BY <1>1 DEF SearchInv, SearchTypeOK, Request, RequestsMatch
  <2> QED
    BY <1>1, <2>1 DEF RequestsMatch, Current
<1> QED
  BY <1>1, <1>2, <1>3, <1>4 DEF SearchInv, SearchHasTerm, LoadingHasRequest,
     CursorAtEnd, AnswersOfQuery, FirstPagesTimed, FirstPageLoading

(***************************************************************************)
(* What the invariant says of one category, in a form the steps can use.   *)
(***************************************************************************)
LEMMA StateOf ==
  ASSUME SearchInv, NEW c \in DOMAIN searchStates
  PROVE  /\ c \in Categories /\ query \in Terms
         /\ searchStates[c] \in CategorySearchState
<1>1. c \in ElementsOf(categories) /\ searchStates[c] \in CategorySearchState
  BY DEF SearchInv, SearchTypeOK
<1>2. c \in Categories /\ categories # <<>>
  BY <1>1 DEF SearchInv, SearchTypeOK, ElementsOf, CategoryLists
<1> QED
  BY <1>1, <1>2 DEF SearchInv, SearchHasTerm

LEMMA LoadMoreKeeps ==
  ASSUME SearchInv, NEW c \in Categories, LoadMore(c)
  PROVE  SearchInv'
<1> DEFINE asked == [generation |-> searchGeneration, category |-> c, term |-> query,
                     cursor |-> searchStates[c].cursor, entries |-> searchStates[c].entries]
           loads == [searchStates[c] EXCEPT !.status = "loading", !.loadMoreFailed = FALSE]
<1>1. /\ c \in DOMAIN searchStates
      /\ searchStates[c].hasMore /\ searchStates[c].status = "loaded"
      /\ requests' = requests \cup {asked}
      /\ UNCHANGED <<query, categories, searchGeneration, revealTimer>>
  BY DEF LoadMore
<1>2. searchStates' = [searchStates EXCEPT ![c] = loads]
  <2>1. searchStates[c] \in CategorySearchState
    BY <1>1, StateOf
  <2>2. searchStates' = [searchStates EXCEPT ![c].status = "loading", ![c].loadMoreFailed = FALSE]
    BY DEF LoadMore
  <2> QED
    BY <1>1, <2>1, <2>2 DEF CategorySearchState
<1>3. /\ loads \in CategorySearchState
      /\ loads.status = "loading" /\ loads.cursor = searchStates[c].cursor
      /\ loads.entries = searchStates[c].entries /\ loads.hasMore = searchStates[c].hasMore
  BY <1>1, StateOf DEF CategorySearchState, Statuses
<1>4. asked \in Request
  BY <1>1, StateOf DEF Request, CategorySearchState, SearchInv, SearchTypeOK
<1>5. /\ DOMAIN searchStates' = DOMAIN searchStates
      /\ searchStates'[c] = loads
      /\ \A d \in DOMAIN searchStates : d # c => searchStates'[d] = searchStates[d]
  BY <1>1, <1>2
<1> HIDE DEF asked, loads
<1>6. SearchTypeOK'
  <2>1. requests' \subseteq Request
    BY <1>1, <1>4 DEF SearchInv, SearchTypeOK
  <2>2. searchStates' \in [ElementsOf(categories) -> CategorySearchState]
    BY <1>2, <1>3 DEF SearchInv, SearchTypeOK
  <2>3. ElementsOf(categories)' = ElementsOf(categories)
    BY <1>1 DEF ElementsOf
  <2> QED
    BY <1>1, <2>1, <2>2, <2>3 DEF SearchInv, SearchTypeOK
<1>7. searchStates[c].cursor # 0
  BY <1>1 DEF SearchInv, CursorAtEnd
<1>8. RequestsMatch'
  <2> SUFFICES ASSUME NEW r \in requests'
               PROVE /\ r.generation <= searchGeneration
                     /\ r.generation = searchGeneration
                        => /\ r.category \in DOMAIN searchStates'
                           /\ r.term = query
                           /\ searchStates'[r.category].status = "loading"
                           /\ r.cursor = searchStates'[r.category].cursor
                           /\ r.entries = searchStates'[r.category].entries
    BY <1>1 DEF RequestsMatch, Current
  <2>1. CASE r \in requests
    BY <1>1, <1>5, <2>1 DEF SearchInv, RequestsMatch, Current
  <2>2. CASE r = asked
    BY <1>1, <1>3, <1>5, <2>2 DEF asked, SearchInv, SearchTypeOK
  <2> QED
    BY <1>1, <2>1, <2>2
<1>9. LoadingHasRequest'
  <2>1. asked \in requests' /\ asked.generation = searchGeneration /\ asked.category = c
    BY <1>1 DEF asked
  <2> QED
    BY <1>1, <1>5, <2>1 DEF SearchInv, LoadingHasRequest, Current
<1>10. CursorAtEnd'
  BY <1>1, <1>3, <1>5, <1>7 DEF SearchInv, CursorAtEnd
<1>11. AnswersOfQuery'
  BY <1>1, <1>3, <1>5 DEF SearchInv, AnswersOfQuery
<1>12. FirstPagesTimed'
  BY <1>1, <1>3, <1>5, <1>7 DEF SearchInv, FirstPagesTimed, FirstPageLoading
<1> QED
  BY <1>1, <1>6, <1>8, <1>9, <1>10, <1>11, <1>12 DEF SearchInv, SearchHasTerm

(***************************************************************************)
(* Only one request of the running search is for a category.               *)
(***************************************************************************)
LEMMA OneRequest ==
  ASSUME SearchInv, NEW r \in requests, NEW s \in requests,
         Current(r), Current(s), r.category = s.category
  PROVE  r = s
<1>1. r \in Request /\ s \in Request
  BY DEF SearchInv, SearchTypeOK
<1>2. r.term = s.term /\ r.cursor = s.cursor /\ r.entries = s.entries
  BY DEF SearchInv, RequestsMatch
<1> QED
  BY <1>1, <1>2 DEF Request, Current

(***************************************************************************)
(* A request of the running search settles, and its category gets the      *)
(* state new; beyond that, blocked categories may be revealed.             *)
(***************************************************************************)
LEMMA SettledKeeps ==
  ASSUME SearchInv, NEW r \in requests, Current(r), Settle(r),
         NEW new \in CategorySearchState,
         new.status # "loading", new.status = "blocked" => revealTimer,
         Len(new.entries) <= MaxPages, new.hasMore <=> new.cursor # 0,
         new.cursor # 0 => new.cursor = Len(new.entries) /\ new.cursor < MaxPages,
         \A i \in DOMAIN new.entries :
            new.entries[i] = [term |-> query, category |-> r.category, page |-> i],
         searchStates' \in [DOMAIN searchStates -> CategorySearchState],
         \A c \in DOMAIN searchStates :
            IF c = r.category
              THEN \/ searchStates'[c] = new
                   \/ searchStates'[c] = [new EXCEPT !.status = "loaded"]
              ELSE SameOrRevealed(c),
         UNCHANGED <<query, categories, searchGeneration, revealTimer>>
  PROVE  SearchInv'
<1> DEFINE S(c) == searchStates'[c]
<1>1. /\ r.category \in DOMAIN searchStates /\ DOMAIN searchStates' = DOMAIN searchStates
      /\ requests' = requests \ {r}
  BY DEF SearchInv, RequestsMatch, Settle
<1>2. \A c \in DOMAIN searchStates :
        IF c = r.category
          THEN /\ S(c).status \in {"loaded", new.status}
               /\ S(c).entries = new.entries
               /\ S(c).cursor = new.cursor
               /\ S(c).hasMore = new.hasMore
          ELSE /\ \/ S(c).status = searchStates[c].status
                  \/ searchStates[c].status = "blocked" /\ S(c).status = "loaded"
               /\ S(c).entries = searchStates[c].entries
               /\ S(c).cursor = searchStates[c].cursor
               /\ S(c).hasMore = searchStates[c].hasMore
  <2> SUFFICES ASSUME NEW c \in DOMAIN searchStates
      PROVE IF c = r.category
          THEN /\ S(c).status \in {"loaded", new.status}
               /\ S(c).entries = new.entries
               /\ S(c).cursor = new.cursor
               /\ S(c).hasMore = new.hasMore
          ELSE /\ \/ S(c).status = searchStates[c].status
                  \/ searchStates[c].status = "blocked" /\ S(c).status = "loaded"
               /\ S(c).entries = searchStates[c].entries
               /\ S(c).cursor = searchStates[c].cursor
               /\ S(c).hasMore = searchStates[c].hasMore
    OBVIOUS
  <2>1. searchStates[c] \in CategorySearchState
    BY StateOf
  <2>2. CASE c = r.category
    <3>1. S(c) = new \/ S(c) = [new EXCEPT !.status = "loaded"]
      BY <2>2
    <3> QED
      BY <2>2, <3>1 DEF CategorySearchState
  <2>3. CASE c # r.category
    <3>1. SameOrRevealed(c)
      BY <2>3
    <3>2. CASE S(c) = searchStates[c]
      BY <2>3, <3>2
    <3>3. CASE searchStates[c].status = "blocked"
               /\ S(c) = [searchStates[c] EXCEPT !.status = "loaded"]
      BY <2>1, <2>3, <3>3 DEF CategorySearchState
    <3> QED
      BY <3>1, <3>2, <3>3 DEF SameOrRevealed
  <2> QED
    BY <2>2, <2>3
<1>3. SearchTypeOK'
  <2>1. ElementsOf(categories)' = ElementsOf(categories)
    BY DEF ElementsOf
  <2> QED
    BY <1>1, <2>1 DEF SearchInv, SearchTypeOK
<1>4. \A s \in requests' : s.generation = searchGeneration => s.category # r.category
  BY <1>1, OneRequest DEF Current
<1>5. RequestsMatch'
  BY <1>1, <1>2, <1>4 DEF SearchInv, RequestsMatch, Current
<1>6. LoadingHasRequest'
  BY <1>1, <1>2 DEF SearchInv, LoadingHasRequest, Current
<1>7. CursorAtEnd'
  BY <1>1, <1>2 DEF SearchInv, CursorAtEnd
<1>8. AnswersOfQuery'
  BY <1>1, <1>2 DEF SearchInv, AnswersOfQuery
<1>9. FirstPagesTimed'
  BY <1>1, <1>2 DEF SearchInv, FirstPagesTimed, FirstPageLoading
<1> QED
  BY <1>3, <1>5, <1>6, <1>7, <1>8, <1>9 DEF SearchInv, SearchHasTerm

(***************************************************************************)
(* Revealing leaves the domain and everything but blocked statuses alone.  *)
(***************************************************************************)
LEMMA StatusSet ==
  ASSUME NEW D, NEW states \in [D -> CategorySearchState], NEW S,
         NEW status \in Statuses
  PROVE  /\ SetStatus(states, S, status) \in [D -> CategorySearchState]
         /\ \A c \in D : SetStatus(states, S, status)[c] =
              IF c \in S THEN [states[c] EXCEPT !.status = status] ELSE states[c]
BY DEF SetStatus, CategorySearchState

(***************************************************************************)
(* A first page or its failure: the state of the category is new, or new   *)
(* revealed at once, and others are reconciled.                            *)
(***************************************************************************)
LEMMA Reconciled ==
  ASSUME SearchInv, NEW k \in DOMAIN searchStates, NEW new \in CategorySearchState,
         searchStates' = ReconcileCategoryStatuses([searchStates EXCEPT ![k] = new])
  PROVE  /\ searchStates' \in [DOMAIN searchStates -> CategorySearchState]
         /\ \A c \in DOMAIN searchStates :
              IF c = k THEN \/ searchStates'[c] = new
                            \/ searchStates'[c] = [new EXCEPT !.status = "loaded"]
                       ELSE SameOrRevealed(c)
<1> DEFINE settled == [searchStates EXCEPT ![k] = new]
           S == {c \in DOMAIN settled : /\ settled[c].status = "blocked"
                                         /\ \A d \in Predecessors(c) : settled[d].status # "loading"}
<1>1. settled \in [DOMAIN searchStates -> CategorySearchState]
  BY DEF SearchInv, SearchTypeOK
<1>2. searchStates' = SetStatus(settled, S, "loaded")
  BY DEF ReconcileCategoryStatuses
<1>3. \A c \in S : settled[c].status = "blocked"
  OBVIOUS
<1>4. "loaded" \in Statuses
  BY DEF Statuses
<1> HIDE DEF S, settled
<1>5. /\ searchStates' \in [DOMAIN searchStates -> CategorySearchState]
      /\ \A c \in DOMAIN searchStates : searchStates'[c] =
              IF c \in S THEN [settled[c] EXCEPT !.status = "loaded"] ELSE settled[c]
  BY ONLY <1>1, <1>2, <1>4, StatusSet
<1> QED
  BY <1>3, <1>5 DEF SameOrRevealed, settled

LEMMA AnswerSearchKeeps ==
  ASSUME SearchInv, NEW r \in requests, NEW found \in BOOLEAN, NEW more \in BOOLEAN,
         AnswerSearch(r, found, more)
  PROVE  SearchInv'
<1> DEFINE k == r.category
           new == [status |-> IF ShouldBlockCategory(searchStates, k)
                                THEN "blocked" ELSE "loaded",
                   entries |-> IF found THEN <<PageOf(r)>> ELSE <<>>,
                   cursor |-> IF more THEN 1 ELSE 0,
                   hasMore |-> more, loadMoreFailed |-> FALSE]
<1>1. /\ Current(r) /\ r.cursor = 0 /\ Settle(r)
      /\ more => found /\ MaxPages > 1
      /\ searchStates' = ReconcileCategoryStatuses([searchStates EXCEPT ![k] = new])
      /\ UNCHANGED <<query, categories, searchGeneration, revealTimer>>
  BY DEF AnswerSearch
<1>2. /\ k \in DOMAIN searchStates /\ r.term = query
      /\ searchStates[k].status = "loading" /\ searchStates[k].cursor = 0
  BY <1>1 DEF SearchInv, RequestsMatch
<1>3. revealTimer
  BY <1>2 DEF SearchInv, FirstPagesTimed, FirstPageLoading
<1>4. PageOf(r) = [term |-> query, category |-> k, page |-> 1] /\ PageOf(r) \in Entry
  BY <1>1, <1>2, StateOf, SearchAssumption DEF PageOf, Entry
<1>5. new \in CategorySearchState
  BY <1>1, <1>4, SearchAssumption DEF CategorySearchState, Statuses
<1>6. /\ new.status # "loading" /\ Len(new.entries) <= MaxPages
      /\ new.hasMore <=> new.cursor # 0
      /\ new.cursor # 0 => new.cursor = Len(new.entries) /\ new.cursor < MaxPages
      /\ \A i \in DOMAIN new.entries :
            new.entries[i] = [term |-> query, category |-> k, page |-> i]
  BY <1>1, <1>4, SearchAssumption
<1> HIDE DEF new
<1>7. /\ searchStates' \in [DOMAIN searchStates -> CategorySearchState]
      /\ \A c \in DOMAIN searchStates :
              IF c = k THEN \/ searchStates'[c] = new
                            \/ searchStates'[c] = [new EXCEPT !.status = "loaded"]
                       ELSE SameOrRevealed(c)
  BY <1>1, <1>2, <1>5, Reconciled
<1> QED
  BY <1>1, <1>3, <1>5, <1>6, <1>7, SettledKeeps

LEMMA FailSearchKeeps ==
  ASSUME SearchInv, NEW r \in requests, FailSearch(r)
  PROVE  SearchInv'
<1> DEFINE new == Unanswered("failed")
<1>1. /\ Current(r) /\ Settle(r)
      /\ searchStates' = ReconcileCategoryStatuses([searchStates EXCEPT ![r.category] = new])
      /\ UNCHANGED <<query, categories, searchGeneration, revealTimer>>
  BY DEF FailSearch
<1>2. r.category \in DOMAIN searchStates
  BY <1>1 DEF SearchInv, RequestsMatch
<1>3. /\ new \in CategorySearchState /\ new.cursor = 0
      /\ new.status # "loading" /\ (new.status = "blocked" => revealTimer)
      /\ Len(new.entries) <= MaxPages /\ (new.hasMore <=> new.cursor # 0)
      /\ \A i \in DOMAIN new.entries :
            new.entries[i] = [term |-> query, category |-> r.category, page |-> i]
  BY SearchAssumption DEF Unanswered, CategorySearchState, Statuses
<1> HIDE DEF new
<1>4. /\ searchStates' \in [DOMAIN searchStates -> CategorySearchState]
      /\ \A c \in DOMAIN searchStates :
              IF c = r.category THEN \/ searchStates'[c] = new
                                     \/ searchStates'[c] = [new EXCEPT !.status = "loaded"]
                                ELSE SameOrRevealed(c)
  BY <1>1, <1>2, <1>3, Reconciled
<1> QED
  BY <1>1, <1>3, <1>4, SettledKeeps

LEMMA AnswerMoreKeeps ==
  ASSUME SearchInv, NEW r \in requests, NEW more \in BOOLEAN, AnswerMore(r, more)
  PROVE  SearchInv'
<1> DEFINE k == r.category
           new == [searchStates[k] EXCEPT !.entries = Append(r.entries, PageOf(r)),
                                          !.cursor = IF more THEN r.cursor + 1 ELSE 0,
                                          !.hasMore = more, !.status = "loaded"]
<1>1. /\ Current(r) /\ r.cursor # 0 /\ Settle(r)
      /\ more => r.cursor + 1 < MaxPages
      /\ UNCHANGED <<query, categories, searchGeneration, revealTimer>>
  BY DEF AnswerMore
<1>2. /\ k \in DOMAIN searchStates /\ r.term = query
      /\ r.cursor = searchStates[k].cursor /\ r.entries = searchStates[k].entries
  BY <1>1 DEF SearchInv, RequestsMatch
<1>3. /\ k \in Categories /\ query \in Terms /\ searchStates[k] \in CategorySearchState
      /\ r.cursor \in Nat /\ r.cursor = Len(r.entries) /\ r.cursor < MaxPages
      /\ r.entries \in Seq(Entry)
  BY <1>1, <1>2, StateOf, SearchAssumption DEF SearchInv, CursorAtEnd, CategorySearchState
<1>4. PageOf(r) = [term |-> query, category |-> k, page |-> Len(r.entries) + 1]
      /\ PageOf(r) \in Entry
  BY <1>2, <1>3, SearchAssumption DEF PageOf, Entry
<1>5. searchStates' = [searchStates EXCEPT ![k] = new]
  BY <1>2, <1>3 DEF AnswerMore, CategorySearchState
<1>6. /\ new.entries = Append(r.entries, PageOf(r)) /\ new.hasMore = more
      /\ new.cursor = (IF more THEN r.cursor + 1 ELSE 0) /\ new.status = "loaded"
  BY <1>3 DEF CategorySearchState
<1>7. new \in CategorySearchState
  <2>1. Append(r.entries, PageOf(r)) \in Seq(Entry)
    BY <1>3, <1>4
  <2>2. (IF more THEN r.cursor + 1 ELSE 0) \in 0..MaxPages
    BY <1>1, <1>3, SearchAssumption
  <2> QED
    BY <1>3, <2>1, <2>2 DEF CategorySearchState, Statuses
<1> HIDE DEF new
<1>8. /\ Len(new.entries) = Len(r.entries) + 1
      /\ \A i \in DOMAIN new.entries : i \in 1..Len(r.entries) \/ i = Len(r.entries) + 1
      /\ \A i \in 1..Len(r.entries) : new.entries[i] = r.entries[i]
      /\ new.entries[Len(r.entries) + 1] = PageOf(r)
      /\ DOMAIN r.entries = 1..Len(r.entries)
  BY <1>3, <1>4, <1>6
<1>9. \A i \in DOMAIN new.entries :
         new.entries[i] = [term |-> query, category |-> k, page |-> i]
  BY <1>2, <1>4, <1>8 DEF SearchInv, AnswersOfQuery
<1>10. /\ new.status # "loading" /\ (new.status = "blocked" => revealTimer)
       /\ Len(new.entries) <= MaxPages /\ (new.hasMore <=> new.cursor # 0)
       /\ new.cursor # 0 => new.cursor = Len(new.entries) /\ new.cursor < MaxPages
  BY <1>1, <1>3, <1>6, <1>8, SearchAssumption
<1>11. searchStates' \in [DOMAIN searchStates -> CategorySearchState]
  BY <1>5, <1>7 DEF SearchInv, SearchTypeOK
<1>12. \A c \in DOMAIN searchStates :
         IF c = k THEN \/ searchStates'[c] = new
                       \/ searchStates'[c] = [new EXCEPT !.status = "loaded"]
                  ELSE SameOrRevealed(c)
  BY <1>2, <1>5 DEF SameOrRevealed
<1> QED
  BY <1>1, <1>6, <1>7, <1>9, <1>10, <1>11, <1>12, SettledKeeps

LEMMA FailMoreKeeps ==
  ASSUME SearchInv, NEW r \in requests, FailMore(r)
  PROVE  SearchInv'
<1> DEFINE k == r.category
           new == [searchStates[k] EXCEPT !.status = "loaded", !.loadMoreFailed = TRUE]
<1>1. /\ Current(r) /\ r.cursor # 0 /\ Settle(r)
      /\ UNCHANGED <<query, categories, searchGeneration, revealTimer>>
  BY DEF FailMore
<1>2. k \in DOMAIN searchStates
  BY <1>1 DEF SearchInv, RequestsMatch
<1>3. searchStates[k] \in CategorySearchState
  BY <1>2, StateOf
<1>4. searchStates' = [searchStates EXCEPT ![k] = new]
  BY <1>2, <1>3 DEF FailMore, CategorySearchState
<1>5. /\ new \in CategorySearchState /\ new.status = "loaded"
      /\ new.entries = searchStates[k].entries /\ new.cursor = searchStates[k].cursor
      /\ new.hasMore = searchStates[k].hasMore
  BY <1>3 DEF CategorySearchState, Statuses
<1> HIDE DEF new
<1>6. searchStates' \in [DOMAIN searchStates -> CategorySearchState]
  BY <1>4, <1>5 DEF SearchInv, SearchTypeOK
<1>7. \A c \in DOMAIN searchStates :
         IF c = k THEN \/ searchStates'[c] = new
                       \/ searchStates'[c] = [new EXCEPT !.status = "loaded"]
                  ELSE SameOrRevealed(c)
  BY <1>2, <1>4 DEF SameOrRevealed
<1>8. /\ new.status # "loading" /\ (new.status = "blocked" => revealTimer)
      /\ Len(new.entries) <= MaxPages /\ (new.hasMore <=> new.cursor # 0)
      /\ new.cursor # 0 => new.cursor = Len(new.entries) /\ new.cursor < MaxPages
      /\ \A i \in DOMAIN new.entries :
            new.entries[i] = [term |-> query, category |-> k, page |-> i]
  BY <1>2, <1>5 DEF SearchInv, CursorAtEnd, AnswersOfQuery
<1> QED
  BY <1>1, <1>5, <1>6, <1>7, <1>8, SettledKeeps

LEMMA TimerKeeps == SearchInv /\ RevealTimer => SearchInv'
<1> SUFFICES ASSUME SearchInv, RevealTimer PROVE SearchInv'
  OBVIOUS
<1> DEFINE S == {c \in DOMAIN searchStates : searchStates[c].status = "blocked"}
<1>1. /\ searchStates' = SetStatus(searchStates, S, "loaded")
      /\ revealTimer' = (\E c \in DOMAIN searchStates : Pending(searchStates, c))
      /\ UNCHANGED <<query, categories, searchGeneration, requests>>
  BY DEF RevealTimer, UnblockAllCategories
<1>2. searchStates \in [DOMAIN searchStates -> CategorySearchState] /\ "loaded" \in Statuses
  BY DEF SearchInv, SearchTypeOK, Statuses
<1>3. /\ searchStates' \in [DOMAIN searchStates -> CategorySearchState]
      /\ \A c \in DOMAIN searchStates : searchStates'[c] =
              IF c \in S THEN [searchStates[c] EXCEPT !.status = "loaded"] ELSE searchStates[c]
  <2> HIDE DEF S
  <2> QED
    BY <1>1, <1>2, StatusSet
<1>4. DOMAIN searchStates' = DOMAIN searchStates
  BY <1>3
<1>5. \A c \in DOMAIN searchStates :
        /\ searchStates'[c].status = IF searchStates[c].status = "blocked" THEN "loaded"
                                      ELSE searchStates[c].status
        /\ searchStates'[c].entries = searchStates[c].entries
        /\ searchStates'[c].cursor = searchStates[c].cursor
        /\ searchStates'[c].hasMore = searchStates[c].hasMore
  BY <1>2, <1>3 DEF CategorySearchState
<1>6. SearchTypeOK'
  <2>1. ElementsOf(categories)' = ElementsOf(categories)
    BY <1>1 DEF ElementsOf
  <2>2. revealTimer' \in BOOLEAN
    BY <1>1, Zenon
  <2> QED
    BY <1>1, <1>3, <2>1, <2>2 DEF SearchInv, SearchTypeOK
<1>7. RequestsMatch'
  BY <1>1, <1>4, <1>5 DEF SearchInv, RequestsMatch, Current
<1>8. LoadingHasRequest'
  BY <1>1, <1>4, <1>5 DEF SearchInv, LoadingHasRequest, Current
<1>9. CursorAtEnd'
  BY <1>1, <1>4, <1>5 DEF SearchInv, CursorAtEnd
<1>10. AnswersOfQuery'
  BY <1>1, <1>4, <1>5 DEF SearchInv, AnswersOfQuery
<1>11. FirstPagesTimed'
  BY <1>1, <1>4, <1>5 DEF FirstPagesTimed, FirstPageLoading, Pending
<1> QED
  BY <1>1, <1>6, <1>7, <1>8, <1>9, <1>10, <1>11 DEF SearchInv, SearchHasTerm

LEMMA SearchStep == SearchInv /\ [SearchNext]_searchVars => SearchInv'
<1> SUFFICES ASSUME SearchInv, [SearchNext]_searchVars PROVE SearchInv'
  OBVIOUS
<1>1. ASSUME NEW t \in Terms, NEW cats \in CategoryLists, Search(t, cats) PROVE SearchInv'
  BY <1>1, SearchKeeps
<1>2. ASSUME NEW c \in Categories, LoadMore(c) PROVE SearchInv'
  BY <1>2, LoadMoreKeeps
<1>3. ASSUME NEW r \in requests, DropStale(r) PROVE SearchInv'
  <2>1. /\ requests' = requests \ {r} /\ r.generation # searchGeneration
        /\ UNCHANGED <<query, categories, searchStates, searchGeneration, revealTimer>>
    BY <1>3 DEF DropStale, Settle, Current
  <2> QED
    BY <2>1 DEF SearchInv, SearchTypeOK, SearchHasTerm, RequestsMatch, LoadingHasRequest,
      CursorAtEnd, AnswersOfQuery, FirstPagesTimed, FirstPageLoading, Current, ElementsOf
<1>4. ASSUME NEW r \in requests, SettleRequest(r) PROVE SearchInv'
  BY <1>3, <1>4, AnswerSearchKeeps, FailSearchKeeps, AnswerMoreKeeps, FailMoreKeeps
  DEF SettleRequest
<1>5. CASE UNCHANGED searchVars
  BY <1>5 DEF searchVars, SearchInv, SearchTypeOK, SearchHasTerm, RequestsMatch,
      LoadingHasRequest, CursorAtEnd, AnswersOfQuery, FirstPagesTimed, FirstPageLoading,
      Current, ElementsOf
<1> QED
  BY <1>1, <1>2, <1>4, <1>5, ResetKeeps, TimerKeeps DEF SearchNext

LEMMA SearchInvariant == SearchSpec => []SearchInv
<1>1. SearchInit => SearchInv
  BY InitInv
<1>2. SearchInv /\ [SearchNext]_searchVars => SearchInv'
  BY SearchStep
<1> QED
  BY <1>1, <1>2, PTL DEF SearchSpec

\* The search states, the requests in flight and the reveal timer stay well
\* typed, however the answers come.
THEOREM SearchTyped == SearchSpec => []SearchTypeOK
<1>1. SearchInv => SearchTypeOK
  BY DEF SearchInv
<1> QED
  BY <1>1, SearchInvariant, PTL

(***************************************************************************)
(* What a category holds, shown or not, is the pages of its answer to the  *)
(* running term from the first on, each once and in order.  An answer of a *)
(* replaced search is never taken for one of the running search, whatever  *)
(* number of them is still to come.                                        *)
(***************************************************************************)
THEOREM OwnAnswers == SearchSpec => []AnswersOfQuery
<1>1. SearchInv => AnswersOfQuery
  BY DEF SearchInv
<1> QED
  BY <1>1, SearchInvariant, PTL

(***************************************************************************)
(* A category that loads has exactly one request in flight, and while an   *)
(* answer is held back the timer is armed.                                 *)
(***************************************************************************)
THEOREM Awaited == SearchSpec => []AwaitedComes
<1>1. SearchInv => BlockedIsTimed
  BY DEF SearchInv, FirstPagesTimed, BlockedIsTimed
<1>2. SearchInv => LoadingIsRequested
  <2> SUFFICES ASSUME SearchInv PROVE LoadingIsRequested
    OBVIOUS
  <2> DEFINE flying(c) == {r \in requests : Current(r) /\ r.category = c}
  <2>1. \A r \in requests : Current(r) => r.category \in DOMAIN searchStates
    BY DEF SearchInv, RequestsMatch
  <2>2. ASSUME NEW c \in DOMAIN searchStates, searchStates[c].status = "loading"
        PROVE  Cardinality(flying(c)) = 1
    <3>1. PICK r \in requests : Current(r) /\ r.category = c
      BY <2>2 DEF SearchInv, LoadingHasRequest
    <3>2. flying(c) = {r}
      BY <3>1, OneRequest
    <3> QED
      BY <3>2, FS_Singleton
  <2>3. ASSUME NEW c \in DOMAIN searchStates, searchStates[c].status # "loading"
        PROVE  flying(c) = {}
    BY <2>3 DEF SearchInv, RequestsMatch
  <2> QED
    BY <2>1, <2>2, <2>3 DEF LoadingIsRequested
<1> QED
  BY <1>1, <1>2, SearchInvariant, PTL DEF AwaitedComes

(***************************************************************************)
(* Priority is a strict order on the categories of the search.             *)
(***************************************************************************)
LEMMA PriorityOrder ==
  ASSUME SearchInv, NEW c, NEW d \in Predecessors(c)
  PROVE  /\ d \in DOMAIN searchStates /\ d # c
         /\ Predecessors(d) \subseteq Predecessors(c)
<1>1. /\ DOMAIN searchStates = ElementsOf(categories)
      /\ \A i, j \in DOMAIN categories : categories[i] = categories[j] => i = j
      /\ DOMAIN categories \subseteq Nat
  BY DEF SearchInv, SearchTypeOK, CategoryLists, Distinct
<1>2. PICK i \in DOMAIN categories, j \in DOMAIN categories :
        i < j /\ categories[i] = d /\ categories[j] = c
  BY DEF Predecessors
<1>3. d \in DOMAIN searchStates /\ d # c
  BY <1>1, <1>2 DEF ElementsOf
<1>4. ASSUME NEW b \in Predecessors(d) PROVE b \in Predecessors(c)
  <2>1. PICK k \in DOMAIN categories, l \in DOMAIN categories :
          k < l /\ categories[k] = b /\ categories[l] = d
    BY DEF Predecessors
  <2>2. k < j
    BY <1>1, <1>2, <2>1
  <2>3. b \in ElementsOf(categories)
    BY <2>1 DEF ElementsOf
  <2> QED
    BY <1>2, <2>1, <2>2, <2>3 DEF Predecessors
<1> QED
  BY <1>3, <1>4

(***************************************************************************)
(* What reconciling reveals, and what settles revealed, has no pending     *)
(* category before it any more: a blocked one that the pass does not       *)
(* reveal has a loading one before it, which comes before the others too.  *)
(***************************************************************************)
LEMMA ReconciledPriority ==
  ASSUME SearchInv, NEW k \in DOMAIN searchStates, NEW new \in CategorySearchState,
         searchStates' = ReconcileCategoryStatuses([searchStates EXCEPT ![k] = new]),
         new.status = "loaded" => ~ ShouldBlockCategory(searchStates, k),
         NEW c \in DOMAIN searchStates,
         c = k \/ searchStates[c].status = "blocked",
         searchStates'[c].status = "loaded",
         NEW d \in Predecessors(c)
  PROVE  ~ Pending(searchStates', d)
<1> DEFINE settled == [searchStates EXCEPT ![k] = new]
           R == {b \in DOMAIN searchStates :
                   /\ settled[b].status = "blocked"
                   /\ \A a \in Predecessors(b) : settled[a].status # "loading"}
<1>1. settled \in [DOMAIN searchStates -> CategorySearchState]
  BY DEF SearchInv, SearchTypeOK
<1>2. searchStates' = SetStatus(settled, R, "loaded")
  BY DEF ReconcileCategoryStatuses
<1>3. \A b \in DOMAIN searchStates : searchStates'[b] =
         IF b \in R THEN [settled[b] EXCEPT !.status = "loaded"] ELSE settled[b]
  <2>1. "loaded" \in Statuses
    BY DEF Statuses
  <2> HIDE DEF settled, R
  <2> QED
    BY ONLY <1>1, <1>2, <2>1, StatusSet
<1>4. d \in DOMAIN searchStates /\ d # c /\ Predecessors(d) \subseteq Predecessors(c)
  BY PriorityOrder
<1>5. \A b \in DOMAIN searchStates :
         searchStates'[b].status = IF b \in R THEN "loaded" ELSE settled[b].status
  BY <1>1, <1>3 DEF CategorySearchState
<1>6. CASE settled[c].status = "blocked"
  <2>1. c \in R
    BY <1>5, <1>6
  <2>2. settled[d].status # "loading"
    BY <2>1
  <2>3. settled[d].status = "blocked" => d \in R
    BY <1>4, <2>1
  <2> QED
    BY <1>4, <1>5, <2>2, <2>3 DEF Pending
<1>7. CASE settled[c].status # "blocked"
  <2>1. c = k /\ new.status = "loaded"
    BY <1>1, <1>5, <1>7
  <2>2. ~ Pending(searchStates, d)
    BY <2>1 DEF ShouldBlockCategory
  <2> QED
    BY <1>4, <1>5, <2>1, <2>2 DEF Pending
<1> QED
  BY <1>6, <1>7

(***************************************************************************)
(* An answer reveals what was held back, and itself, only when no category *)
(* of higher priority is pending any more.                                 *)
(***************************************************************************)
Reveals(c) == /\ FirstPageLoading(c) \/ searchStates[c].status = "blocked"
              /\ searchStates'[c].status = "loaded"

LEMMA PriorityStep ==
  ASSUME SearchInv, [SearchNext]_searchVars, requests' # requests,
         searchGeneration' = searchGeneration,
         NEW c \in DOMAIN searchStates, Reveals(c), NEW d \in Predecessors(c)
  PROVE  ~ Pending(searchStates', d)
<1> USE DEF Reveals
<1>0. /\ searchStates \in [DOMAIN searchStates -> CategorySearchState]
      /\ searchStates[c].status # "loaded" /\ searchGeneration \in Nat
  BY DEF FirstPageLoading, SearchInv, SearchTypeOK
<1>1. ASSUME NEW t \in Terms, NEW cats \in CategoryLists, Search(t, cats) PROVE FALSE
  BY <1>0, <1>1 DEF Search, NextGeneration
<1>2. CASE Reset
  BY <1>0, <1>2 DEF Reset, NextGeneration
<1>3. ASSUME NEW b \in Categories, LoadMore(b) PROVE FALSE
  <2>1. searchStates[b].status = "loaded" /\ b \in DOMAIN searchStates
    BY <1>3 DEF LoadMore
  <2>2. c # b
    BY <1>0, <2>1
  <2>3. searchStates'[c] = searchStates[c]
    BY <1>3, <2>2 DEF LoadMore
  <2> QED
    BY <1>0, <2>3
<1>4. ASSUME NEW r \in requests, DropStale(r) PROVE FALSE
  BY <1>0, <1>4 DEF DropStale
<1>5. ASSUME NEW r \in requests, Current(r)
      PROVE  /\ r.category \in DOMAIN searchStates
             /\ searchStates[r.category].status = "loading"
             /\ searchStates[r.category].cursor = r.cursor
  BY <1>5 DEF SearchInv, RequestsMatch
<1>6. ASSUME NEW r \in requests, NEW found \in BOOLEAN, NEW more \in BOOLEAN,
             AnswerSearch(r, found, more)
      PROVE  ~ Pending(searchStates', d)
  <2> DEFINE k == r.category
             new == [status |-> IF ShouldBlockCategory(searchStates, k)
                                  THEN "blocked" ELSE "loaded",
                     entries |-> IF found THEN <<PageOf(r)>> ELSE <<>>,
                     cursor |-> IF more THEN 1 ELSE 0,
                     hasMore |-> more, loadMoreFailed |-> FALSE]
  <2>1. /\ Current(r) /\ r.cursor = 0 /\ (more => MaxPages > 1)
        /\ searchStates' = ReconcileCategoryStatuses([searchStates EXCEPT ![k] = new])
    BY <1>6 DEF AnswerSearch
  <2>2. k \in DOMAIN searchStates /\ r.term = query
    BY <2>1 DEF SearchInv, RequestsMatch
  <2>3. new \in CategorySearchState
    <3>1. PageOf(r) \in Entry
      BY <2>1, <2>2, StateOf, SearchAssumption DEF PageOf, Entry
    <3> QED
      BY <2>1, <3>1, SearchAssumption DEF CategorySearchState, Statuses
  <2>4. new.status = "loaded" => ~ ShouldBlockCategory(searchStates, k)
    OBVIOUS
  <2> HIDE DEF new
  <2>5. c = k \/ searchStates[c].status = "blocked"
    <3>1. SUFFICES ASSUME c # k, FirstPageLoading(c) PROVE FALSE
      OBVIOUS
    <3>2. \/ searchStates'[c] = searchStates[c]
          \/ searchStates[c].status = "blocked"
      BY <2>1, <2>2, <2>3, <3>1, Reconciled DEF SameOrRevealed
    <3> QED
      BY <3>1, <3>2 DEF FirstPageLoading
  <2> QED
    BY <2>1, <2>2, <2>3, <2>4, <2>5, ReconciledPriority
<1>7. ASSUME NEW r \in requests, FailSearch(r)
      PROVE  ~ Pending(searchStates', d)
  <2> DEFINE new == Unanswered("failed")
  <2>1. /\ Current(r)
        /\ searchStates' = ReconcileCategoryStatuses([searchStates EXCEPT ![r.category] = new])
    BY <1>7 DEF FailSearch
  <2>2. /\ new \in CategorySearchState /\ new.status = "failed"
        /\ [new EXCEPT !.status = "loaded"].status = "loaded"
    BY SearchAssumption DEF Unanswered, CategorySearchState, Statuses
  <2> HIDE DEF new
  <2>3. r.category \in DOMAIN searchStates
    BY <1>5, <2>1
  <2>4. c = r.category \/ searchStates[c].status = "blocked"
    <3>1. SUFFICES ASSUME c # r.category, FirstPageLoading(c) PROVE FALSE
      OBVIOUS
    <3>2. \/ searchStates'[c] = searchStates[c]
          \/ searchStates[c].status = "blocked"
      BY <2>1, <2>2, <2>3, <3>1, Reconciled DEF SameOrRevealed
    <3> QED
      BY <3>1, <3>2 DEF FirstPageLoading
  <2> QED
    BY <2>1, <2>2, <2>3, <2>4, ReconciledPriority
<1>8. ASSUME NEW r \in requests, NEW more \in BOOLEAN, AnswerMore(r, more) \/ FailMore(r)
      PROVE  FALSE
  <2>1. Current(r) /\ r.cursor # 0
    BY <1>8 DEF AnswerMore, FailMore
  <2>2. c # r.category
    BY <1>5, <2>1 DEF FirstPageLoading
  <2>3. searchStates'[c] = searchStates[c]
    BY <1>8, <2>2 DEF AnswerMore, FailMore
  <2> QED
    BY <1>0, <2>3
<1>9. ~ RevealTimer /\ ~ UNCHANGED searchVars
  BY DEF RevealTimer, searchVars
<1> QED
  BY <1>1, <1>2, <1>3, <1>4, <1>6, <1>7, <1>8, <1>9 DEF SearchNext, SettleRequest

(***************************************************************************)
(* An answer that settles reveals a category only when no category of      *)
(* higher priority is pending any more; only the timer shows results out   *)
(* of order.                                                               *)
(***************************************************************************)
THEOREM Priority == SearchSpec => PriorityRespected
<1> DEFINE A == (requests' # requests /\ searchGeneration' = searchGeneration) =>
       \A c \in DOMAIN searchStates :
          (/\ FirstPageLoading(c) \/ searchStates[c].status = "blocked"
           /\ searchStates'[c].status = "loaded")
          => \A d \in Predecessors(c) : ~ Pending(searchStates', d)
<1>1. SearchInv /\ [SearchNext]_searchVars => A
  BY PriorityStep DEF Reveals
<1> QED
  BY <1>1, SearchInvariant, PTL DEF SearchSpec, PriorityRespected

(***************************************************************************)
(* The refinement. Whatever is on screen before a step of the running      *)
(* search is on screen after it, with as many pages at least.              *)
(***************************************************************************)
LEMMA ShownIsSequence == SearchInv => \A c \in Categories : Len(ShownEntries(c)) \in Nat
<1> SUFFICES ASSUME SearchInv, NEW c \in Categories PROVE Len(ShownEntries(c)) \in Nat
  OBVIOUS
<1>1. CASE Revealed(c)
  <2>1. searchStates[c].entries \in Seq(Entry)
    BY <1>1, StateOf DEF Revealed, CategorySearchState
  <2> QED
    BY <1>1, <2>1 DEF ShownEntries
<1>2. CASE ~ Revealed(c)
  BY <1>2 DEF ShownEntries
<1> QED
  BY <1>1, <1>2

LEMMA ShownStep ==
  ASSUME SearchInv, [SearchNext]_searchVars, SearchInv'
  PROVE  \/ /\ searchGeneration' # searchGeneration
            /\ \A c \in Categories : ShownEntries(c)' = <<>>
         \/ /\ query' = query
            /\ \A c \in Categories : Len(ShownEntries(c)') >= Len(ShownEntries(c))
<1> DEFINE Keeps == /\ query' = query
                    /\ \A c \in Categories : Len(ShownEntries(c)') >= Len(ShownEntries(c))
           Cleared == /\ searchGeneration' # searchGeneration
                      /\ \A c \in Categories : ShownEntries(c)' = <<>>
<1>0. \A c \in Categories : Len(ShownEntries(c)) \in Nat /\ Len(ShownEntries(c)') \in Nat
  <2>1. (\A c \in Categories : Len(ShownEntries(c)) \in Nat)'
    BY ShownIsSequence, PTL
  <2> QED
    BY <2>1, ShownIsSequence
<1>1. ASSUME query' = query, DOMAIN searchStates' = DOMAIN searchStates,
             \A c \in DOMAIN searchStates :
                searchStates[c].status \in {"loaded", "loading"} /\ searchStates[c].entries # <<>>
                => /\ searchStates'[c].status \in {"loaded", "loading"}
                   /\ Len(searchStates'[c].entries) >= Len(searchStates[c].entries)
      PROVE  Keeps
  <2> SUFFICES ASSUME NEW c \in Categories, ShownEntries(c) # <<>>
               PROVE  Len(ShownEntries(c)') >= Len(ShownEntries(c))
    BY <1>0, <1>1
  <2>1. Revealed(c) /\ ShownEntries(c) = searchStates[c].entries
    BY DEF ShownEntries
  <2>2. /\ searchStates'[c].status \in {"loaded", "loading"} /\ c \in DOMAIN searchStates'
        /\ Len(searchStates'[c].entries) >= Len(searchStates[c].entries)
    BY <1>1, <2>1 DEF Revealed
  <2>3. ShownEntries(c)' = searchStates'[c].entries
    BY <2>2 DEF ShownEntries, Revealed
  <2> QED
    BY <2>1, <2>2, <2>3
<1>2. \A c \in DOMAIN searchStates :
         searchStates[c] \in CategorySearchState /\ Len(searchStates[c].entries) \in Nat
  BY StateOf DEF CategorySearchState
<1>3. ASSUME NEW t \in Terms, NEW cats \in CategoryLists, Search(t, cats)
      PROVE  Cleared
  BY <1>3 DEF Search, ShownEntries, Revealed, Unanswered, NextGeneration,
     SearchInv, SearchTypeOK
<1>4. ASSUME Reset PROVE Cleared
  BY <1>4 DEF Reset, ShownEntries, Revealed, NextGeneration, SearchInv, SearchTypeOK
<1>5. ASSUME NEW b \in Categories, LoadMore(b) PROVE Keeps
  <2>1. /\ query' = query /\ DOMAIN searchStates' = DOMAIN searchStates
        /\ \A c \in DOMAIN searchStates :
             /\ c # b => searchStates'[c] = searchStates[c]
             /\ c = b => /\ searchStates'[c].status = "loading"
                         /\ searchStates'[c].entries = searchStates[c].entries
    BY <1>2, <1>5 DEF LoadMore, CategorySearchState
  <2> QED
    BY <1>1, <1>2, <2>1
<1>6. ASSUME NEW r \in requests, DropStale(r) PROVE Keeps
  <2>1. query' = query /\ searchStates' = searchStates
    BY <1>6 DEF DropStale
  <2> QED
    BY <1>1, <1>2, <2>1
<1>7. ASSUME NEW r \in requests, NEW new \in CategorySearchState,
             Current(r), r.cursor = 0, query' = query,
             searchStates' = ReconcileCategoryStatuses([searchStates EXCEPT ![r.category] = new])
      PROVE  Keeps
  <2>1. /\ r.category \in DOMAIN searchStates
        /\ searchStates[r.category].entries = <<>>
    BY <1>7 DEF SearchInv, RequestsMatch, CursorAtEnd
  <2>2. /\ searchStates' \in [DOMAIN searchStates -> CategorySearchState]
        /\ \A c \in DOMAIN searchStates : c # r.category => SameOrRevealed(c)
    BY <1>7, <2>1, Reconciled
  <2>3. \A c \in DOMAIN searchStates :
          c # r.category /\ searchStates[c].status # "blocked" => searchStates'[c] = searchStates[c]
    BY <2>2 DEF SameOrRevealed
  <2>4. DOMAIN searchStates' = DOMAIN searchStates
    BY <2>2
  <2>5. ASSUME NEW c \in DOMAIN searchStates, searchStates[c].status \in {"loaded", "loading"},
               searchStates[c].entries # <<>>
        PROVE  /\ searchStates'[c].status \in {"loaded", "loading"}
               /\ Len(searchStates'[c].entries) >= Len(searchStates[c].entries)
    <3>1. c # r.category
      BY <2>1, <2>5
    <3>2. searchStates'[c] = searchStates[c]
      BY <2>3, <2>5, <3>1
    <3> QED
      BY <1>2, <2>5, <3>2
  <2> QED
    BY <1>1, <1>7, <2>4, <2>5
<1>8. ASSUME NEW r \in requests, NEW found \in BOOLEAN, NEW more \in BOOLEAN,
             AnswerSearch(r, found, more)
      PROVE  Keeps
  <2> DEFINE new == [status |-> IF ShouldBlockCategory(searchStates, r.category)
                                  THEN "blocked" ELSE "loaded",
                     entries |-> IF found THEN <<PageOf(r)>> ELSE <<>>,
                     cursor |-> IF more THEN 1 ELSE 0,
                     hasMore |-> more, loadMoreFailed |-> FALSE]
  <2>1. /\ Current(r) /\ r.cursor = 0 /\ (more => MaxPages > 1) /\ query' = query
        /\ searchStates' = ReconcileCategoryStatuses([searchStates EXCEPT ![r.category] = new])
    BY <1>8 DEF AnswerSearch
  <2>2. r.category \in DOMAIN searchStates /\ r.term = query
    BY <2>1 DEF SearchInv, RequestsMatch
  <2>3. PageOf(r) \in Entry
    BY <2>1, <2>2, StateOf, SearchAssumption DEF PageOf, Entry
  <2>4. new \in CategorySearchState
    BY <2>1, <2>3, SearchAssumption DEF CategorySearchState, Statuses
  <2> HIDE DEF new, Keeps
  <2> QED
    BY <1>7, <2>1, <2>4
<1>9. ASSUME NEW r \in requests, FailSearch(r) PROVE Keeps
  <2>1. Unanswered("failed") \in CategorySearchState
    BY SearchAssumption DEF Unanswered, CategorySearchState, Statuses
  <2> HIDE DEF Keeps
  <2> QED
    BY <1>7, <1>9, <2>1 DEF FailSearch
<1>10. ASSUME NEW r \in requests, NEW more \in BOOLEAN, AnswerMore(r, more) PROVE Keeps
  <2>1. /\ Current(r) /\ query' = query
        /\ r.category \in DOMAIN searchStates
        /\ r.entries = searchStates[r.category].entries
    BY <1>10 DEF AnswerMore, SearchInv, RequestsMatch
  <2>2. /\ DOMAIN searchStates' = DOMAIN searchStates
        /\ \A c \in DOMAIN searchStates :
             /\ c # r.category => searchStates'[c] = searchStates[c]
             /\ c = r.category => /\ searchStates'[c].status = "loaded"
                                  /\ searchStates'[c].entries = Append(r.entries, PageOf(r))
    BY <1>2, <1>10, <2>1 DEF AnswerMore, CategorySearchState
  <2>3. r.entries \in Seq(Entry)
    BY <1>2, <2>1 DEF CategorySearchState
  <2>4. Len(Append(r.entries, PageOf(r))) >= Len(r.entries)
    BY <2>3
  <2> QED
    BY <1>1, <1>2, <2>1, <2>2, <2>4
<1>11. ASSUME NEW r \in requests, FailMore(r) PROVE Keeps
  <2>1. Current(r) /\ query' = query /\ r.category \in DOMAIN searchStates
    BY <1>11 DEF FailMore, SearchInv, RequestsMatch
  <2>2. /\ DOMAIN searchStates' = DOMAIN searchStates
        /\ \A c \in DOMAIN searchStates :
             /\ c # r.category => searchStates'[c] = searchStates[c]
             /\ c = r.category => /\ searchStates'[c].status = "loaded"
                                  /\ searchStates'[c].entries = searchStates[c].entries
    BY <1>2, <1>11, <2>1 DEF FailMore, CategorySearchState
  <2> QED
    BY <1>1, <1>2, <2>1, <2>2
<1>12. ASSUME RevealTimer PROVE Keeps
  <2>1. query' = query /\ searchStates' = UnblockAllCategories(searchStates)
    BY <1>12 DEF RevealTimer
  <2>2. /\ DOMAIN searchStates' = DOMAIN searchStates
        /\ \A c \in DOMAIN searchStates :
              searchStates[c].status # "blocked" => searchStates'[c] = searchStates[c]
    BY <2>1 DEF UnblockAllCategories, SetStatus
  <2> QED
    BY <1>1, <1>2, <2>1, <2>2
<1>13. ASSUME UNCHANGED searchVars PROVE Keeps
  <2>1. query' = query /\ searchStates' = searchStates
    BY <1>13 DEF searchVars
  <2> QED
    BY <1>1, <1>2, <2>1
<1> HIDE DEF Keeps, Cleared
<1>14. Keeps \/ Cleared
  <2>1. ASSUME NEW r \in requests, SettleRequest(r) PROVE Keeps
    BY <1>6, <1>8, <1>9, <1>10, <1>11, <2>1 DEF SettleRequest
  <2> QED
    BY <1>3, <1>4, <1>5, <1>12, <1>13, <2>1 DEF SearchNext
<1> QED
  BY <1>14 DEF Keeps, Cleared

LEMMA ShownIsAnswer ==
  ASSUME SearchInv, NEW c \in Categories
  PROVE  /\ Len(ShownEntries(c)) \in 0..MaxPages
         /\ ShownEntries(c) = Reader!Answer(query, c, Len(ShownEntries(c)))
<1> USE DEF Reader!Answer
<1>1. CASE Revealed(c)
  <2>1. c \in DOMAIN searchStates /\ ShownEntries(c) = searchStates[c].entries
    BY <1>1 DEF Revealed, ShownEntries
  <2>2. /\ ShownEntries(c) \in Seq(Entry) /\ Len(ShownEntries(c)) <= MaxPages
        /\ \A i \in DOMAIN ShownEntries(c) :
             ShownEntries(c)[i] = [term |-> query, category |-> c, page |-> i]
    BY <2>1, StateOf DEF SearchInv, CursorAtEnd, AnswersOfQuery, CategorySearchState
  <2> HIDE <2>1
  <2>3. /\ Len(ShownEntries(c)) \in Nat
        /\ ShownEntries(c) = [i \in 1..Len(ShownEntries(c)) |-> ShownEntries(c)[i]]
    BY <2>2
  <2> QED
    BY <2>2, <2>3, SearchAssumption
<1>2. CASE ~ Revealed(c)
  <2>1. ShownEntries(c) = <<>>
    BY <1>2 DEF ShownEntries
  <2> QED
    BY <2>1, SearchAssumption
<1> QED
  BY <1>1, <1>2

LEMMA ReaderStep ==
  ASSUME SearchInv, [SearchNext]_searchVars, SearchInv'
  PROVE  Reader!ResultsNext
<1> DEFINE shown == [c \in Categories |-> ShownEntries(c)]
<1>1. /\ shown' = [c \in Categories |-> ShownEntries(c)']
      /\ \A c \in Categories : shown[c] = ShownEntries(c)
  OBVIOUS
<1>2. CASE \A c \in Categories : ShownEntries(c)' = <<>>
  <2>1. query' \in Terms \cup {NoTerm}
    BY DEF SearchInv, SearchTypeOK
  <2> QED
    BY <1>1, <1>2, <2>1 DEF Reader!ResultsNext, Reader!StartOver, Reader!Nothing
<1>3. CASE /\ query' = query
           /\ \A c \in Categories : Len(ShownEntries(c)') >= Len(ShownEntries(c))
  <2> DEFINE pages == [c \in Categories |-> Len(ShownEntries(c)')]
  <2>1. ASSUME NEW c \in Categories
        PROVE  /\ Len(ShownEntries(c)') \in 0..MaxPages
               /\ ShownEntries(c)' = Reader!Answer(query, c, Len(ShownEntries(c)'))
    <3>1. /\ (Len(ShownEntries(c)) \in 0..MaxPages)'
          /\ (ShownEntries(c) = Reader!Answer(query, c, Len(ShownEntries(c))))'
      BY ShownIsAnswer, PTL
    <3> QED
      BY <1>3, <3>1 DEF Reader!Answer
  <2>2. pages \in [Categories -> 0..MaxPages]
    BY <2>1
  <2>3. /\ \A c \in Categories : pages[c] >= Len(shown[c])
        /\ shown' = [c \in Categories |-> Reader!Answer(query, c, pages[c])]
    BY <1>1, <1>3, <2>1
  <2> HIDE DEF pages
  <2> QED
    BY <1>3, <2>2, <2>3 DEF Reader!ResultsNext, Reader!ShowMore
<1> QED
  BY <1>2, <1>3, ShownStep

(***************************************************************************)
(* The controller implements the list of answers: one term at a time, and  *)
(* what is shown stays and grows at its end until a new search or a reset. *)
(***************************************************************************)
THEOREM Progressive == SearchSpec => ShowsProgressively
<1>1. SearchInit => Reader!ResultsInit
  BY DEF SearchInit, Reader!ResultsInit, Reader!Nothing, ShownEntries, Revealed
<1>2. SearchInv /\ [SearchNext]_searchVars /\ SearchInv' => [Reader!ResultsNext]_(Reader!resultVars)
  BY ReaderStep
<1> QED
  BY <1>1, <1>2, SearchInvariant, PTL
  DEF SearchSpec, ShowsProgressively, Reader!ResultsSpec
=============================================================================
