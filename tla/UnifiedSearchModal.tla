------------------------ MODULE UnifiedSearchModal -------------------------
(***************************************************************************)
(* The search field of the header (core/src/views/UnifiedSearch.vue) and    *)
(* the results modal (UnifiedSearchModal.vue) over the controller of        *)
(* UnifiedSearch: what is typed, the filters, the debounced search, the     *)
(* providers that load when the modal first opens, the rows on screen and   *)
(* the highlighted row.                                                     *)
(*                                                                          *)
(* One action is one task of the event loop together with the watchers Vue  *)
(* flushes after it. Every change of the rows moves the highlight           *)
(* (ReconcileActiveIndex) within the same step. Focus, the contact list of  *)
(* the person filter, wording and the plugin filters are left out.          *)
(***************************************************************************)
EXTENDS Integers, UnifiedSearch, SequencesExt

CONSTANTS Texts,         \* what can stand in the search field
          Empty,         \* the empty text
          TooShort,      \* texts below min-search-length
          Providers,     \* all categories in the order the server sends
          External,      \* categories searched only when switched on
          Compatible,    \* categories that support the person or date filter
          Pages,         \* layouts: "desktop", "mobile", "local"
          MaxInputs,     \* bound: what the user does in the field and filters
          NoFind         \* no debounced search pending

ASSUME ModalAssumption ==
  /\ Empty \in Texts /\ TooShort \subseteq Texts
  /\ Providers \in CategoryLists /\ ElementsOf(Providers) = Categories
  /\ External \subseteq Categories /\ Compatible \subseteq Categories
  /\ Pages \subseteq {"desktop", "mobile", "local"}
  /\ Terms = Texts \X BOOLEAN
  /\ NoFind \notin Texts
  /\ MaxInputs \in Nat

VARIABLES page,               \* the layout: constant while the page lives
          open,               \* showUnifiedSearch
          searchQuery,        \* queryText of the header and searchQuery
          filteredProviders,  \* provider filters, in the order applied
          contentFilter,      \* whether a person or date filter is applied
          searchExternal,     \* searchExternalResources
          providers,          \* the providers loaded
          initialized,
          loading,            \* provider loads in flight
          debounced,          \* the argument of the pending debounced find
          activeIndex,        \* the highlighted row, -1 for none
          inputs              \* counter for MaxInputs

modalVars == <<page, open, searchQuery, filteredProviders, contentFilter,
               searchExternal, providers, initialized, loading, debounced,
               activeIndex, inputs>>
vars == <<searchVars, modalVars>>

-----------------------------------------------------------------------------
(* The rows on screen *)

(* results: the categories with entries that are loaded or load more. *)
Results == IF searchQuery = Empty \/ searchQuery \in TooShort THEN {}
           ELSE {c \in DOMAIN searchStates : Revealed(c) /\ searchStates[c].entries # <<>>}

(* supportsActiveFilters *)
Supported == IF contentFilter THEN Compatible ELSE Categories

(* The rows of the categories of S, one group after the other. *)
RowsOf(S, partial) ==
  FlattenSeq([g \in DOMAIN categories |->
                IF categories[g] \in S
                  THEN [i \in DOMAIN searchStates[categories[g]].entries |->
                          [category |-> categories[g], index |-> i, partial |-> partial]]
                  ELSE <<>>])

(* The groups that support the filters, then the partial matches. *)
NavigableRows ==
  IF page = "mobile" THEN <<>>
  ELSE RowsOf(Results \cap Supported, FALSE) \o RowsOf(Results \ Supported, TRUE)

\* Mutant: an emptied list leaves the index alone.
KeepIndex(next, previous, active) ==
  IF active + 1 \in DOMAIN previous /\ \E i \in DOMAIN next : next[i] = previous[active + 1]
    THEN (CHOOSE i \in DOMAIN next : next[i] = previous[active + 1]) - 1
    ELSE IF active \in 0..(Len(next) - 1) THEN active ELSE 0

\* Mutant: the index is kept, whatever row it now names.
ClampIndex(next, previous, active) ==
  CASE next = <<>> -> -1
    [] active \in 0..(Len(next) - 1) -> active
    [] OTHER -> 0

(* Keep the selected row where it still exists, otherwise take the first. *)
ReconcileActiveIndex(next, previous, active) ==
  LET kept == {i \in DOMAIN next : active + 1 \in DOMAIN previous
                                   /\ next[i] = previous[active + 1]}
  IN CASE next = <<>> -> -1
       [] next # <<>> /\ active + 1 \in DOMAIN previous ->
            IF kept = {} THEN 0 ELSE (CHOOSE i \in kept : TRUE) - 1
       [] OTHER -> IF active \in 0..(Len(next) - 1) THEN active ELSE 0

(* The navigableRows watcher. *)
FollowRows ==
  activeIndex' \in {ReconcileActiveIndex(next, previous, activeIndex) :
                      next \in {NavigableRows'}, previous \in {NavigableRows}}

-----------------------------------------------------------------------------
(* Searching *)

(* list.filter(), by the set of what passes the test. *)
Kept(list, S) ==
  LET kept[n \in 0..Len(list)] ==
        IF n = 0 THEN <<>>
        ELSE IF list[n] \in S THEN Append(kept[n - 1], list[n]) ELSE kept[n - 1]
  IN kept[Len(list)]

(* The categories a search asks: those filtered for, otherwise all of them  *)
(* but the external ones that are not switched on.                          *)
Searchable(list, external) ==
  IF filteredProviders # <<>> THEN filteredProviders
  ELSE Kept(list, IF external THEN Categories ELSE Categories \ External)

\* Mutant: what stands in the field by now is not looked at.
FindWhateverTyped(text, ready, asked) ==
  IF ~ ready THEN UNCHANGED searchVars ELSE Search(<<text, contentFilter>>, asked)

(* find: nothing for a field that is too short by now, and nothing before   *)
(* the providers are known; their load runs it again.                       *)
Find(text, ready, asked) ==
  IF searchQuery \in TooShort \/ ~ ready
    THEN UNCHANGED searchVars
    ELSE Search(<<text, contentFilter>>, asked)

(* The same, for handlers that search what stands in the field, if anything. *)
FindIfTyped(ready, asked) ==
  IF searchQuery # Empty THEN Find(searchQuery, ready, asked) ELSE UNCHANGED searchVars

ModalInit ==
  /\ SearchInit
  /\ page \in Pages
  /\ open = FALSE
  /\ searchQuery = Empty
  /\ filteredProviders = <<>>
  /\ contentFilter = FALSE
  /\ searchExternal = FALSE
  /\ providers = <<>>
  /\ initialized = FALSE
  /\ loading = 0
  /\ debounced = NoFind
  /\ activeIndex = -1
  /\ inputs = 0

(* Inputs count against the bound; closing, removing a filter, moving the   *)
(* highlight and loading more are free.                                     *)
Input == inputs < MaxInputs /\ inputs' = inputs + 1

(* The open watcher when the modal opens: providers load unless they have   *)
(* loaded, and a query that is already there is searched.                   *)
OnOpen == /\ open' = TRUE
          /\ loading' = IF initialized THEN loading ELSE loading + 1
          /\ FindIfTyped(initialized, Searchable(providers, searchExternal))

(* Typing while the modal stays open: the search is debounced. *)
TypeOpen(text) ==
  /\ Input
  /\ open
  /\ text # searchQuery
  /\ page = "desktop" => text # Empty
  /\ searchQuery' = text
  /\ debounced' = text
  /\ UNCHANGED <<searchVars, page, open, filteredProviders, contentFilter,
                 searchExternal, providers, initialized, loading>>
  /\ FollowRows

(* On desktop the first character opens the modal: the open watcher runs    *)
(* before the new text reaches searchQuery, which then debounces.           *)
TypeOpens(text) ==
  /\ Input
  /\ page = "desktop" /\ ~ open
  /\ text # Empty /\ text # searchQuery
  /\ OnOpen
  /\ searchQuery' = text
  /\ debounced' = text
  /\ UNCHANGED <<page, filteredProviders, contentFilter, searchExternal,
                 providers, initialized>>
  /\ FollowRows

(* Escape, the scrim and the close button close and clear the field; on     *)
(* desktop clearing the field closes. The results are reset, a debounced    *)
(* search stays pending.                                                    *)
Close ==
  /\ open
  /\ open' = FALSE
  /\ searchQuery' = Empty
  /\ Reset
  /\ UNCHANGED <<page, filteredProviders, contentFilter, searchExternal,
                 providers, initialized, loading, debounced, inputs>>
  /\ FollowRows

(* The funnel or the mobile button opens the modal without typing. *)
Open ==
  /\ Input
  /\ ~ open
  /\ OnOpen
  /\ UNCHANGED <<page, searchQuery, filteredProviders, contentFilter,
                 searchExternal, providers, initialized, debounced>>
  /\ FollowRows

(* On a page with a search bar of its own: close, but keep the query for    *)
(* it; the bar's input then reaches searchQuery while the modal is closed.  *)
SearchLocally ==
  /\ page = "local" /\ open
  /\ open' = FALSE
  /\ Reset
  /\ UNCHANGED <<page, searchQuery, filteredProviders, contentFilter,
                 searchExternal, providers, initialized, loading, debounced, inputs>>
  /\ FollowRows

TypeClosed(text) ==
  /\ Input
  /\ page = "local" /\ ~ open
  /\ text # searchQuery
  /\ searchQuery' = text
  /\ UNCHANGED <<searchVars, page, open, filteredProviders, contentFilter,
                 searchExternal, providers, initialized, loading, debounced>>
  /\ FollowRows

DebounceFires ==
  /\ debounced # NoFind
  /\ debounced' = NoFind
  /\ Find(debounced, initialized, Searchable(providers, searchExternal))
  /\ UNCHANGED <<page, open, searchQuery, filteredProviders, contentFilter,
                 searchExternal, providers, initialized, loading, inputs>>
  /\ FollowRows

\* Mutant: a deferred search is not run.
ProvidersLoadedOnly(list) ==
  /\ loading > 0
  /\ loading' = loading - 1
  /\ providers' = list
  /\ initialized' = TRUE
  /\ UNCHANGED <<searchVars, page, open, searchQuery, filteredProviders,
                 contentFilter, searchExternal, debounced, activeIndex, inputs>>

(* The providers arrive; a list the server could not send is empty. A       *)
(* search that was deferred runs now, if the modal is still open.           *)
ProvidersLoaded(list) ==
  /\ loading > 0
  /\ loading' = loading - 1
  /\ providers' = list
  /\ initialized' = TRUE
  /\ IF open THEN FindIfTyped(TRUE, Searchable(list, searchExternal)) ELSE UNCHANGED searchVars
  /\ UNCHANGED <<page, open, searchQuery, filteredProviders, contentFilter,
                 searchExternal, debounced, inputs>>
  /\ FollowRows

(* The contacts could not be loaded: the providers that came are discarded. *)
LoadFails ==
  /\ loading > 0
  /\ loading' = loading - 1
  /\ initialized' = TRUE
  /\ UNCHANGED <<searchVars, page, open, searchQuery, filteredProviders,
                 contentFilter, searchExternal, providers, debounced,
                 activeIndex, inputs>>

-----------------------------------------------------------------------------
(* Filters: in the open modal *)

Applied(c) == Append(Kept(filteredProviders, Categories \ {c}), c)

(* Applying a filter that is applied already moves it to the end. *)
AddProviderFilter(c) ==
  /\ Input
  /\ open
  /\ c \in ElementsOf(providers)
  /\ filteredProviders' = Applied(c)
  /\ debounced' = searchQuery
  /\ UNCHANGED <<searchVars, page, open, searchQuery, contentFilter,
                 searchExternal, providers, initialized, loading, activeIndex>>

RemoveProviderFilter(c) ==
  /\ open
  /\ c \in ElementsOf(filteredProviders)
  /\ filteredProviders' = Kept(filteredProviders, Categories \ {c})
  /\ debounced' = searchQuery
  /\ UNCHANGED <<searchVars, page, open, searchQuery, contentFilter, inputs,
                 searchExternal, providers, initialized, loading, activeIndex>>

(* A person or a date is applied or removed: rows regroup at once, the      *)
(* search follows when the debounce fires.                                  *)
ToggleContentFilter ==
  /\ IF contentFilter THEN UNCHANGED inputs ELSE Input
  /\ open
  /\ contentFilter' = ~ contentFilter
  /\ debounced' = searchQuery
  /\ UNCHANGED <<searchVars, page, open, searchQuery, filteredProviders,
                 searchExternal, providers, initialized, loading>>
  /\ FollowRows

(* The switch for external resources searches at once; its watcher runs     *)
(* find with the new value.                                                 *)
ToggleExternal ==
  /\ Input
  /\ open
  /\ External \cap ElementsOf(providers) # {}
  /\ searchExternal' = ~ searchExternal
  /\ FindIfTyped(initialized, Searchable(providers, ~ searchExternal))
  /\ UNCHANGED <<page, open, searchQuery, filteredProviders, contentFilter,
                 providers, initialized, loading, debounced>>
  /\ FollowRows

-----------------------------------------------------------------------------
(* The list *)

(* The button under a category that is on screen and has more. *)
LoadMoreResultsForProvider(c) ==
  /\ open
  /\ c \in Results
  /\ LoadMore(c)
  /\ UNCHANGED <<page, open, searchQuery, filteredProviders, contentFilter,
                 searchExternal, providers, initialized, loading, debounced, inputs>>
  /\ FollowRows

MoveActive(direction) ==
  LET last == Len(NavigableRows) - 1
  IN /\ open
     /\ NavigableRows # <<>>
     /\ activeIndex' = CASE direction = "next" ->
                              IF activeIndex < last THEN activeIndex + 1 ELSE last
                         [] direction = "prev" ->
                              IF activeIndex > 0 THEN activeIndex - 1 ELSE 0
                         [] direction = "first" -> 0
                         [] direction = "last" -> last
     /\ UNCHANGED <<searchVars, page, open, searchQuery, filteredProviders,
                    contentFilter, searchExternal, providers, initialized,
                    loading, debounced, inputs>>

(* The controller's own steps: an answer, a failure, the reveal timer. *)
Background(step) ==
  /\ step
  /\ UNCHANGED <<page, open, searchQuery, filteredProviders, contentFilter,
                 searchExternal, providers, initialized, loading, debounced, inputs>>
  /\ FollowRows

SettleOne == \E r \in requests : Background(SettleRequest(r))
FirstPageSettles == \E r \in requests : r.cursor = 0 /\ Background(SettleRequest(r))
TimerFires == Background(RevealTimer)
LoadEnds == ProvidersLoaded(Providers) \/ ProvidersLoaded(<<>>) \/ LoadFails

Next == \/ \E text \in Texts : TypeOpen(text) \/ TypeOpens(text) \/ TypeClosed(text)
        \/ Open
        \/ Close
        \/ SearchLocally
        \/ DebounceFires
        \/ LoadEnds
        \/ \E c \in Categories : \/ AddProviderFilter(c)
                                 \/ RemoveProviderFilter(c)
                                 \/ LoadMoreResultsForProvider(c)
        \/ ToggleContentFilter
        \/ ToggleExternal
        \/ \E d \in {"next", "prev", "first", "last"} : MoveActive(d)
        \/ SettleOne
        \/ TimerFires

(* Timers fire and requests settle: the browser's event loop runs on, and   *)
(* every request ends in an answer, an error or a cancellation. Requests    *)
(* for further pages need no fairness.                                      *)
Fairness == /\ WF_vars(DebounceFires)
            /\ WF_vars(LoadEnds)
            /\ WF_vars(FirstPageSettles)
            /\ WF_vars(TimerFires)

ModalSpec == ModalInit /\ [][Next]_vars /\ Fairness

-----------------------------------------------------------------------------
(* The highlight is on a row that is on screen: the index is valid whenever *)
(* there are rows and -1 when there are none, through regrouping, shrinking *)
(* and emptied lists.                                                       *)
HighlightOnRow ==
  IF NavigableRows = <<>> THEN activeIndex = -1
  ELSE activeIndex \in 0..(Len(NavigableRows) - 1)

ModalTypeOK ==
  /\ SearchTypeOK
  /\ page \in Pages
  /\ open \in BOOLEAN
  /\ searchQuery \in Texts
  /\ filteredProviders \in CategoryLists
  /\ contentFilter \in BOOLEAN
  /\ searchExternal \in BOOLEAN
  /\ providers \in CategoryLists
  /\ initialized \in BOOLEAN
  /\ loading \in Nat
  /\ debounced \in Texts \cup {NoFind}
  /\ HighlightOnRow
  /\ inputs \in 0..MaxInputs

(* A hidden modal must not fire background searches, and what it found is   *)
(* cleared so that it cannot flash on the next open: closed, it holds no    *)
(* states, no armed timer and no request whose answer would be used,        *)
(* although a debounced search or a load of the providers may be pending.   *)
(* Not so on a page with a search bar of its own, where the query survives  *)
(* the closing and with it the debounced search.                            *)
ClosedIsQuiet ==
  ~ open /\ page # "local" =>
            /\ categories = <<>>
            /\ ~ revealTimer
            /\ \A r \in requests : ~ Current(r)

(* A slower category that settles, is revealed or loads a further page does *)
(* not move the highlight off the row the user has selected, wherever its   *)
(* rows are inserted.                                                       *)
HighlightStays ==
  [][(/\ searchStates' # searchStates
      /\ searchGeneration' = searchGeneration
      /\ activeIndex >= 0)
     => /\ activeIndex' >= 0
        /\ NavigableRows'[activeIndex' + 1] = NavigableRows[activeIndex + 1]]_vars

(* What the open modal shows answers what stands in the field under the     *)
(* filters applied, from every category to be asked, and every first page   *)
(* has arrived and is revealed.                                             *)
UpToDate ==
  (open /\ searchQuery # Empty /\ searchQuery \notin TooShort /\ providers # <<>>) =>
    /\ query = <<searchQuery, contentFilter>>
    /\ categories = Searchable(providers, searchExternal)
    /\ \A c \in DOMAIN searchStates :
          searchStates[c].status # "blocked" /\ ~ FirstPageLoading(c)

(* Once the user stops typing and filtering, the modal catches up for good: *)
(* through the debounce, a search deferred until the providers are loaded,  *)
(* a second load after a quick close and reopen, and the reveal timer.      *)
CatchesUp == <>[]UpToDate
=============================================================================
