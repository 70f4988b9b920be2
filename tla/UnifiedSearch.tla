--------------------------- MODULE UnifiedSearch ---------------------------
(***************************************************************************)
(* UnifiedSearchController (core/src/services/UnifiedSearchController.ts):  *)
(* one search over several categories. Every category is asked at once; an  *)
(* answer that overtakes a category of higher priority is blocked until its *)
(* predecessors have answered or the reveal timer fires. A new search or a  *)
(* reset starts a new generation, whose number tells late answers of older  *)
(* searches apart.                                                          *)
(*                                                                          *)
(* Abstracted: the text of the term and its per-category parameters are one *)
(* value, the answer of a provider is a page number, a page is one entry.   *)
(* A cancelled request rejects, which the generation check ignores; up to   *)
(* MaxLate of them are late: their answer or rejection is still to come.    *)
(***************************************************************************)
EXTENDS Naturals, Sequences, FiniteSets

CONSTANTS Categories,    \* ids of the search providers
          Paginated,     \* providers that answer page by page
          Terms,         \* search terms with their parameters
          NoTerm,        \* the empty query of a controller that was reset
          MaxPages,      \* bound: pages a provider has for a term
          MaxLate        \* bound: late requests of replaced searches

ASSUME SearchAssumption == /\ NoTerm \notin Terms
                           /\ Paginated \subseteq Categories
                           /\ MaxPages \in Nat \ {0}
                           /\ MaxLate \in Nat

VARIABLES query,             \* this.query and this.params
          categories,        \* the categories of the running search, by priority
          searchStates,      \* this.searchStates, a record per category
          searchGeneration,
          revealTimer,       \* whether the reveal timer is armed
          requests           \* requests whose promise has not settled

searchVars == <<query, categories, searchStates, searchGeneration,
                revealTimer, requests>>

Statuses == {"loading", "loaded", "failed", "blocked"}
Entry == [term : Terms, category : Categories, page : 1..MaxPages]
CategorySearchState == [status : Statuses, entries : Seq(Entry),
                        cursor : 0..MaxPages,     \* 0 is null
                        hasMore : BOOLEAN, loadMoreFailed : BOOLEAN]
Request == [generation : Nat, category : Categories, term : Terms,
            cursor : 0..MaxPages, entries : Seq(Entry)]

ElementsOf(s) == {s[i] : i \in DOMAIN s}
Distinct(s) == \A i, j \in DOMAIN s : s[i] = s[j] => i = j
CategoryLists == {s \in Seq(Categories) : Distinct(s)}

(* The categories that come before c in priority. *)
Predecessors(c) == {d \in ElementsOf(categories) :
                      \E i, j \in DOMAIN categories :
                         i < j /\ categories[i] = d /\ categories[j] = c}

Pending(states, c) == states[c].status \in {"loading", "blocked"}

ShouldBlockCategory(states, c) == \E d \in Predecessors(c) : Pending(states, d)

SetStatus(states, S, status) ==
  [c \in DOMAIN states |-> IF c \in S THEN [states[c] EXCEPT !.status = status]
                                      ELSE states[c]]

\* Mutant: any answer reveals whatever is blocked.
RevealOnSettle(states) ==
  SetStatus(states, {c \in DOMAIN states : states[c].status = "blocked"}, "loaded")

\* Mutant: a category is blocked again behind one that loads.
Demote(states) ==
  SetStatus(states, {c \in DOMAIN states :
                       /\ states[c].status \in {"loaded", "blocked"}
                       /\ \E d \in Predecessors(c) : states[d].status = "loading"},
            "blocked")

(* One pass in priority order reveals every blocked category with no        *)
(* pending predecessor; a blocked predecessor that the pass does not reveal *)
(* itself has a loading predecessor, so looking for loading ones is enough. *)
ReconcileCategoryStatuses(states) ==
  SetStatus(states,
            {c \in DOMAIN states :
               /\ states[c].status = "blocked"
               /\ \A d \in Predecessors(c) : states[d].status # "loading"},
            "loaded")

UnblockAllCategories(states) ==
  SetStatus(states, {c \in DOMAIN states : states[c].status = "blocked"}, "loaded")

Unanswered(status) == [status |-> status, entries |-> <<>>, cursor |-> 0,
                       hasMore |-> FALSE, loadMoreFailed |-> FALSE]

SearchInit == /\ query = NoTerm
              /\ categories = <<>>
              /\ searchStates = [c \in {} |-> Unanswered("loading")]
              /\ searchGeneration = 0
              /\ revealTimer = FALSE
              /\ requests = {}

(* cancelPendingRequests: what remains in flight of the cancelled requests. *)
Late == {S \in SUBSET requests : Cardinality(S) <= MaxLate}

NextGeneration == searchGeneration + 1

(* search: replaces the search that runs. *)
Search(t, cats) ==
  /\ query' = t
  /\ categories' = cats
  /\ searchStates' = [c \in ElementsOf(cats) |-> Unanswered("loading")]
  /\ searchGeneration' = NextGeneration
  /\ revealTimer' = TRUE
  /\ \E late \in Late : requests' = late \cup
       {[generation |-> NextGeneration, category |-> c, term |-> t,
         cursor |-> 0, entries |-> <<>>] : c \in ElementsOf(cats)}

Reset ==
  /\ query' = NoTerm
  /\ categories' = <<>>
  /\ searchStates' = [c \in {} |-> Unanswered("loading")]
  /\ searchGeneration' = NextGeneration
  /\ revealTimer' = FALSE
  /\ requests' \in Late

LoadMore(c) ==
  /\ c \in DOMAIN searchStates
  /\ searchStates[c].hasMore
  /\ searchStates[c].status = "loaded"
  /\ searchStates' = [searchStates EXCEPT ![c].status = "loading",
                                          ![c].loadMoreFailed = FALSE]
  /\ requests' = requests \cup
       {[generation |-> searchGeneration, category |-> c, term |-> query,
         cursor |-> searchStates[c].cursor, entries |-> searchStates[c].entries]}
  /\ UNCHANGED <<query, categories, searchGeneration, revealTimer>>

\* Mutant: an answer is used whichever search asked for it.
AnyGeneration(r) == TRUE

Current(r) == r.generation = searchGeneration
Settle(r) == requests' = requests \ {r}

(* The page that answers r: the one after the cursor. *)
PageOf(r) == [term |-> r.term, category |-> r.category, page |-> r.cursor + 1]

(* The continuation of a request of an earlier generation does nothing. *)
DropStale(r) ==
  /\ ~ Current(r)
  /\ Settle(r)
  /\ UNCHANGED <<query, categories, searchStates, searchGeneration, revealTimer>>

(* A first page arrives, possibly empty, possibly with a cursor to go on. *)
AnswerSearch(r, found, more) ==
  /\ Current(r)
  /\ r.cursor = 0
  /\ more => found /\ r.category \in Paginated /\ MaxPages > 1
  /\ Settle(r)
  /\ LET settled ==
           [searchStates EXCEPT ![r.category] =
              [status |-> IF ShouldBlockCategory(searchStates, r.category)
                            THEN "blocked" ELSE "loaded",
               entries |-> IF found THEN <<PageOf(r)>> ELSE <<>>,
               cursor |-> IF more THEN 1 ELSE 0,
               hasMore |-> more, loadMoreFailed |-> FALSE]]
     IN searchStates' = ReconcileCategoryStatuses(settled)
  /\ UNCHANGED <<query, categories, searchGeneration, revealTimer>>

FailSearch(r) ==
  /\ Current(r)
  /\ r.cursor = 0
  /\ Settle(r)
  /\ searchStates' = ReconcileCategoryStatuses(
                       [searchStates EXCEPT ![r.category] = Unanswered("failed")])
  /\ UNCHANGED <<query, categories, searchGeneration, revealTimer>>

(* A further page arrives: it is appended to the entries the request        *)
(* captured. Nothing is reconciled.                                         *)
AnswerMore(r, more) ==
  /\ Current(r)
  /\ r.cursor # 0
  /\ more => r.cursor + 1 < MaxPages
  /\ Settle(r)
  /\ searchStates' = [searchStates EXCEPT
                        ![r.category].entries = Append(r.entries, PageOf(r)),
                        ![r.category].cursor = IF more THEN r.cursor + 1 ELSE 0,
                        ![r.category].hasMore = more,
                        ![r.category].status = "loaded"]
  /\ UNCHANGED <<query, categories, searchGeneration, revealTimer>>

FailMore(r) ==
  /\ Current(r)
  /\ r.cursor # 0
  /\ Settle(r)
  /\ searchStates' = [searchStates EXCEPT ![r.category].status = "loaded",
                                          ![r.category].loadMoreFailed = TRUE]
  /\ UNCHANGED <<query, categories, searchGeneration, revealTimer>>

\* Mutant: the timer fires once per search.
RevealTimerOnce ==
  /\ revealTimer
  /\ revealTimer' = FALSE
  /\ searchStates' = UnblockAllCategories(searchStates)
  /\ UNCHANGED <<query, categories, searchGeneration, requests>>

(* The reveal timer: it re-arms itself as long as something was pending.    *)
RevealTimer ==
  /\ revealTimer
  /\ revealTimer' = (\E c \in DOMAIN searchStates : Pending(searchStates, c))
  /\ searchStates' = UnblockAllCategories(searchStates)
  /\ UNCHANGED <<query, categories, searchGeneration, requests>>

SettleRequest(r) ==
  \/ DropStale(r)
  \/ \E found, more \in BOOLEAN : AnswerSearch(r, found, more)
  \/ FailSearch(r)
  \/ \E more \in BOOLEAN : AnswerMore(r, more)
  \/ FailMore(r)

SearchNext == \/ \E t \in Terms, cats \in CategoryLists : Search(t, cats)
              \/ Reset
              \/ \E c \in Categories : LoadMore(c)
              \/ \E r \in requests : SettleRequest(r)
              \/ RevealTimer

SearchSpec == SearchInit /\ [][SearchNext]_searchVars

-----------------------------------------------------------------------------
SearchTypeOK ==
  /\ query \in Terms \cup {NoTerm}
  /\ categories \in CategoryLists
  /\ searchStates \in [ElementsOf(categories) -> CategorySearchState]
  /\ searchGeneration \in Nat
  /\ revealTimer \in BOOLEAN
  /\ requests \subseteq Request

(* Whether the answers of c are on screen: the modal renders the categories *)
(* that are loaded, and those that load a further page.                     *)
Revealed(c) == /\ c \in DOMAIN searchStates
               /\ searchStates[c].status \in {"loaded", "loading"}

(* Results of one search only: whatever a category holds, shown or still    *)
(* blocked, answers the running term, and is its pages from the first on,   *)
(* none missing, none twice, in order. An answer of an older search, two    *)
(* pages loaded from one cursor, or a page appended to an old copy of the   *)
(* list would break it.                                                     *)
AnswersOfQuery ==
  \A c \in DOMAIN searchStates :
    LET entries == searchStates[c].entries
    IN \A i \in DOMAIN entries :
          entries[i] = [term |-> query, category |-> c, page |-> i]

(* Nobody waits for ever: while an answer is held back, the reveal timer is *)
(* armed, also when the category it waits for has been asked for a further  *)
(* page in the meantime and when nothing is in flight any more.             *)
BlockedIsTimed ==
  (\E c \in DOMAIN searchStates : searchStates[c].status = "blocked") => revealTimer

(* A category that loads has exactly one request of this generation in      *)
(* flight, and no other category has one: no answer is counted twice and    *)
(* none is waited for that nobody sends.                                    *)
LoadingIsRequested ==
  LET flying(c) == {r \in requests : Current(r) /\ r.category = c}
  IN /\ \A c \in DOMAIN searchStates :
          IF searchStates[c].status = "loading"
            THEN Cardinality(flying(c)) = 1 ELSE flying(c) = {}
     /\ \A r \in requests : Current(r) => r.category \in DOMAIN searchStates

(* What is awaited comes: neither results held back nor a category that     *)
(* loads wait for something that is not under way.                          *)
AwaitedComes == BlockedIsTimed /\ LoadingIsRequested

(* The first page of a category is being waited for. *)
FirstPageLoading(c) == /\ c \in DOMAIN searchStates
                       /\ searchStates[c].status = "loading"
                       /\ searchStates[c].cursor = 0

(* Priority: an answer that settles reveals a held-back category, or its    *)
(* own, only when no category of higher priority is pending any more. Only  *)
(* the timer may show results out of order.                                 *)
PriorityRespected ==
  [][(requests' # requests /\ searchGeneration' = searchGeneration) =>
       \A c \in DOMAIN searchStates :
          (/\ FirstPageLoading(c) \/ searchStates[c].status = "blocked"
           /\ searchStates'[c].status = "loaded")
          => \A d \in Predecessors(c) : ~ Pending(searchStates', d)]_searchVars

(* The list a reader sees, as the abstract specification has it. *)
ShownEntries(c) == IF Revealed(c) THEN searchStates[c].entries ELSE <<>>

Reader == INSTANCE SearchResults
            WITH term <- query, shown <- [c \in Categories |-> ShownEntries(c)]

(* The controller implements the abstract list: answers are of one term,    *)
(* and what a category shows stays on screen and only grows at its end,     *)
(* until a new search or a reset clears it (a revealed category must stay   *)
(* revealed, else it flickers when a slower one settles).                   *)
ShowsProgressively == Reader!ResultsSpec
=============================================================================
