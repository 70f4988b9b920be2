--------------------------- MODULE SearchResults ---------------------------
(***************************************************************************)
(* What the unified search promises its reader, without requests, timers    *)
(* or generations: a list of answers per category that belongs to one term. *)
(* A new term empties every list; until then a list only grows at its end,  *)
(* page after page, and never takes back an answer it has shown.            *)
(***************************************************************************)
EXTENDS Naturals, Sequences

CONSTANTS Categories,    \* the search providers
          Terms,         \* what can be searched for: a text and its filters
          NoTerm,        \* no search since the list was last cleared
          MaxPages       \* bound: pages a category has for a term

VARIABLES term,          \* what the shown answers answer
          shown          \* per category the answers shown, in order

resultVars == <<term, shown>>

(* The first n pages of the answer of category c to term t. *)
Answer(t, c, n) == [i \in 1..n |-> [term |-> t, category |-> c, page |-> i]]

Nothing == [c \in Categories |-> <<>>]

ResultsInit == term = NoTerm /\ shown = Nothing

(* A search starts, or the list is cleared. *)
StartOver == /\ term' \in Terms \cup {NoTerm}
             /\ shown' = Nothing

(* Some categories show more pages than before. *)
ShowMore == /\ term' = term
            /\ \E pages \in [Categories -> 0..MaxPages] :
                 /\ \A c \in Categories : pages[c] >= Len(shown[c])
                 /\ shown' = [c \in Categories |-> Answer(term, c, pages[c])]

ResultsNext == StartOver \/ ShowMore

ResultsSpec == ResultsInit /\ [][ResultsNext]_resultVars
=============================================================================
