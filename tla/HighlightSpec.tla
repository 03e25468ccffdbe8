---------------------------- MODULE HighlightSpec ----------------------------
(***************************************************************************)
(* What find-in-page promises about the page's highlights, whatever the    *)
(* slicing: the page shows highlights only in text nodes that contain the  *)
(* pattern being searched for; a search may start over with a new pattern *)
(* (dropping the old highlights), highlights may be added for the current  *)
(* pattern, or all of them removed at once.  It never removes only some,   *)
(* and never highlights text for a pattern other than the current one,     *)
(* except that the page itself may remove a highlighted text node.         *)
(***************************************************************************)
EXTENDS Naturals

CONSTANTS
  Texts,      \* the page's text nodes
  Patterns,   \* the compiled search patterns
  Occ,        \* [Patterns -> [Texts -> Nat]]: occurrences per text node
  NONE        \* no pattern compiled yet

VARIABLES
  marked,     \* text nodes whose place holds highlight nodes
  query       \* the pattern of the current search

vars == <<marked, query>>

Holding(q) == {t \in Texts : Occ[q][t] > 0}

TypeOK == marked \subseteq Texts /\ query \in Patterns \cup {NONE}

Init == marked = {} /\ query = NONE

\* A new search: the old highlights go, some of the new pattern's may come.
Search(q) ==
  /\ query' = q
  /\ marked' \subseteq Holding(q)

\* More highlights for the current pattern.
Mark ==
  /\ query # NONE /\ query' = query
  /\ marked \subseteq marked'
  /\ marked' \subseteq marked \cup Holding(query)

\* Every highlight removed.
Clear ==
  /\ marked' = {} /\ query' = query

\* The page removes a text node, highlights and all.
Lose(t) ==
  /\ marked' = marked \ {t} /\ query' = query

Next == (\E q \in Patterns : Search(q)) \/ Mark \/ Clear \/ (\E t \in marked : Lose(t))

Spec == Init /\ [][Next]_vars
=============================================================================
