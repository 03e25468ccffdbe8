---------------------------- MODULE MC_Algorithms ----------------------------
(***************************************************************************)
(* The pure algorithms of find_in_page.js over bounded inputs: the Text    *)
(* Matcher's split loop over every short text and query, and the scroll   *)
(* target's normalization over every small layout of one axis.            *)
(*                                                                         *)
(* The alphabet: a letter in both cases, another letter, and '.', the      *)
(* metacharacter a query most often holds.                                *)
(*                                                                         *)
(* The two computations share no state, so a behaviour runs one of them   *)
(* and starts the other in a state it ends in: a split of the empty text  *)
(* (whose loop ends at the first exec) or a layout already normalized.    *)
(***************************************************************************)
EXTENDS TextMatcher, Coordinates

mcAlphabet == {"a", "A", "b", "."}

mcCaseFold == [c \in mcAlphabet |-> IF c = "A" THEN "a" ELSE c]

\* The state a split of the empty text ends in.
SplitOfEmptyDone ==
  LET q == <<CHOOSE c \in Alphabet : TRUE>>
  IN  /\ text = <<>> /\ query = q /\ regex = Compile(GetRegex(q))
      /\ lastIndex = 0 /\ strIndex = 0 /\ nodes = <<>> /\ pc = "done"

\* The state findScrollDimensions_ leaves for one layout.
LayoutNormalized ==
  /\ layout = CHOOSE l \in Layouts : TRUE
  /\ normalized = TRUE
  /\ target = NormalizedHalf(layout.pos, layout.size, layout.m, layout.inner)

AlgInit ==
  \/ Init /\ LayoutNormalized
  \/ SplitOfEmptyDone /\ CoInit

AlgNext ==
  \/ Next /\ UNCHANGED coVars
  \/ Normalize /\ UNCHANGED vars

\* Fairness as in TextMatcher's FairSpec: the split loop runs to its end.
AlgSpec == AlgInit /\ [][AlgNext]_<<vars, coVars>> /\ WF_vars(Next)

\* Bounding rectangles starting left of the viewport, at it and past it.
mcRectStarts == {-3, -1, 0, 2, 5}
=============================================================================
