---------------------------- MODULE MC_FindInPage ----------------------------
(***************************************************************************)
(* A page for TLC:                                                         *)
(*                                                                         *)
(*   body -+- div (display:none) --- t1                                    *)
(*         +- t2                                                           *)
(*         +- script --- t3                                                *)
(*   frame w1 (same origin): fdoc --- t4                                   *)
(*   frame w2 (cross origin): its document cannot be read                  *)
(*   ndoc: the (empty) document a frame holds after it navigates           *)
(*                                                                         *)
(* The texts are "a.b", "aA", "a" and "A."; the queries Q1, Q2 and Q3 are *)
(* "a", "b" and ".".  Occ is what the Text Matcher finds: Q1 once in t1,   *)
(* twice in t2, once in t3 and once in t4; Q2 only in the hidden t1; Q3   *)
(* once in t1 and once in t4, and nowhere else only because escapeRegex_   *)
(* escapes the '.'.  The occurrences in t2 and t4 are visible.             *)
(***************************************************************************)
EXTENDS FindInPage

CONSTANTS body, div, t1, t2, script, t3, t4, fdoc, xdoc, ndoc, top, w1, w2, Q1, Q2, Q3

mcNodes == {body, div, t1, t2, script, t3, t4, fdoc, xdoc, ndoc}
mcTexts == {t1, t2, t3, t4}

mcKind ==
  [n \in mcNodes |->
     CASE n \in {body, div} -> "element"
       [] n \in {t1, t2, t3, t4} -> "text"
       [] n = script -> "ignored"
       [] n \in {fdoc, xdoc, ndoc} -> "document"]

mcChildren ==
  [n \in mcNodes |->
     CASE n = body -> <<div, t2, script>>
       [] n = div -> <<t1>>
       [] n = script -> <<t3>>
       [] n = fdoc -> <<t4>>
       [] OTHER -> <<>>]

mcFrames == [w \in {top, w1, w2} |-> IF w = top THEN <<w1, w2>> ELSE <<>>]
mcDocOf == [w \in {top, w1, w2} |-> IF w = w2 THEN xdoc ELSE fdoc]
mcNavDocOf == [w \in {top, w1, w2} |-> ndoc]

mcAlphabet == {"a", "A", "b", "."}
mcCaseFold == [c \in mcAlphabet |-> IF c = "A" THEN "a" ELSE c]

mcTextContent == [t \in mcTexts |-> CASE t = t1 -> <<"a", ".", "b">>
                                      [] t = t2 -> <<"a", "A">>
                                      [] t = t3 -> <<"a">>
                                      [] t = t4 -> <<"A", ".">>]
mcFindText == [q \in {Q1, Q2, Q3} |-> CASE q = Q1 -> <<"a">>
                                          [] q = Q2 -> <<"b">>
                                          [] q = Q3 -> <<".">>]

\* The Text Matcher over one text node; only its operators are used.
TM == INSTANCE TextMatcher WITH Alphabet <- mcAlphabet, CaseFold <- mcCaseFold,
        MaxText <- 5, MaxQuery <- 2, text <- <<>>, query <- <<>>, regex <- <<>>,
        lastIndex <- 0, strIndex <- 0, nodes <- <<>>, pc <- "done"

\* The markers pumpSearch's split makes per query and text node: the
\* leftmost non-overlapping occurrences, which MC_TextMatcher shows the
\* regex.exec loop produces.
mcOcc ==
  [q \in {Q1, Q2, Q3} |->
     [t \in mcTexts |-> Len(TM!Occurrences(mcFindText[q], mcTextContent[t], 0))]]

ASSUME \A q \in {Q1, Q2, Q3}, t \in mcTexts : mcOcc[q][t] <= MaxOcc

mcShown == {<<t2, 1>>, <<t2, 2>>, <<t4, 1>>}
=============================================================================
