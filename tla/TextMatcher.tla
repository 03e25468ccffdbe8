----------------------------- MODULE TextMatcher -----------------------------
(***************************************************************************)
(* The Text Matcher of find_in_page.js: the pattern getRegex_ compiles     *)
(* from the query (escapeRegex_ inside a capture group, flags 'ig') and    *)
(* the regex.exec loop of pumpSearch that splits one text node into plain  *)
(* text pieces and <chrome_find> marker pieces.                           *)
(*                                                                         *)
(* Strings are sequences of one-character strings.  The RegExp engine is   *)
(* modelled for the patterns getRegex_ can build from the alphabet: a      *)
(* capture group around literal characters, escaped characters and '.'     *)
(* (any character but a line terminator), matched case-insensitively, and  *)
(* exec with the global flag searching from lastIndex.  One action is one  *)
(* turn of the while loop; the loop and the Replacement push after it run  *)
(* within one pumpSearch step, so nothing else interleaves with them.      *)
(***************************************************************************)
EXTENDS Integers, Sequences, SequencesExt

CONSTANTS
  Alphabet,     \* the characters texts and queries are made of
  CaseFold,     \* [Alphabet -> Alphabet]: what the 'i' flag compares
  MaxText,      \* longest text node
  MaxQuery,     \* longest query
  NULL

VARIABLES
  text,         \* node.textContent
  query,        \* findText
  regex,        \* the compiled pattern, as tokens
  lastIndex,    \* regex.lastIndex
  strIndex,     \* end of the text already split off
  nodes,        \* the new nodes built so far
  pc            \* "loop" inside the while loop, "done" after it

vars == <<text, query, regex, lastIndex, strIndex, nodes, pc>>

\* REGEX_ESCAPER's character class.
REGEX_SPECIAL == {".", "?", "*", "+", "^", "$", "[", "]", "\\", "(", ")",
                  "{", "}", "|", "-"}

\* escapeRegex_: text.replace(REGEX_ESCAPER, '\\$1').
EscapeRegexNoDot(t) ==
  FlattenSeq([i \in 1..Len(t) |->
                IF t[i] \in REGEX_SPECIAL \ {"."} THEN <<"\\", t[i]>> ELSE <<t[i]>>])

EscapeRegex(t) ==
  FlattenSeq([i \in 1..Len(t) |->
                IF t[i] \in REGEX_SPECIAL THEN <<"\\", t[i]>> ELSE <<t[i]>>])

\* getRegex_: '(' + escapeRegex_(findText) + ')'.
GetRegex(findText) == <<"(">> \o EscapeRegex(findText) \o <<")">>

(***************************************************************************)
(* new RegExp(pattern, 'ig') for the patterns above: the group's           *)
(* parentheses only capture; '\c' is the literal c; '.' is any character;  *)
(* any other character is itself.                                          *)
(***************************************************************************)
RECURSIVE Compile(_)
Compile(p) ==
  IF p = <<>> THEN <<>>
  ELSE IF Head(p) = "\\" THEN <<[any |-> FALSE, ch |-> p[2]]>> \o Compile(Tail(Tail(p)))
  ELSE IF Head(p) \in {"(", ")"} THEN Compile(Tail(p))
  ELSE <<[any |-> Head(p) = ".", ch |-> Head(p)]>> \o Compile(Tail(p))

TokenMatches(tok, c) == tok.any \/ CaseFold[tok.ch] = CaseFold[c]

MatchAt(toks, t, i) ==
  /\ i + Len(toks) <= Len(t)
  /\ \A j \in 1..Len(toks) : TokenMatches(toks[j], t[i + j])

\* regex.exec(t) with the global flag: the first match at or after
\* lastIndex, or null.
Exec(toks, t, from) ==
  LET hits == {i \in from..Len(t) : MatchAt(toks, t, i)} IN
  IF hits = {} THEN NULL ELSE Min(hits)

\* String.prototype.substring(a, b) with 0 <= a <= b <= length.
Substring(t, a, b) == SubSeq(t, a + 1, b)

Piece == [kind : {"text", "marker"}, s : Seq(Alphabet), at : Nat]

\* A split makes at most a marker and a text piece per character, and a
\* tail: the bound on nodes, which only a loop that stops advancing meets.
MaxPieces == 2 * MaxText + 1

\* The findText the loop can see, had highlightWord not returned on ''.
FindTextsWithEmpty == SeqOf(Alphabet, MaxQuery)

\* highlightWord returns NO_RESULTS on an empty findText before getRegex_.
FindTexts == SeqOf(Alphabet, MaxQuery) \ {<<>>}

Init ==
  /\ text \in SeqOf(Alphabet, MaxText)
  /\ query \in FindTexts
  /\ regex = Compile(GetRegex(query))
  /\ lastIndex = 0 /\ strIndex = 0 /\ nodes = <<>> /\ pc = "loop"

(***************************************************************************)
(* A turn of the loop that finds a match: the text before it (when         *)
(* match.index > 0) and a marker holding the matched text are pushed.      *)
(***************************************************************************)
ExecMatchPastEnd ==
  LET m   == Exec(regex, text, lastIndex)
      end == m + Len(regex)
  IN /\ pc = "loop" /\ m # NULL
     /\ Len(nodes) < MaxPieces
     /\ nodes' = nodes
                 \o (IF m > 0 THEN <<[kind |-> "text", s |-> Substring(text, strIndex, m), at |-> strIndex]>>
                     ELSE <<>>)
                 \o <<[kind |-> "marker", s |-> Substring(text, m, end), at |-> m]>>
     /\ strIndex' = end + 1
     /\ lastIndex' = end
     /\ UNCHANGED <<text, query, regex, pc>>

ExecMatch ==
  LET m   == Exec(regex, text, lastIndex)
      end == m + Len(regex)
  IN /\ pc = "loop" /\ m # NULL
     /\ Len(nodes) < MaxPieces
     /\ nodes' = nodes
                 \o (IF m > 0 THEN <<[kind |-> "text", s |-> Substring(text, strIndex, m), at |-> strIndex]>>
                     ELSE <<>>)
                 \o <<[kind |-> "marker", s |-> Substring(text, m, end), at |-> m]>>
     /\ strIndex' = end
     /\ lastIndex' = end
     /\ UNCHANGED <<text, query, regex, pc>>

(***************************************************************************)
(* exec finds nothing more: it resets lastIndex to 0 and the loop ends;    *)
(* if there were matches the rest of the text is pushed and the            *)
(* Replacement is made (regex.lastIndex = 0 again).                        *)
(***************************************************************************)
ExecNoneDropLast ==
  /\ pc = "loop" /\ Exec(regex, text, lastIndex) = NULL
  /\ lastIndex' = 0
  /\ nodes' = IF nodes # <<>> /\ strIndex < Len(text) - 1
              THEN Append(nodes, [kind |-> "text", s |-> Substring(text, strIndex, Len(text)), at |-> strIndex])
              ELSE nodes
  /\ pc' = "done"
  /\ UNCHANGED <<text, query, regex, strIndex>>

ExecNone ==
  /\ pc = "loop" /\ Exec(regex, text, lastIndex) = NULL
  /\ lastIndex' = 0
  /\ nodes' = IF nodes # <<>> /\ strIndex < Len(text)
              THEN Append(nodes, [kind |-> "text", s |-> Substring(text, strIndex, Len(text)), at |-> strIndex])
              ELSE nodes
  /\ pc' = "done"
  /\ UNCHANGED <<text, query, regex, strIndex>>

Next == ExecMatch \/ ExecNone

Spec == Init /\ [][Next]_vars

\* The loop runs inside one pumpSearch step and nothing else runs until it
\* ends, so a turn that can be taken is taken.
FairSpec == Spec /\ WF_vars(Next)

(***************************************************************************)
(* Reference: the leftmost non-overlapping occurrences of the query as a   *)
(* literal string, compared under CaseFold, by a direct scan.              *)
(***************************************************************************)
LiteralAt(q, t, i) ==
  i + Len(q) <= Len(t) /\ \A j \in 1..Len(q) : CaseFold[q[j]] = CaseFold[t[i + j]]

RECURSIVE Occurrences(_, _, _)
Occurrences(q, t, i) ==
  IF i + Len(q) > Len(t) THEN <<>>
  ELSE IF LiteralAt(q, t, i) THEN <<i>> \o Occurrences(q, t, i + Len(q))
  ELSE Occurrences(q, t, i + 1)

Markers == SelectSeq(nodes, LAMBDA n : n.kind = "marker")

(***************************************************************************)
(* Properties.                                                             *)
(***************************************************************************)
TypeOK ==
  /\ text \in Seq(Alphabet) /\ query \in Seq(Alphabet)
  /\ lastIndex \in 0..Len(text) /\ strIndex \in 0..Len(text)
  /\ nodes \in Seq(Piece) /\ pc \in {"loop", "done"}

\* The query is matched as a literal string: after the loop the markers
\* sit exactly at the leftmost non-overlapping occurrences of findText,
\* whatever regex metacharacters it contains (escapeRegex_, getRegex_ and
\* the global exec loop together).
MarkersAreLiteralOccurrences ==
  pc = "done" => [i \in 1..Len(Markers) |-> Markers[i].at] = Occurrences(query, text, 0)

\* The Replacement's new nodes spell the old text node's text: no text is
\* lost or repeated around the markers.
SplitPreservesText ==
  (pc = "done" /\ nodes # <<>>) => FlattenSeq([i \in 1..Len(nodes) |-> nodes[i].s]) = text
\* The split loop ends: every match moves regex.lastIndex past it, because
\* getRegex_ is never given an empty findText and so never builds a pattern
\* that matches the empty string (exec would then return the same match
\* forever and the page would freeze).
SplitTerminates == <>(pc = "done")
=============================================================================
