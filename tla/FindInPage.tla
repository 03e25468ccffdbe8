----------------------------- MODULE FindInPage -----------------------------
(***************************************************************************)
(* find_in_page.js: the time-sliced search engine, the highlight           *)
(* replacements, match navigation and the init/disable lifecycle, all of   *)
(* which share the module-level state of one JavaScript closure.           *)
(*                                                                         *)
(* Every host call (highlightWord, pumpSearch, goNext, goPrev,             *)
(* incrementIndex, decrementIndex, init, disable) and every timer callback *)
(* runs to completion on the page's single JavaScript thread, so each is   *)
(* ONE atomic action.  The loops inside pumpSearch are RECURSIVE operators *)
(* over a record holding the closure's state; a Timer whose overtime()     *)
(* first returns true at its (k+1)-th call is the budget k (Forever: never *)
(* true), which covers every way wall-clock time can cut a slice.          *)
(*                                                                         *)
(* The DOM is abstracted to: a fixed tree of elements and text nodes       *)
(* (Children), the number of occurrences of each query in each text node   *)
(* (Occ, the Text Matcher's result), and which occurrences the Visibility  *)
(* Oracle reports visible once attached (Shown).  tree[t] says what        *)
(* occupies the place of text node t: ORIG (t itself) or the new nodes of  *)
(* the Replacement with that id.  A marker <<id, t, i>> is the             *)
(* <chrome_find> element of the i-th occurrence in t made by Replacement   *)
(* id; it is attached exactly when tree[t] = id.                           *)
(***************************************************************************)
EXTENDS Integers, Sequences, SequencesExt, FiniteSets, Bags, BagsExt, TLC

CONSTANTS
  Nodes, Texts, Body,      \* DOM nodes, the text nodes among them, document.body
  Kind,                    \* [Nodes -> {"element", "text", "ignored", "document"}]
  Children,                \* [Nodes -> Seq(Nodes)]: childNodes
  Windows, TopWindow,      \* the window and its (nested) frames
  Frames,                  \* [Windows -> Seq(Windows)]: win.frames
  Accessible,              \* frames whose document can be read (same origin)
  DocOf,                   \* [Windows -> Nodes]: the document of a frame
  NavDocOf,                \* [Windows -> Nodes]: its document after it navigates
  Queries, EMPTY,          \* query strings; EMPTY is ''
  Occ,                     \* [Queries \ {EMPTY} -> [Texts -> Nat]]: matches per text
  Shown,                   \* occurrences <<t, i>> isElementVisible_ accepts
  MAX_VISIBLE_ELEMENTS,
  Budgets, Forever,        \* overtime budgets a pumpSearch call may get
  NavigationCalls,         \* does the host call goNext/goPrev?
  NavDuringSearch,         \* may the host call goNext/goPrev mid-search?
  DirectIndexCalls,        \* does the host call incrementIndex/decrementIndex?
  PageMutations,           \* may the page's own scripts change the DOM?
  FrameEvents,             \* may frames navigate, or the page drop the style?
  MaxSearches, MaxIds, MaxStack, MaxTimers,   \* bounds of the model
  MaxPageEvents,
  ORIG, GONE, NULL, NONE

ASSUME Texts \subseteq Nodes /\ Body \in Nodes /\ TopWindow \in Windows
ASSUME Forever \notin Nat /\ Budgets \subseteq Nat \cup {Forever}
ASSUME MAX_VISIBLE_ELEMENTS \in Nat
ASSUME {NavigationCalls, NavDuringSearch, DirectIndexCalls, PageMutations, FrameEvents} \subseteq BOOLEAN

VARIABLES
  node, stack, regex, searchInProgress,      \* __gCrWeb.findInPage traversal state
  replacements, replacementsIndex,           \* replacements_, replacementsIndex_
  matches, selectedMatchIndex,
  visibleFound, visibleIndex,                \* visibility-phase counter and cursor
  matchVisibleIndex,                         \* match.visibleIndex of each Match
  tree,                                      \* what sits at each text node's place
  findysel,                                  \* markers whose className has ' findysel'
  timers,                                    \* pending setTimeout(addSelectHighlight)
  clearTimers,                               \* pending setTimeout(clearHighlight_, 0)
  styleElement, hasInitialized, frameDocs,
  styled,                                    \* documents holding the <style> CSS_STYLE_ID
  nextId,                                    \* identity of the next Replacement
  ret, finished, lastQuery, searches, hung,  \* what the host has observed
  searchDocs,                                \* roots the latest search started from
  pumped,                                    \* the latest search needed pumpSearch calls
  shown,                                     \* occurrences the page shows right now
  inactive,                                  \* frame documents navigated away from
  pageEvents                                 \* DOM changes the page has made

engine == <<node, stack, regex, searchInProgress, replacements,
            replacementsIndex, matches, selectedMatchIndex, visibleFound,
            visibleIndex, matchVisibleIndex, tree, findysel, timers,
            clearTimers, nextId>>
host == <<ret, finished, lastQuery, searches, hung, searchDocs, pumped>>
page == <<shown, inactive, pageEvents>>
vars == <<engine, styleElement, hasInitialized, frameDocs, styled, host, page>>

Ids == 1..MaxIds
MaxOcc == 2
Markers == Ids \X Texts \X (1..MaxOcc)
Replacement == [id : Ids, old : Texts]
Results == {<<"void">>, <<"no_results">>, <<"incomplete">>, <<"throw">>, <<"blank">>}
             \cup ({"found"} \X Nat \X (Nat \cup {NULL}))
             \cup ({"goto"} \X (Nat \cup {NULL}))

(***************************************************************************)
(* The closure's state as a record, plus the loop's scratch fields: c, the *)
(* number of overtime() calls made, k, the budget, out, how the call ends, *)
(* and pos, the rank findScrollDimensions_ returns.                        *)
(***************************************************************************)
State(k) ==
  [node |-> node, stack |-> stack, regex |-> regex,
   searchInProgress |-> searchInProgress, replacements |-> replacements,
   replacementsIndex |-> replacementsIndex, matches |-> matches,
   selectedMatchIndex |-> selectedMatchIndex, visibleFound |-> visibleFound,
   visibleIndex |-> visibleIndex, matchVisibleIndex |-> matchVisibleIndex,
   tree |-> tree, findysel |-> findysel, timers |-> timers,
   clearTimers |-> clearTimers, nextId |-> nextId,
   c |-> 0, k |-> k, out |-> "run", pos |-> NULL]

Commit(s) ==
  /\ node' = s.node /\ stack' = s.stack /\ regex' = s.regex
  /\ searchInProgress' = s.searchInProgress
  /\ replacements' = s.replacements
  /\ replacementsIndex' = s.replacementsIndex
  /\ matches' = s.matches /\ selectedMatchIndex' = s.selectedMatchIndex
  /\ visibleFound' = s.visibleFound /\ visibleIndex' = s.visibleIndex
  /\ matchVisibleIndex' = s.matchVisibleIndex
  /\ tree' = s.tree /\ findysel' = s.findysel /\ timers' = s.timers
  /\ clearTimers' = s.clearTimers /\ nextId' = s.nextId

\* Timer.overtime(), called once more: true from the (k+1)-th call on.
Tick(s) == [s EXCEPT !.c = @ + 1]
Overtime(s) == s.k # Forever /\ s.c > s.k

\* A marker's place in the page, and the Visibility Oracle's answer.
Detached(s, m) == s.tree[m[2]] # m[1]

\* The document a node belongs to: the main document (Body) or a frame's.
RECURSIVE Subtree(_)
Subtree(n) == {n} \cup UNION {Subtree(c) : c \in ToSet(Children[n])}

DocRoots == {Body} \cup {DocOf[w] : w \in Windows} \cup {NavDocOf[w] : w \in Windows}

TextDoc == [t \in Texts |-> CHOOSE r \in DocRoots : t \in Subtree(r)]

\* isElementVisible_ starts with elem.ownerDocument.defaultView, which is
\* null once the document's frame has navigated away: it throws.
Inactive(m) == TextDoc[m[2]] \in inactive

VisibleThrows(s, m) == Detached(s, m) \/ Inactive(m)

\* An oracle that misses a hidden ancestor and accepts every marker.
IsShownIgnoringStyle(m) == TRUE

\* Match.visible: a Match holds one marker (line 336), so it is that marker's
\* isElementVisible_, read from shown when it does not throw.
IsShown(m) == <<m[2], m[3]>> \in shown

(***************************************************************************)
(* Phase 1 of pumpSearch: the stack-based walk.  Children are pushed last  *)
(* first, so the first child is popped next; only element and text nodes  *)
(* outside IGNORE_NODE_NAMES are pushed.  A text node still in the page    *)
(* with matches yields one Replacement and one Match per occurrence.       *)
(***************************************************************************)
Pushable(n) == Kind[n] \in {"element", "text"}

\* The walk with children pushed first to last.
ProcessNodeForwardPush(s) ==
  LET n      == s.node
      pushed == s.stack \o SelectSeq(Children[n], Pushable)
      k      == IF n \in Texts /\ s.tree[n] = ORIG THEN Occ[s.regex][n] ELSE 0
  IN  IF k = 0 THEN [s EXCEPT !.stack = pushed]
      ELSE [s EXCEPT !.stack = pushed,
                     !.matches = @ \o [i \in 1..k |-> <<s.nextId, n, i>>],
                     !.replacements = Append(@, [id |-> s.nextId, old |-> n]),
                     !.nextId = @ + 1]

ProcessNode(s) ==
  LET n      == s.node
      pushed == s.stack \o Reverse(SelectSeq(Children[n], Pushable))
      k      == IF n \in Texts /\ s.tree[n] = ORIG THEN Occ[s.regex][n] ELSE 0
  IN  IF k = 0 THEN [s EXCEPT !.stack = pushed]
      ELSE [s EXCEPT !.stack = pushed,
                     !.matches = @ \o [i \in 1..k |-> <<s.nextId, n, i>>],
                     !.replacements = Append(@, [id |-> s.nextId, old |-> n]),
                     !.nextId = @ + 1]

PopNode(s) ==
  IF s.stack = <<>> THEN [s EXCEPT !.node = NULL]
  ELSE [s EXCEPT !.node = Last(s.stack), !.stack = Front(s.stack)]

\* The overtime check comes after the node is processed and before the
\* next one is popped: a slice that ends leaves node at the processed node.
RECURSIVE Traverse(_)
Traverse(s) ==
  IF s.node = NULL THEN s
  ELSE LET p == Tick(ProcessNode(s)) IN
       IF Overtime(p) THEN [p EXCEPT !.out = "incomplete"]
       ELSE Traverse(PopNode(p))

(***************************************************************************)
(* Phase 2: Replacement.doSwap from replacementsIndex_ on.  doSwap is a    *)
(* no-op when the old node has no parent any more.                         *)
(***************************************************************************)
DoSwap(s, r) ==
  IF s.tree[r.old] = ORIG THEN [s EXCEPT !.tree[r.old] = r.id] ELSE s

\* The apply loop recording the replacement after the one it stopped at.
RECURSIVE ApplySkipOnResume(_, _)
ApplySkipOnResume(s, i) ==
  IF i >= Len(s.replacements) THEN s
  ELSE LET p == Tick(s) IN
       IF Overtime(p) THEN [p EXCEPT !.replacementsIndex = i + 1, !.out = "incomplete"]
       ELSE ApplySkipOnResume(DoSwap(p, s.replacements[i + 1]), i + 1)

RECURSIVE Apply(_, _)
Apply(s, i) ==
  IF i >= Len(s.replacements) THEN s
  ELSE LET p == Tick(s) IN
       IF Overtime(p) THEN [p EXCEPT !.replacementsIndex = i, !.out = "incomplete"]
       ELSE Apply(DoSwap(p, s.replacements[i + 1]), i + 1)

(***************************************************************************)
(* Phase 3: count and rank visible matches from visibleIndex on.  Match.   *)
(* visible() runs isElementVisible_ on the marker, which walks parentNode  *)
(* up to BODY and dereferences the parent's ownerDocument: on a marker     *)
(* that is not in the page the walk reaches null and throws a TypeError.   *)
(***************************************************************************)
\* A rank taken from the counter before it is incremented.
SetRankBeforeIncrement(s, m, v) == [s EXCEPT !.matchVisibleIndex = (m :> v - 1) @@ @]

SetRank(s, m, v) == [s EXCEPT !.matchVisibleIndex = (m :> v) @@ @]

RECURSIVE CountVisible(_, _)
CountVisible(s, index) ==
  IF index >= Len(s.matches) THEN s
  ELSE LET p == Tick(s)
           m == s.matches[index + 1]
       IN IF Overtime(p) THEN [p EXCEPT !.visibleIndex = index, !.out = "incomplete"]
          ELSE IF p.visibleFound > MAX_VISIBLE_ELEMENTS
               THEN CountVisible(SetRank(p, m, MAX_VISIBLE_ELEMENTS), index + 1)
          ELSE IF VisibleThrows(p, m) THEN [p EXCEPT !.out = "throw"]
          ELSE IF IsShown(m)
               THEN CountVisible(SetRank([p EXCEPT !.visibleFound = @ + 1],
                                         m, p.visibleFound + 1), index + 1)
          ELSE CountVisible(p, index + 1)

(***************************************************************************)
(* Navigation.  getCurrentSelectedMatch_() is matches[selectedMatchIndex]; *)
(* calling a method on it when the index is out of range throws.           *)
(***************************************************************************)
ValidSel(s) == s.selectedMatchIndex \in 0..Len(s.matches) - 1
Current(s) == s.matches[s.selectedMatchIndex + 1]

IncrementIndex(s) ==
  [s EXCEPT !.selectedMatchIndex =
     IF @ >= Len(s.matches) - 1 THEN 0 ELSE @ + 1]

\* decrementIndex without its wrap to the last match.
DecrementIndexNoWrap(s) == [s EXCEPT !.selectedMatchIndex = @ - 1]

DecrementIndex(s) ==
  [s EXCEPT !.selectedMatchIndex =
     IF @ <= 0 THEN Len(s.matches) - 1 ELSE @ - 1]

RemoveSelectHighlight(s) == [s EXCEPT !.findysel = @ \ {Current(s)}]

\* The selection highlight is added now, or by a 250 ms timer when the
\* target is off screen (which depends on the host's scroll position).
FindScrollDimensions(s, offscreen) ==
  LET m    == Current(s)
      rank == IF m \in DOMAIN s.matchVisibleIndex
              THEN s.matchVisibleIndex[m] ELSE NULL
  IN IF offscreen THEN [s EXCEPT !.timers = BagAdd(@, m), !.out = "pos", !.pos = rank]
     ELSE [s EXCEPT !.findysel = @ \cup {m}, !.out = "pos", !.pos = rank]

\* The while loops of goNext and goPrev.  They only move the index over a
\* fixed list, so one that has not returned after Len + 2 turns never will.
RECURSIVE NextLoop(_, _, _, _)
NextLoop(s, oldIndex, offscreen, fuel) ==
  IF fuel = 0 THEN [s EXCEPT !.out = "hang"]
  ELSE IF ~ValidSel(s) \/ VisibleThrows(s, Current(s)) THEN [s EXCEPT !.out = "throw"]
  ELSE IF IsShown(Current(s)) THEN FindScrollDimensions(s, offscreen)
  ELSE IF oldIndex = s.selectedMatchIndex THEN [s EXCEPT !.out = "blank"]
  ELSE LET s2 == IncrementIndex(s) IN
       IF s2.selectedMatchIndex = 0 /\ oldIndex < 0 THEN [s2 EXCEPT !.out = "blank"]
       ELSE NextLoop(s2, oldIndex, offscreen, fuel - 1)

RECURSIVE PrevLoop(_, _, _, _)
PrevLoop(s, old, offscreen, fuel) ==
  IF fuel = 0 THEN [s EXCEPT !.out = "hang"]
  ELSE IF ~ValidSel(s) \/ VisibleThrows(s, Current(s)) THEN [s EXCEPT !.out = "throw"]
  ELSE IF IsShown(Current(s)) THEN FindScrollDimensions(s, offscreen)
  ELSE LET s2 == DecrementIndex(s) IN
       IF old = s2.selectedMatchIndex THEN [s2 EXCEPT !.out = "blank"]
       ELSE PrevLoop(s2, old, offscreen, fuel - 1)

\* goNext / goPrev up to the loop: nothing to do on an empty list; the old
\* selection loses its highlight (throwing if the index is stale).
Deselect(s) ==
  IF s.selectedMatchIndex < 0 THEN s
  ELSE IF ~ValidSel(s) THEN [s EXCEPT !.out = "throw"]
  ELSE RemoveSelectHighlight(s)

GoNextOp(s, offscreen) ==
  LET d == Deselect(s) IN
  IF s.matches = <<>> THEN [s EXCEPT !.out = "blank"]
  ELSE IF d.out = "throw" THEN d
  ELSE NextLoop(IncrementIndex(d), s.selectedMatchIndex, offscreen,
                Len(s.matches) + 2)

GoPrevOp(s, offscreen) ==
  LET d == Deselect(s) IN
  IF s.matches = <<>> THEN [s EXCEPT !.out = "blank"]
  ELSE IF d.out = "throw" THEN d
  ELSE PrevLoop(DecrementIndex(d), s.selectedMatchIndex, offscreen,
                Len(s.matches) + 2)

(***************************************************************************)
(* clearHighlight_: undoSwap every Replacement (a no-op unless its first   *)
(* new node is still in the page) and forget the matches.                  *)
(***************************************************************************)
UndoSwapAll(s) ==
  [t \in Texts |-> IF \E j \in 1..Len(s.replacements) :
                        s.replacements[j] = [id |-> s.tree[t], old |-> t]
                   THEN ORIG ELSE s.tree[t]]

\* clearHighlight_ undoing every Replacement but keeping the list.
ClearHighlightKeepList(s) ==
  [s EXCEPT !.tree = UndoSwapAll(s), !.replacementsIndex = 0,
            !.matches = <<>>, !.selectedMatchIndex = -1]

\* clearHighlight_ undoing only the Replacements before replacementsIndex_.
ClearHighlightIndexedOnly(s) ==
  [s EXCEPT !.tree = [t \in Texts |->
                        IF \E j \in 1..s.replacementsIndex :
                             s.replacements[j] = [id |-> s.tree[t], old |-> t]
                        THEN ORIG ELSE s.tree[t]],
            !.replacements = <<>>, !.replacementsIndex = 0,
            !.matches = <<>>, !.selectedMatchIndex = -1]

ClearHighlight(s) ==
  [s EXCEPT !.tree = UndoSwapAll(s), !.replacements = <<>>,
            !.replacementsIndex = 0, !.matches = <<>>,
            !.selectedMatchIndex = -1]

(***************************************************************************)
(* pumpSearch past its early return: the three phases, then the search is *)
(* over and goNext selects the first visible match.                        *)
(***************************************************************************)
PumpBody(s, offscreen) ==
  LET t == Traverse(s)
      a == Apply(t, t.replacementsIndex)
      v == CountVisible(a, a.visibleIndex)
  IN  IF t.out # "run" THEN t
      ELSE IF a.out # "run" THEN a
      ELSE IF v.out # "run" THEN v
      ELSE GoNextOp([v EXCEPT !.searchInProgress = FALSE], offscreen)

\* What the call returns to the host.
Report(s) ==
  CASE s.out = "incomplete" -> <<"incomplete">>
    [] s.out = "throw"      -> <<"throw">>
    [] s.out = "pos"        -> <<"found", s.visibleFound, s.pos>>
    [] s.out = "blank"      -> <<"no_results">>

\* The pumped state is within the model's bounds.
InBounds(s) ==
  /\ s.nextId <= MaxIds + 1
  /\ Len(s.stack) <= MaxStack
  /\ BagCardinality(s.timers) <= MaxTimers

(***************************************************************************)
(* getFrameDocuments_: a stack of windows; the frames of each are visited  *)
(* last first and a cross-origin frame (reading its document throws) is    *)
(* skipped together with its own frames.  A frame that has navigated      *)
(* holds its new document.                                                 *)
(***************************************************************************)
CurrentDoc(w) == IF DocOf[w] \in inactive THEN NavDocOf[w] ELSE DocOf[w]

RECURSIVE FrameDocs(_, _)
FrameDocs(windowsToSearch, documents) ==
  IF windowsToSearch = <<>> THEN documents
  ELSE LET win  == Last(windowsToSearch)
           wins == Reverse(SelectSeq(Frames[win], LAMBDA w : w \in Accessible))
       IN  FrameDocs(Front(windowsToSearch) \o wins,
                     documents \o [i \in 1..Len(wins) |-> CurrentDoc(wins[i])])

GetFrameDocuments == FrameDocs(<<TopWindow>>, <<>>)

(***************************************************************************)
(* The host calls.                                                         *)
(***************************************************************************)
\* highlightWord cleans up a previous run only if it found matches.
ClearPreviousIfSeveral(s) == IF Len(s.matches) > 1 THEN ClearHighlight(s) ELSE s

ClearPrevious(s) == IF Len(s.matches) > 0 THEN ClearHighlight(s) ELSE s

HighlightWord(q, k, offscreen) ==
  LET s0 == State(k)
      s1 == ClearPrevious(s0)
      s2 == PumpBody([s1 EXCEPT !.node = Body, !.stack = Reverse(frameDocs),
                                !.visibleFound = 0, !.visibleIndex = 0,
                                !.regex = q, !.searchInProgress = TRUE],
                     offscreen)
      r  == IF q = EMPTY THEN [s1 EXCEPT !.out = "blank"] ELSE s2
  IN  /\ searches < MaxSearches
      /\ InBounds(r)
      /\ Commit(r)
      /\ ret' = Report(r)
      /\ finished' = (q # EMPTY /\ ~r.searchInProgress)
      /\ lastQuery' = q
      /\ searches' = searches + 1
      /\ searchDocs' = IF q = EMPTY THEN searchDocs ELSE <<Body>> \o frameDocs
      /\ pumped' = (q = EMPTY /\ pumped)
      /\ UNCHANGED <<styleElement, hasInitialized, frameDocs, styled, hung, page>>

PumpSearch(k, offscreen) ==
  /\ searchInProgress
  /\ \E r \in {PumpBody(State(k), offscreen)} :
       /\ InBounds(r)
       /\ Commit(r)
       /\ ret' = Report(r)
       /\ finished' = ~r.searchInProgress
  /\ pumped' = TRUE
  /\ UNCHANGED <<styleElement, hasInitialized, frameDocs, styled, lastQuery, searches, hung, searchDocs, page>>

\* pumpSearch with no search in progress returns NO_RESULTS.
PumpSearchIdle ==
  /\ ~searchInProgress
  /\ ret' = <<"no_results">>
  /\ finished' = FALSE
  /\ UNCHANGED <<engine, styleElement, hasInitialized, frameDocs, styled, lastQuery, searches, hung, searchDocs, pumped, page>>

\* goNext / goPrev; a loop that never ends freezes the page for good.
Navigate(Op(_, _), offscreen) ==
  LET r == Op(State(0), offscreen) IN
  /\ NavigationCalls
  /\ NavDuringSearch \/ ~searchInProgress
  /\ InBounds(r)
  /\ Commit(r)
  /\ ret' = CASE r.out = "pos"   -> <<"goto", r.pos>>
              [] r.out = "blank" -> <<"blank">>
              [] r.out = "throw" -> <<"throw">>
              [] r.out = "hang"  -> <<"void">>
  /\ hung' = (r.out = "hang")
  /\ finished' = FALSE
  /\ UNCHANGED <<styleElement, hasInitialized, frameDocs, styled, lastQuery, searches, searchDocs, pumped, page>>

GoNext(offscreen) == Navigate(GoNextOp, offscreen)
GoPrev(offscreen) == Navigate(GoPrevOp, offscreen)

\* The index mutators are public and called by the host directly.
MoveIndex(Op(_)) ==
  /\ DirectIndexCalls
  /\ Commit(Op(State(0)))
  /\ ret' = <<"void">> /\ finished' = FALSE
  /\ UNCHANGED <<styleElement, hasInitialized, frameDocs, styled, lastQuery, searches, hung, searchDocs, pumped, page>>

IncrementIndexCall == MoveIndex(IncrementIndex)
DecrementIndexCall == MoveIndex(DecrementIndex)

(***************************************************************************)
(* The style element: addStyle_ and removeStyle_ visit document, then      *)
(* frameDocs_ from the last to the first.  removeDocumentStyle_ calls       *)
(* body.removeChild(getElementById(CSS_STYLE_ID)), which throws on a        *)
(* document that no longer holds the element.                              *)
(***************************************************************************)
AddStyleDocs(fd) == <<Body>> \o Reverse(fd)

\* removeStyle_'s loop stopping before frameDocs_[0] (i > 0).
RemoveStyleDocsSkipFirst(fd) == <<Body>> \o Reverse(Tail(fd))

RemoveStyleDocs(fd) == <<Body>> \o Reverse(fd)

\* init(width, height): ignored once initialized; enable_ adds the style
\* element to every document unless styleElement_ is already set.
InitFindInPage ==
  /\ \/ hasInitialized /\ UNCHANGED <<styleElement, hasInitialized, frameDocs, styled>>
     \/ /\ ~hasInitialized
        /\ frameDocs' = GetFrameDocuments
        /\ styled' = IF styleElement THEN styled
                     ELSE styled \cup ToSet(AddStyleDocs(frameDocs'))
        /\ styleElement' = TRUE
        /\ hasInitialized' = TRUE
  /\ ret' = <<"void">> /\ finished' = FALSE
  /\ UNCHANGED <<engine, lastQuery, searches, hung, searchDocs, pumped, page>>

\* disable(), also the pagehide listener: removeStyle_, then clearHighlight_
\* deferred to a 0 ms timer.  A removeDocumentStyle_ that throws ends the
\* call with the earlier documents' style gone and nothing else done.
Disable ==
  LET docs == RemoveStyleDocs(frameDocs)
      miss == {i \in 1..Len(docs) : docs[i] \notin styled}
  IN
  /\ \/ /\ styleElement /\ miss # {}
        /\ styled' = styled \ {docs[i] : i \in 1..Min(miss) - 1}
        /\ ret' = <<"throw">>
        /\ UNCHANGED <<styleElement, hasInitialized, clearTimers>>
     \/ /\ styleElement /\ miss = {}
        /\ styled' = styled \ ToSet(docs)
        /\ styleElement' = FALSE
        /\ clearTimers' = clearTimers + 1 /\ clearTimers' <= MaxTimers
        /\ hasInitialized' = FALSE
        /\ ret' = <<"void">>
     \/ /\ ~styleElement
        /\ hasInitialized' = FALSE
        /\ ret' = <<"void">>
        /\ UNCHANGED <<styleElement, clearTimers, styled>>
  /\ finished' = FALSE
  /\ UNCHANGED <<node, stack, regex, searchInProgress, replacements,
                 replacementsIndex, matches, selectedMatchIndex, visibleFound,
                 visibleIndex, matchVisibleIndex, tree, findysel, timers,
                 nextId, frameDocs, lastQuery, searches, hung, searchDocs, pumped, page>>

(***************************************************************************)
(* Timer callbacks, run between host calls in any order.                   *)
(***************************************************************************)
FireClearTimer ==
  /\ clearTimers > 0
  /\ Commit([ClearHighlight(State(0)) EXCEPT !.clearTimers = @ - 1])
  /\ ret' = <<"void">> /\ finished' = FALSE
  /\ UNCHANGED <<styleElement, hasInitialized, frameDocs, styled, lastQuery, searches, hung, searchDocs, pumped, page>>

\* Match.addSelectHighlight on the match captured by the arrow function.
FireHighlightTimer(m) ==
  /\ BagIn(m, timers)
  /\ findysel' = findysel \cup {m}
  /\ timers' = BagRemove(timers, m)
  /\ ret' = <<"void">> /\ finished' = FALSE
  /\ UNCHANGED <<node, stack, regex, searchInProgress, replacements,
                 replacementsIndex, matches, selectedMatchIndex, visibleFound,
                 visibleIndex, matchVisibleIndex, tree, clearTimers, nextId,
                 styleElement, hasInitialized, frameDocs, styled, lastQuery, searches, hung, searchDocs, pumped, page>>

(***************************************************************************)
(* The page's own scripts, between any two host calls or callbacks.  One   *)
(* may take whatever stands at a text node's place out of the document     *)
(* (the text node itself, or the highlight nodes that replaced it); one    *)
(* may restyle the element around a text node, hiding or showing all its   *)
(* occurrences.  Neither is code of find_in_page.js: they are the page it  *)
(* runs in, and what its parentNode and visibility checks react to.        *)
(***************************************************************************)
\* The text nodes the walk can reach: those under no ignored element.  A
\* page script's change to any other text node is invisible to find-in-page.
Searchable == {t \in Texts : \A n \in Nodes : Kind[n] = "ignored" => t \notin Subtree(n)}

PageRemove(t) ==
  /\ PageMutations /\ pageEvents < MaxPageEvents
  /\ tree[t] # GONE
  /\ tree' = [tree EXCEPT ![t] = GONE]
  /\ pageEvents' = pageEvents + 1
  /\ UNCHANGED <<node, stack, regex, searchInProgress, replacements,
                 replacementsIndex, matches, selectedMatchIndex, visibleFound,
                 visibleIndex, matchVisibleIndex, findysel, timers, clearTimers,
                 nextId, styleElement, hasInitialized, frameDocs, styled, host,
                 shown, inactive>>

PageRestyle(t) ==
  LET mine == {<<t, i>> : i \in 1..MaxOcc} IN
  /\ PageMutations /\ pageEvents < MaxPageEvents
  /\ shown' = IF mine \cap shown = {} THEN shown \cup mine ELSE shown \ mine
  /\ pageEvents' = pageEvents + 1
  /\ UNCHANGED <<engine, styleElement, hasInitialized, frameDocs, styled, host, inactive>>

\* A same-origin frame navigates: its old document, still referenced by
\* frameDocs_ and by any marker in it, loses its window.
FrameNavigate(w) ==
  /\ FrameEvents /\ pageEvents < MaxPageEvents
  /\ w \in Accessible /\ DocOf[w] \notin inactive
  /\ inactive' = inactive \cup {DocOf[w]}
  /\ pageEvents' = pageEvents + 1
  /\ UNCHANGED <<engine, styleElement, hasInitialized, frameDocs, styled, host, shown>>

\* A page script rewrites a document's body (innerHTML, document.write),
\* taking find-in-page's <style> element with it.
PageDropStyle(d) ==
  /\ FrameEvents /\ pageEvents < MaxPageEvents
  /\ d \in styled
  /\ styled' = styled \ {d}
  /\ pageEvents' = pageEvents + 1
  /\ UNCHANGED <<engine, styleElement, hasInitialized, frameDocs, host, shown, inactive>>

(***************************************************************************)
(* The page after the scripts are injected: nothing searched, no style.    *)
(***************************************************************************)
Init ==
  /\ node = NULL /\ stack = <<>> /\ regex = NONE /\ searchInProgress = FALSE
  /\ replacements = <<>> /\ replacementsIndex = 0
  /\ matches = <<>> /\ selectedMatchIndex = -1
  /\ visibleFound = 0 /\ visibleIndex = 0
  /\ matchVisibleIndex = << >>
  /\ tree = [t \in Texts |-> ORIG]
  /\ findysel = {} /\ timers = EmptyBag /\ clearTimers = 0
  /\ styleElement = FALSE /\ hasInitialized = FALSE /\ frameDocs = <<>>
  /\ styled = {}
  /\ nextId = 1
  /\ ret = <<"void">> /\ finished = FALSE /\ lastQuery = NONE
  /\ searches = 0 /\ hung = FALSE /\ searchDocs = <<>> /\ pumped = FALSE
  /\ shown = Shown /\ inactive = {} /\ pageEvents = 0

Next ==
  /\ ~hung
  /\ \/ \E q \in Queries, k \in Budgets, off \in BOOLEAN : HighlightWord(q, k, off)
     \/ \E k \in Budgets, off \in BOOLEAN : PumpSearch(k, off)
     \/ PumpSearchIdle
     \/ \E off \in BOOLEAN : GoNext(off) \/ GoPrev(off)
     \/ IncrementIndexCall \/ DecrementIndexCall
     \/ InitFindInPage \/ Disable
     \/ FireClearTimer
     \/ \E m \in BagToSet(timers) : FireHighlightTimer(m)
     \/ \E t \in Searchable : PageRemove(t) \/ PageRestyle(t)
     \/ \E w \in Windows : FrameNavigate(w)
     \/ \E d \in styled : PageDropStyle(d)

Spec == Init /\ [][Next]_vars

(***************************************************************************)
(* The host answers the incomplete sentinel by calling pumpSearch again    *)
(* (spec: the caller schedules the resumption).  The fairness assumed is   *)
(* the most generous such host: weak fairness of a pump with a slice long  *)
(* enough for all the remaining work.  It is written out as its definition *)
(* <>[]ENABLED <<A>>_vars => []<><<A>>_vars, with the enabledness of a     *)
(* state-changing pump computed as a state predicate (TLC does not cache   *)
(* the recursive phases when it evaluates ENABLED).                        *)
(***************************************************************************)
HostPumps == \E off \in BOOLEAN : PumpSearch(Forever, off)

EngineOf(r) ==
  <<r.node, r.stack, r.regex, r.searchInProgress, r.replacements,
    r.replacementsIndex, r.matches, r.selectedMatchIndex, r.visibleFound,
    r.visibleIndex, r.matchVisibleIndex, r.tree, r.findysel, r.timers,
    r.clearTimers, r.nextId>>

HostPumpEnabled ==
  /\ searchInProgress /\ ~hung
  /\ \E off \in BOOLEAN :
       LET r == PumpBody(State(Forever), off) IN
       /\ InBounds(r)
       /\ <<EngineOf(r), Report(r), ~r.searchInProgress>> # <<engine, ret, finished>>

HostFairness == <>[]HostPumpEnabled => []<><<HostPumps>>_vars

LiveSpec == Spec /\ HostFairness

(***************************************************************************)
(* Reference definitions: the text nodes a search should visit, in         *)
(* document order (a recursive pre-order walk of each root, skipping       *)
(* ignored subtrees), and the occurrences of a query in them.              *)
(***************************************************************************)
RECURSIVE PreOrder(_)
PreOrder(n) ==
  LET kids == SelectSeq(Children[n], Pushable) IN
  (IF n \in Texts THEN <<n>> ELSE <<>>)
    \o FlattenSeq([i \in 1..Len(kids) |-> PreOrder(kids[i])])

Occurrences(q, roots) ==
  LET ts == FlattenSeq([r \in 1..Len(roots) |-> PreOrder(roots[r])]) IN
  FlattenSeq([j \in 1..Len(ts) |-> [i \in 1..Occ[q][ts[j]] |-> <<ts[j], i>>]])

Positions(ms) == [j \in 1..Len(ms) |-> <<ms[j][2], ms[j][3]>>]

(***************************************************************************)
(* Properties.                                                             *)
(***************************************************************************)
TypeOK ==
  /\ node \in Nodes \cup {NULL}
  /\ stack \in Seq(Nodes)
  /\ regex \in (Queries \ {EMPTY}) \cup {NONE}
  /\ searchInProgress \in BOOLEAN
  /\ replacements \in Seq(Replacement)
  /\ replacementsIndex \in 0..Len(replacements)
  /\ matches \in Seq(Markers)
  /\ selectedMatchIndex \in -1..Len(matches)
  /\ visibleFound \in 0..MAX_VISIBLE_ELEMENTS + 1
  /\ visibleIndex \in Nat
  /\ DOMAIN matchVisibleIndex \subseteq Markers
  /\ \A m \in DOMAIN matchVisibleIndex : matchVisibleIndex[m] \in Nat
  /\ tree \in [Texts -> {ORIG, GONE} \cup Ids]
  /\ findysel \subseteq Markers
  /\ IsABag(timers) /\ BagToSet(timers) \subseteq Markers
  /\ clearTimers \in 0..MaxTimers
  /\ styleElement \in BOOLEAN /\ hasInitialized \in BOOLEAN
  /\ frameDocs \in Seq(Nodes) /\ styled \subseteq DocRoots /\ inactive \subseteq DocRoots
  /\ nextId \in 1..MaxIds + 1
  /\ ret \in Results /\ finished \in BOOLEAN /\ hung \in BOOLEAN /\ pumped \in BOOLEAN
  /\ shown \subseteq Texts \X (1..MaxOcc) /\ pageEvents \in 0..MaxPageEvents

\* Every highlight in the page belongs to a Replacement still listed in
\* replacements_, so the next clearHighlight_ (from highlightWord or the
\* disable timer) can take it out again: no search, clear or timer order
\* leaves a <chrome_find> node behind that nothing will undo.
NoOrphanHighlights ==
  \A t \in Texts : tree[t] \in Ids =>
     \E j \in 1..Len(replacements) : replacements[j] = [id |-> tree[t], old |-> t]

\* While pumpSearch is still walking the tree, the page holds no markers:
\* highlightWord's clearHighlight_ and the order of the phases guarantee
\* the walk never matches text inside an earlier <chrome_find>.
TraversalSeesOriginalTree ==
  (searchInProgress /\ node # NULL) => \A t \in Texts : tree[t] \notin Ids

\* The apply cursor never runs ahead of the page: replacementsIndex_ is saved
\* only when the apply loop times out, and a resumed pumpSearch starts doSwap
\* there, so every Replacement before it must already have taken its text
\* node's place (or found the node gone).  A cursor saved one too far leaves
\* a Replacement that no later pump applies.
AppliedBeforeCursor ==
  \A j \in 1..replacementsIndex : tree[replacements[j].old] # ORIG

\* A visible match's visibleIndex, reported as its rank by goNext/goPrev,
\* is its ordinal among the visible matches, whatever slices the
\* visibility phase was cut into.
RankIsVisibleOrdinal ==
  \A j \in 1..Len(matches) :
     LET m == matches[j] IN
     (m \in DOMAIN matchVisibleIndex /\ IsShown(m)) =>
        matchVisibleIndex[m] = Cardinality({i \in 1..j : IsShown(matches[i])})

\* When highlightWord finishes a search within its own call, matches lists
\* every occurrence of the query in the body and then in the frame
\* documents, in document order, and every text node that has one is
\* highlighted.
SearchFindsAll ==
  (finished /\ ~pumped) =>
     /\ Positions(matches) = Occurrences(regex, searchDocs)
     /\ \A o \in ToSet(Occurrences(regex, searchDocs)) : tree[o[1]] # ORIG

\* When pumpSearch finishes a search, every text node with an occurrence of
\* the query is highlighted, even if the host called disable() before it.
FinishedSearchHighlightsAll ==
  finished => \A o \in ToSet(Occurrences(regex, searchDocs)) : tree[o[1]] # ORIG

\* A search highlightWord finishes within its own call reports the number
\* of visible occurrences, and NO_RESULTS exactly when there is none.
ReportsVisibleCount ==
  (finished /\ ~pumped) =>
     LET n == Cardinality(ToSet(Occurrences(regex, searchDocs)) \cap shown) IN
     IF n = 0 THEN ret = <<"no_results">> ELSE ret[1] = "found" /\ ret[2] = n

\* However the host resumed it, a search that finishes reports no more
\* visible matches than the searched documents show (spec 4.2 step 4: the
\* visible-match count): a pumpSearch that resumes the visibility loop
\* never counts a visible match twice.
ResumedCountNotInflated ==
  (finished /\ ret[1] = "found") =>
     ret[2] <= Cardinality(ToSet(Occurrences(regex, searchDocs)) \cap shown)

\* Once disable() has cleared styleElement_, no document holds the style
\* element any more: removeStyle_ takes it out of every document addStyle_
\* put it in, across inits that enumerate different frame documents.
StyleRemovedOnDisable == ~styleElement => styled = {}

\* goPrev always returns: it never spins forever.
GoPrevTerminates == ~hung

\* After highlightWord('') the page has no highlights.
EmptyQueryLeavesPageUnhighlighted ==
  lastQuery = EMPTY => \A t \in Texts : tree[t] = ORIG

\* Only the selected match carries the 'findysel' selection highlight.
SelectionHighlightOnSelected ==
  \A m \in findysel \cap ToSet(matches) :
     selectedMatchIndex \in 0..Len(matches) - 1 /\ m = matches[selectedMatchIndex + 1]

\* No host call ends in an exception: a search, a resumed search or a move
\* of the selection over nodes the page has changed or not yet received
\* degrades silently, as the parentNode checks of doSwap and undoSwap do.
NoHostCallThrows == ret[1] # "throw"

\* goNext and goPrev report a rank for every match they select: the
\* visibleIndex of Match is set for each match that can be selected.
NavigationReportsRank == ret[1] = "goto" => ret[2] # NULL

\* A search the host keeps pumping eventually completes: pumpSearch stops
\* returning the incomplete sentinel (or throwing) and clears
\* searchInProgress_.
SearchEventuallyFinishes == searchInProgress ~> ~searchInProgress

(***************************************************************************)
(* Refinement: seen through the text nodes whose place holds highlight     *)
(* nodes and the compiled regex, every step of the host calls, timers and  *)
(* slices is a step of HighlightSpec: no interleaving highlights text for  *)
(* a stale query or takes down only part of the highlights.                *)
(***************************************************************************)
Highlight == INSTANCE HighlightSpec
               WITH marked <- {t \in Texts : tree[t] \in Ids},
                    query <- regex,
                    Patterns <- Queries \ {EMPTY}

ImplementsHighlightSpec == Highlight!Spec
=============================================================================
