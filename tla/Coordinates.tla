----------------------------- MODULE Coordinates -----------------------------
(***************************************************************************)
(* The scroll target findScrollDimensions_ reports for the current match:  *)
(* findAbsolutePosition_, getBodyWidth_ / getBodyHeight_ and              *)
(* getNormalizedCoordinates_.  The two axes run the same code on their own *)
(* measures, so one axis is modelled and applied to x and to y.            *)
(*                                                                         *)
(* innerWidth / 2 is a float division in the code; the target is kept in  *)
(* half pixels, which makes it exact for every integer innerWidth.        *)
(***************************************************************************)
EXTENDS Integers, FiniteSetsExt

\* The values TLC tries for one axis: the bounding rectangle's start, the
\* page offset, the element's offsetWidth, each of the six body extents, and
\* window.innerWidth.
CONSTANTS RectStarts, PageOffsets, Sizes, Extents, Inners

\* The six extents getBodyWidth_ (getBodyHeight_) compares: scroll, offset
\* and client size of document.body and of document.documentElement.
Measures == {"bodyScroll", "docScroll", "bodyOffset", "docOffset",
             "bodyClient", "docClient"}

\* getBodyWidth_ / getBodyHeight_: the largest extent either element reports,
\* since the body alone may under-report it.
GetBodyExtent(m) == Max({m[k] : k \in Measures})

\* findAbsolutePosition_: the bounding rectangle's start, which is relative
\* to the viewport, plus the page's scroll offset on that axis.
FindAbsolutePosition(rectStart, pageOffset) == rectStart + pageOffset

\* The target had maxX been the body extent alone.
NormalizedHalfBodyOnly(pos, size, m, inner) ==
  Max({0, Min({2 * (GetBodyExtent(m) - inner), 2 * pos - inner})})

\* getNormalizedCoordinates_ on one axis, times two: the document extends to
\* the body extent or the element's far edge, whichever is larger; the target
\* centres the element (pos - inner / 2), is pulled back so that the viewport
\* ends at that extent, and is never below 0.
NormalizedHalf(pos, size, m, inner) ==
  LET maxX == Max({GetBodyExtent(m), pos + size})
  IN  Max({0, Min({2 * (maxX - inner), 2 * pos - inner})})

\* Every layout of one axis TLC tries, with the element's absolute start.
Layouts == {[pos |-> FindAbsolutePosition(r, o), size |-> s, m |-> m, inner |-> i] :
              r \in RectStarts, o \in PageOffsets, s \in Sizes,
              m \in [Measures -> Extents], i \in Inners}

\* The document's extent as getNormalizedCoordinates_ takes it: maxX.
DocExtent(l) == Max({GetBodyExtent(l.m), l.pos + l.size})

VARIABLES
  layout,       \* the current match's geometry on this axis, and the page's
  target,       \* the normalized target, in half pixels
  normalized    \* whether findScrollDimensions_ has computed it

coVars == <<layout, target, normalized>>

CoInit ==
  /\ layout \in Layouts
  /\ target = 0
  /\ normalized = FALSE

\* findScrollDimensions_ normalizes the first node of the current match.
Normalize ==
  /\ ~normalized
  /\ target' = NormalizedHalf(layout.pos, layout.size, layout.m, layout.inner)
  /\ normalized' = TRUE
  /\ UNCHANGED layout

CoSpec == CoInit /\ [][Normalize]_coVars

\* Scrolling to the reported target shows the match: for an element with a
\* non-negative start and a positive offsetWidth (isElementVisible_ rejects a
\* negative left or top), the element's start lies inside the viewport at the
\* target, also when the element reaches past the extent the body reports.
ScrollTargetShowsMatch ==
  normalized /\ layout.pos >= 0 /\ layout.size > 0 =>
    target <= 2 * layout.pos /\ 2 * layout.pos < target + 2 * layout.inner

=============================================================================
