\* The Text Matcher over texts of up to 5 characters and queries of up to 2,
\* and the scroll target over rectangles starting left of the viewport, at
\* it and past it, page offsets 0 and 3, elements of no, unit and wider
\* extent, body extents below, inside and past them, and even and odd
\* viewport widths.
CONSTANTS
  Alphabet <- mcAlphabet
  CaseFold <- mcCaseFold
  MaxText = 5
  MaxQuery = 2
  NULL = NULL
  RectStarts <- mcRectStarts
  PageOffsets = {0, 3}
  Sizes = {0, 1, 3}
  Extents = {0, 4, 9}
  Inners = {2, 3, 5}
SPECIFICATION AlgSpec
INVARIANTS TypeOK MarkersAreLiteralOccurrences SplitPreservesText
  ScrollTargetShowsMatch
PROPERTY SplitTerminates
\* The split loop ends after its last exec; the final state is not a deadlock.
CHECK_DEADLOCK FALSE
