\* A frame navigates away while find-in-page holds its old document, and
\* the host keeps pumping the search.
CONSTANTS
  body = body  div = div  t1 = t1  t2 = t2  script = script  t3 = t3  t4 = t4
  fdoc = fdoc  xdoc = xdoc  ndoc = ndoc  top = top  w1 = w1  w2 = w2
  Q1 = Q1  Q2 = Q2  Q3 = Q3  EMPTY = EMPTY
  ORIG = ORIG  GONE = GONE  NULL = NULL  NONE = NONE  Forever = Forever
  Nodes <- mcNodes  Texts <- mcTexts  Body = body
  Kind <- mcKind  Children <- mcChildren
  Windows = {top, w1, w2}  TopWindow = top  Frames <- mcFrames
  Accessible = {w1}  DocOf <- mcDocOf  NavDocOf <- mcNavDocOf
  Queries = {Q1}
  Occ <- mcOcc  Shown <- mcShown
  MAX_VISIBLE_ELEMENTS = 3
  Budgets = {Forever}
  NavigationCalls = TRUE
  NavDuringSearch = FALSE
  DirectIndexCalls = TRUE
  PageMutations = FALSE  MaxPageEvents = 1
  FrameEvents = TRUE
  MaxSearches = 1  MaxIds = 6  MaxStack = 6  MaxTimers = 1
SPECIFICATION Spec
INVARIANT ResumedCountNotInflated
