CONSTANTS
  Ids = {front, back}
  Workers = {w1, w2}
  MaxObjects = 2
SPECIFICATION FairSpec
INVARIANTS LibraryKept FocusRuns
PROPERTIES CallsReturn Reopens
CHECK_DEADLOCK FALSE
