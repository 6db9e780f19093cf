CONSTANTS
  Buffers = {b1, b2, b3, b4, b5}
  Active = {b1, b2}
  Threads = {t1}
  NoBuffer = none
  GoOn = FALSE
SPECIFICATION FairSpec
CHECK_DEADLOCK FALSE
INVARIANTS OnePlace Tracked RecordHeapKept
PROPERTIES VideoThreadEnds
