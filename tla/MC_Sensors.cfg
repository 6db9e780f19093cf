SPECIFICATION FairSpec
CONSTANTS
  Size <- MC_Size
  MaxSamples <- MC_MaxSamples
  Count = 2
  MaxCalls = 2
  Errno = 1
  MaxErrors = 1
INVARIANTS LeftoverMarked
PROPERTIES InOrder Served
CHECK_DEADLOCK FALSE
