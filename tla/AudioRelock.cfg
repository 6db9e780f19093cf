CONSTANTS
  play = play
  rec = rec
  ctl = ctl
  Threads <- MCThreads
  Calls <- MCCalls
SPECIFICATION Spec
INVARIANTS MutexOrder
CHECK_DEADLOCK FALSE
