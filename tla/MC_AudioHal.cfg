CONSTANTS
  play = play
  rec = rec
  ctl = ctl
  Threads <- MCThreads
  Calls <- MCCalls
SPECIFICATION FairSpec
INVARIANTS TypeOK RateGroup PcmInUse DeferredStandby Consistent
PROPERTIES Progress
CHECK_DEADLOCK FALSE
