CONSTANTS
  MaxTouch = 2
  Frames <- MCFrames
  Modes <- MCModes
  MaxReach = 1000000
  MaxDeltaSq = 16900
  MinPrevDeltaSq = 1600
  IdReset = 3
  MaxSession = 5
SPECIFICATION FairSpec
INVARIANTS TypeOK IdsDistinct SameFinger QuietScreen
PROPERTIES IdsFresh HeldStaysReported Released
