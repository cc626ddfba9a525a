SPECIFICATION FairSpec
CONSTANTS
  SegaFrames = 7
  SegaIdentity = 3
  DrawMax = 1
INVARIANTS
  OneFrameShown
  LogoCovered
  OwnsWhileBusy
  LeavesNothingUp
PROPERTIES
  SpinGoesOn
  IntroReturns
CHECK_DEADLOCK FALSE
