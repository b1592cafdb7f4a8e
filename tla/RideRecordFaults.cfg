SPECIFICATION FairSpec
CONSTANTS
  d1 = d1
  d2 = d2
  dLong = dLong
  None = None
  Base = 2
  Slots <- MCSlot1
  Drivers <- MCDriverL
  LongInfo <- MCLong
  AdjustTimes <- MCAdjust
  RecCap = 1
  Period = 1
  BootDelay = 1
  BuildTime = 1
  RtcFaults = TRUE
  FramFaults = TRUE
  MaxLate = 1
  MaxTime = 2
  MaxBoots = 3
CHECK_DEADLOCK FALSE
INVARIANTS NoRideLost WorkRecBounded
PROPERTY RideJournaled
