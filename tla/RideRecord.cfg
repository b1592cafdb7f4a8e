SPECIFICATION Spec
CONSTANTS
  d1 = d1
  d2 = d2
  dLong = dLong
  None = None
  Base = 3
  Slots <- MCSlots
  Drivers <- MCDrivers
  LongInfo <- MCNone
  AdjustTimes <- MCNone
  RecCap = 1
  Period = 1
  BootDelay = 1
  BuildTime = 0
  RtcFaults = FALSE
  FramFaults = FALSE
  MaxLate = 1
  MaxTime = 4
  MaxBoots = 4
SYMMETRY MCSymmetry
CHECK_DEADLOCK FALSE
INVARIANTS TypeOK JournalHoldsRide FiledRideKept
PROPERTY OlderRecordsFinal
