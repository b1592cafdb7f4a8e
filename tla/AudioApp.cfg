SPECIFICATION FairAppSpec
CONSTANTS
  Files = {f1, f2, f3, f4}
  Callers = {ble, finger}
  NoFile = NoFile
  QueueLen = 4
  MaxRetries = 1
  MaxRequests = 0
  MaxNew = 1
INVARIANTS AmpOnWhilePlaying
PROPERTIES AmpRests
CHECK_DEADLOCK FALSE
