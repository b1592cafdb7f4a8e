SPECIFICATION Spec
CONSTANTS
  Clock = Clock
  Fram = Fram
  Reader = Reader
  None = None
  TimeBytes = 3
  RideBytes = 2
  Fifo = 2
  Faulty = {}
INVARIANTS NowIsTime
