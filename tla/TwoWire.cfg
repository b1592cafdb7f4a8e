SPECIFICATION FairSpec
CONSTANTS
  Clock = Clock
  Fram = Fram
  Reader = Reader
  None = None
  TimeBytes = 3
  RideBytes = 2
  Fifo = 2
  Faulty = {Fram, Reader}
INVARIANTS TransmissionOwn NoForeignByte
PROPERTIES RfidServed
