SPECIFICATION FairSpec
CONSTANTS
  Files = {f1, f2}
  NoFile = NoFile
  QueueLen = 4
  MaxRetries = 3
  MaxRequests = 3
  MaxNew = 2
INVARIANTS FilesOwned 
PROPERTIES AcceptedClosed
CHECK_DEADLOCK FALSE
