SPECIFICATION FairSpec
CONSTANTS
  ConnectDelay = 10
  Poll = 4
  Pause = 5
  MaxLate = 8
INVARIANTS LostOnlyIfStarved SilenceBounded
PROPERTIES Implements
