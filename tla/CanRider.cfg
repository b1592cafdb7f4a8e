SPECIFICATION FairSpec
CONSTANT MaxStored = 36
INVARIANTS NoGap RiderWhole
PROPERTIES RiderTold
CHECK_DEADLOCK FALSE
