SPECIFICATION FairSpec
CONSTANTS
  None = None
  Fingers = {f1, f2}
  NSlots = 2
  Erasers = {e1}
  Careful = FALSE
  LinkFaults = TRUE
  MaxCommands = 2
  MaxRestarts = 1
CHECK_DEADLOCK FALSE
INVARIANTS LinkExclusion SessionScanOnce
PROPERTIES TemplatesNotReplaced ScansResume
