SPECIFICATION Spec
CONSTANTS
  None = None
  Fingers = {f1, f2}
  NSlots = 2
  Erasers = {e1}
  Careful = TRUE
  LinkFaults = TRUE
  MaxCommands = 4
  MaxRestarts = 1
CHECK_DEADLOCK FALSE
SYMMETRY FingerSymmetry
INVARIANTS StoresAgree EnrolmentKept
PROPERTY RightDriver
