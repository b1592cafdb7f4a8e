SPECIFICATION FairSpec
CONSTANTS
  Faults = {"late", "lost", "noise"}
  MaxFaults = 3
  MaxAdded = 1
  MaxCommands = 4
  Length = 3
  Data = 24
INVARIANTS FaultCostsOne LagBounded
PROPERTIES ExchangeEnds ImplementsExchange
CHECK_DEADLOCK FALSE
