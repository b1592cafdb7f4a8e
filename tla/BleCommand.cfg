SPECIFICATION MCSpec
CONSTANTS
  Codes = {"0x54", "0x51", "0x53", "0x55", "0x08", "0x09", "unknown", "0x61", "0x63", "0x65"}
  MaxPages = 2
  MaxWrites = 2
CHECK_DEADLOCK FALSE
INVARIANTS SerialExecution NoStaleFrame CommandReplyUnmixed PatientExact
PROPERTIES ParserComesBack WriteTaken ImplementsExecutor
