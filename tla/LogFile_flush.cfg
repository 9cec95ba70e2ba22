SPECIFICATION LogSpec
CONSTANTS
  LOG_SIZE = 2
  MaxLines = 5
  MaxHalves = 4
  MaxCrashes = 1
CHECK_DEADLOCK FALSE
INVARIANTS
  AlwaysFlushed
