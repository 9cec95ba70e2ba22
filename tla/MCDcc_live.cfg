SPECIFICATION FairSpec
CONSTANTS
  DCC_MAX = 3
  Nicks = {ann}
  Addr = {a1, a2, a3}
  NULL = NULL
  MaxRestarts = 1
CHECK_DEADLOCK FALSE
PROPERTIES
  DccsEnd
