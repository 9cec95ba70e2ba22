SPECIFICATION Spec
CONSTANTS
  DCC_MAX = 4
  Nicks = {ann, bob}
  Addr = {a1, a2, a3}
  NULL = NULL
  MaxRestarts = 1
SYMMETRY Symmetry
CHECK_DEADLOCK FALSE
INVARIANTS
  TableHoldsAll
  IndexIsSlotAtFirst
  DccsAreSound
PROPERTIES
  ImplementsSessions
