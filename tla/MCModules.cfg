SPECIFICATION Spec
CONSTANTS
  Mods <- All
  Files <- Same
  NULL = NULL
  MaxLoads = 3
CHECK_DEADLOCK FALSE
INVARIANTS
  TypeOK
  HooksBelong
  HooksComplete
PROPERTIES
  OwnOnly
