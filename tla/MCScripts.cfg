SPECIFICATION Spec
CONSTANTS
  Cells = {"c1", "c2", "c3"}
  Kinds = {"TCL_UTIMER", "TCL_TIMER"}
  NoCell = "NULL"
  Delays = {1, 2}
  MaxTimers = 3
  MaxTime = 2
  MaxOps = 2
  Types = {"pub", "pubm", "raw", "topc", "kick"}
  Events = {"pub", "kick", "topic"}
  Commands = {"a"}
  Levels = {0, 1}
  MaxBinds = 3
  MaxCalls = 2
  MaxEvents = 1
  Order <- MCOrder
  FLAGS_START = {"t1", "t2"}
  RESULT_LINE_MAX = 1
  DCC_MAX = 1
  MaxConnects = 2
CHECK_DEADLOCK FALSE
INVARIANTS
  EachTimerRuns
  EachBindIsCalled
  ThreadsAreStopped
  NewsAreTrue
PROPERTIES
  StopReturns
  RequestEnds
  IsDictionary
