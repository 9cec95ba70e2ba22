SPECIFICATION Spec
CONSTANTS
  Masks = {"ann", "bob"}
  Trusted = {"bob"}
  Msgs = {"x", "y"}
  Limits = {0, 1, 2}
  NoMask = ""
  MaxSaid = 6
  MaxSets = 1
  LOG_SIZE = 2
  MaxLines = 5
  MaxHalves = 4
  MaxCrashes = 1
  Nicks = {"ann", "bob"}
  Channels = {"c1", "c2"}
  Private = "<privmsg>"
  Loggers <- MCLoggers
  C_USERS_MAX = 1
  MaxEvents = 3
  People = {"ann", "bob", "eve", "a_nick_of_full_size"}
  Longest = {"a_nick_of_full_size"}
  SEEN_MAX = 2
  MaxTime = 3
  MaxRestarts = 1
  Others = {"ann", "bob"}
  nick_orig = "mbot"
  watch_list <- MCWatchList
  Wanted = "bob"
  NoNick = "no nick"
  Finds <- MCFinds
  MaxSteps = 4
  MaxQueue = 3
CHECK_DEADLOCK FALSE
INVARIANTS
  FloodIsFair
  Kept
  QuitIsLogged
  SeenIsTrue
  StaysWatched
  MasksAreRight
  CalcIsRight
