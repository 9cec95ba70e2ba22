SPECIFICATION FairSpec
CONSTANTS
  TIME_RETRY = 2
  TIME_STONED = 4
  TIME_WARP = 1
  change_time = 0
  conf_hosts = 2
  MaxHosts = 4
  Reliable = {2}
  virtualhost = TRUE
  nickserv_pass = TRUE
  Channels = {c1}
  Users = {u1}
  DateChanges <- BackOrAhead
  MaxDates = 1
  MaxGap = 2
  ConnectMax = 2
  AgeCap = 5
INVARIANTS
  SocketMatchesFlags
  SessionEndsWithConnection
  RingIsOneCycle
  DeadServerIsLeft
  TimeoutIsEarned
  JumpGoesThere
PROPERTIES
  WaitsToReconnect
  Reconnects
