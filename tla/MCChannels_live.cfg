SPECIFICATION FairSpec
CONSTANTS
  CHANNEL_MAX = 2
  C_USERS_MAX = 3
  Names = {c, d}
  conf = {c}
  Nicks = {mbot, ann}
  nick_orig = mbot
  NULL = NULL
  has_services = TRUE
  Refusals = {"BANNED"}
  Beside = {"b"}
  MaxQueue = 2
  MaxChanges = 2
  MaxCommands = 1
  MaxRestarts = 1
PROPERTIES
  Rejoins
