SPECIFICATION Spec
CONSTANTS
  CHANNEL_MAX = 1
  C_USERS_MAX = 3
  Names = {c}
  conf = {c}
  Nicks = {mbot, ann, bob}
  nick_orig = mbot
  NULL = NULL
  has_services = FALSE
  Refusals = {"BANNED", "TOOMANY"}
  Beside = {"b", "n"}
  MaxQueue = 3
  MaxChanges = 2
  MaxCommands = 2
  MaxRestarts = 1
INVARIANTS
  TypeOK
  SelfIsTrue
  
  KicksBack
