SPECIFICATION Spec
CONSTANTS
  LEVEL_MIN <- Lowest
  LEVEL_MAX = 3
  Full <- People
  nick <- NickOf
  offline <- Off
  Renames <- Changed
  Masks <- Plain
  fits <- Fit
  parts <- Parts
  comments = {}
  atoi <- Number
  Passwords = {"", "p", "q"}
  NULL = NULL
  file_users <- TwoUsers
  LEVEL <- Required
  Adjusted = {"!userlevel"}
  NewLevels <- Given
  NewPasswords = {"q"}
  Chatting <- Chats
  Moving <- Guests
  MaxUsers = 3
  MaxChanges = 1
  MaxBreaks = 1
  MayFill = FALSE
CHECK_DEADLOCK FALSE
INVARIANTS
  AccessEarned
