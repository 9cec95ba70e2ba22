SPECIFICATION Spec
CONSTANTS
  LEVEL_MIN <- Lowest
  LEVEL_MAX = 3
  Full <- Two
  nick <- NickOf
  offline <- Off
  Renames = {}
  Masks <- Entries
  fits <- Fit
  parts <- Parts
  comments = {"#pt!*@*"}
  atoi <- Number
  Passwords = {"", "p", "q"}
  NULL = NULL
  file_users <- TwoUsers
  LEVEL <- Required
  Adjusted = {"!userlevel"}
  NewLevels <- Asked
  NewPasswords = {"q"}
  Chatting = {}
  Moving = {}
  MaxUsers = 3
  MaxChanges = 2
  MaxBreaks = 1
  MayFill = TRUE
CHECK_DEADLOCK FALSE
INVARIANTS
  
  SavedIsKept
PROPERTIES
  LoadsWhatWas
