SPECIFICATION Spec
CONSTANTS
  Ports <- MCOnePort
  Passwords <- MCNoPasswords
  Levels <- MCLevels
  Env <- MCEnv
  Handlers = {h1, h2}
  PersistencePath = TRUE
  MaxUpdates = 2
  MaxBoots = 0
  NoFile = NoFile
  Truncated = Truncated
  Torn = Torn
INVARIANT SettledOnDisk
