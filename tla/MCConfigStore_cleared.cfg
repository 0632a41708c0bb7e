SPECIFICATION Spec
CONSTANTS
  Ports <- MCPorts
  Passwords <- MCPasswords
  Levels <- MCLevels
  Env <- MCEnv
  Handlers = {h1}
  PersistencePath = TRUE
  MaxUpdates = 2
  MaxBoots = 1
  NoFile = NoFile
  Truncated = Truncated
  Torn = Torn
INVARIANT RestartKeepsSettings
