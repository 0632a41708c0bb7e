SPECIFICATION Spec
CONSTANTS
  Ports <- MCPorts
  Passwords <- MCPasswords
  Levels <- MCLevels
  Env <- MCEnv
  Handlers = {h1}
  PersistencePath = TRUE
  MaxUpdates = 3
  MaxBoots = 2
  NoFile = NoFile
  Truncated = Truncated
  Torn = Torn
INVARIANTS
  TypeOK
  ConfigFileIntact
  SettledOnDisk
  RestartKeepsNonEmpty
PROPERTY ImplementsDurable
