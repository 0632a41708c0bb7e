SPECIFICATION BridgeSafetySpec
CONSTANTS
  Ports <- MCPorts
  Passwords <- MCPasswords
  Levels <- MCLevels
  Env <- MCEnv
  Handlers = {h1}
  PersistencePath = FALSE
  MaxUpdates = 1
  MaxBoots = 0
  NoFile = NoFile
  Truncated = Truncated
  Torn = Torn
  Sources = {s1}
  UnparsableBroker = FALSE
PROPERTIES LevelChangeKeepsConnection
CHECK_DEADLOCK FALSE
