SPECIFICATION BridgeSafetySpec
CONSTANTS
  Ports <- MCPorts
  Passwords <- MCPasswords
  Levels <- MCLevels
  Env <- MCEnv
  Handlers = {h1, h2}
  PersistencePath = FALSE
  MaxUpdates = 2
  MaxBoots = 0
  NoFile = NoFile
  Truncated = Truncated
  Torn = Torn
  Sources = {s1}
  UnparsableBroker = TRUE
INVARIANTS BridgeTypeOK ReloadSound LevelSound ShownOnlyWithClient
SYMMETRY MCHandlerSymmetry
PROPERTIES Unwinds ImplementsSessions
CHECK_DEADLOCK FALSE
