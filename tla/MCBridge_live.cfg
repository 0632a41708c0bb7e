SPECIFICATION BridgeSpec
CONSTANTS
  Ports <- MCNoPorts
  Passwords <- MCPasswords
  Levels <- MCLevels
  Env <- MCLevelEnv
  Handlers = {h1}
  PersistencePath = FALSE
  MaxUpdates = 2
  MaxBoots = 0
  NoFile = NoFile
  Truncated = Truncated
  Torn = Torn
  Sources = {s1, s2}
  UnparsableBroker = FALSE
PROPERTIES Converges ShutdownStops TelemetryFlows
CHECK_DEADLOCK FALSE
