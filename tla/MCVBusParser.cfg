SPECIFICATION Spec
CONSTANTS
  Inputs <- MCInputs
  MaxRead = 48
INVARIANTS
  ParserTypeOK
  ParsesStream
  ReadsDoNotMatter
  HoldsOneTelegram
  DamageIsLocal
  IntactDelivered
CHECK_DEADLOCK FALSE
