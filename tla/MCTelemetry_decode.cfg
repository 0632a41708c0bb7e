SPECIFICATION Spec
CONSTANTS
  Base = 4
  HalfUp <- MCHalfUp
  Names <- MCNames
  Texts <- MCTexts
  GoName <- MCGoName
  Custom <- CustomRegistry
  Packets <- MCPackets
  Buses <- MCBuses
  Telegrams <- MCTelegrams
  TopicPrefixes <- MCPrefixes
  Losses <- MCLosses
INVARIANTS TelemetryTypeOK CustomPrecedence MessageTruthful PublishedMeansSpec PublishedComplete AnnouncedUnit AnnouncedTopic
