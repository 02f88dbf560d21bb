SPECIFICATION FairSpec
CONSTANTS
  Slots = 4
  Leader = 2
  Data = 1
  Trail = 4
  SregSize = 4
  MagicLoader = 1
  MagicCommand = 3
  Pace = 4
INVARIANTS
  TypeOK
  MotorRunsTimer
PROPERTIES
  PulsesInOrder
  StreamPlayedWhole
  RewindsAfterLoad
  RequestIsTaken
