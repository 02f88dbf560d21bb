SPECIFICATION Spec
CONSTANTS
  Slots = 2
  Leader = 1
  Data = 1
  Trail = 2
  SregSize = 4
  MagicLoader = 1
  MagicCommand = 3
  Pace = 4
PROPERTY PulsesOnlyWithMotor
