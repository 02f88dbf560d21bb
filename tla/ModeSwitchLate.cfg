SPECIFICATION SwitchSpec
CONSTANTS
  Slots = 2
  Leader = 1
  Data = 1
  Trail = 2
  Pace = 4
  SregSize = 65536
  MagicLoader = 51813
  MagicCommand = 64738
  Pulses = 2
  Impatient = FALSE
  MaxResets = 0
  MaxTape = 1
INVARIANT MotorOffInTime
