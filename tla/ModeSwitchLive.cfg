SPECIFICATION FairSwitch
CONSTANTS
  Slots = 2
  Leader = 1
  Data = 1
  Trail = 2
  Pace = 4
  SregSize = 65536
  MagicLoader = 51813
  MagicCommand = 64738
  Pulses = 2
  Impatient = FALSE
  MaxResets = 0
  MaxTape = 1
\* A C64 that does not give up stops behind a pulse taken for an abort.
CHECK_DEADLOCK FALSE
PROPERTIES
  CommandOrTakenForAbort
  LoaderGetsLoader
