SPECIFICATION DriversSpec
CONSTANTS
  Size = 8
  PageSize = 2
  SectorSize = 4
  Data <- MCData
  Erased = 31
  Bits = 5
  EEPROM_ADDR = 20
  Contents <- MCContents
  Blocks <- MCBlocks
  Cuts = TRUE
  MaxCmds = 3
CHECK_DEADLOCK FALSE
INVARIANTS
  AskedIsStored
  ReadsAreStored
  PollsEnd
PROPERTIES
  OnlyNamedBytesChange
