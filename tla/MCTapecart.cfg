SPECIFICATION FairSpec
CONSTANTS
  d1 = d1
  d2 = d2
  ff = ff
  xx = xx
  Data <- MCData
  Erased = ff
  Other = xx
  Size = 16
  PageSize = 2
  EraseSize = 4
  BankSize = 8
  Infos <- MCInfos
  Blocks <- MCBlocks
  MaxCmds = 2
  Word = 16
INVARIANTS
  TypeOK
  IInv
  FlashAsAsked
  RepliesHonest
  ChipReadyAtPrompt
  SavedInfoWhole
PROPERTIES
  OnlyNamedBytesChange
  MotorEndsCommand
