SPECIFICATION Spec
CONSTANTS
  d1 = d1
  d2 = d2
  ff = ff
  xx = xx
  Data <- MCData
  Erased = ff
  Other = xx
  Size = 16
  PageSize = 2
  EraseSize = 4
  BankSize = 8
  Infos <- MCInfos
  Blocks <- MCBlocks
  MaxCmds = 2
  Word = 16
PROPERTY AbortEndsErase
