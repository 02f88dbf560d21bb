SPECIFICATION Spec
CONSTANTS
  i1 = i1
  i2 = i2
  c1 = c1
  c2 = c2
  Infos <- MCInfos
  Codes <- MCCodes
  Blank = blank
  Junk = junk
  Slots = 3
  LoaderPages = 2
SYMMETRY Symmetry
INVARIANTS
  LoaderNotMixed
  LoaderKept
PROPERTIES
  SpareSlotKeepsOld
  StoreSpec
