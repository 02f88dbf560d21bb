SPECIFICATION Spec
CONSTANTS
  Bytes = {0, 1}
  Size = 5
  Flashes <- AllFlashes
  NameBuf = 2
  Radix = 2
  Entries = {0, 2}
  NameLens = {0, 1, 3}
  DataLens = {0, 1}
INVARIANTS
  LookupAnswers
