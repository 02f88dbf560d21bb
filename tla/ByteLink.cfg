SPECIFICATION FairSpec
CONSTANTS
  Bits = 8
  Bytes = {0, 90, 129, 255}
  Transfers = 2
  LoadLens = {1, 2}
INVARIANTS
  NoContention
  BytesArrive
  InStep
PROPERTY LinkEnds
