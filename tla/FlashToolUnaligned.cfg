SPECIFICATION Spec
CONSTANTS
  Geometries <- PlainCart
  Word = 16
  BufferSize = 8
  StarterLen = 1
  FileLens = {0, 4, 13}
  Offsets = {0, 4, 8}
  MaxJobs = 1
\* The user may leave the tool alone.
CHECK_DEADLOCK FALSE
INVARIANT EverythingWritten
