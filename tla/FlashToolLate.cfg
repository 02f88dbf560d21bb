SPECIFICATION FairSpec
CONSTANTS
  Geometries <- LateProto
  Word = 16
  BufferSize = 8
  StarterLen = 1
  FileLens = {4, 13}
  Offsets = {0}
  MaxJobs = 1
\* The user may leave the tool alone.
CHECK_DEADLOCK FALSE
PROPERTY JobsEnd
