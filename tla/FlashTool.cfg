SPECIFICATION FairSpec
CONSTANTS
  Geometries <- AllCarts
  Word = 16
  BufferSize = 8
  StarterLen = 1
  FileLens = {0, 1, 3, 4, 7, 8, 12, 13}
  Offsets = {0, 2, 8, 12}
  MaxJobs = 2
\* The user may leave the tool alone.
CHECK_DEADLOCK FALSE
INVARIANTS
  FilesWritten
  TcrtWritten
  DumpIsFlash
PROPERTY JobsEndOrStuck
