SPECIFICATION FairSpec
CONSTANTS
  BufSize = 4
  MaxRx = 6
  MaxTx = 6
\* Neither side has to send anything.
CHECK_DEADLOCK FALSE
INVARIANTS
  NoInterruptStorm
PROPERTIES
  RxIsQueue
  TxIsQueue
  AllSent
