SPECIFICATION Spec
CONSTANTS
  BufSize = 4
  MaxRx = 5
  MaxTx = 5
CHECK_DEADLOCK FALSE
PROPERTY TxUpdateUndisturbed
