\* Certificates with a single extension.
SPECIFICATION Spec
CONSTANTS
  BLOCK_SIZE = 2
  MaxDepth = 20
  LogIDSize = 2
  TimestampSize = 1
  Bytes <- MCBytes
  MaxBytes = 0
  MaxExtensions = 1
  Lists <- MCLists
  MaxSize = 1
  Body <- MCBody
  Log <- MCLog
  Hash <- MCHash
  Presented <- MCPresented
INVARIANTS
  SignedIsExact
CHECK_DEADLOCK FALSE
