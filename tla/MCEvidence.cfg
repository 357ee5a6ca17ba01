\* Any five bytes, values of up to three, certificates with up to two extensions;
\* trees of one to eight entries with the log's proofs, whole or shortened, for
\* any body, index and size, under the root of any of the trees.
SPECIFICATION Spec
CONSTANTS
  BLOCK_SIZE = 2
  MaxDepth = 20
  LogIDSize = 2
  TimestampSize = 1
  Bytes <- MCBytes
  MaxBytes = 5
  MaxExtensions = 2
  Lists <- MCLists
  MaxSize = 8
  Body <- MCBody
  Log <- MCLog
  Hash <- MCHash
  Presented <- MCPresented
INVARIANTS
  ReadIsWhatIsThere
  CloneIsEqual
  SCTsAreExact
  SaysWhatWasWritten
  SignedIsExactMostly
  AcceptedIsInTree
  OwnProofIsAccepted
\* The reading of every document ends; a proof is accepted or rejected.
CHECK_DEADLOCK FALSE
