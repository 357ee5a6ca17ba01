\* One call of a builder with a FulcioSigner, two logs and a timestamp
\* authority, every request of which may fail.
SPECIFICATION FairSpec
CONSTANTS
  Calls = {c1}
  CA = ca
  HolderKey = key
  c1 = c1
  c2 = c2
  a1 = a1
  a2 = a2
  log = log
  log2 = log2
  tsa = tsa
  Logs = {log, log2}
  TSAs = {tsa}
  Artifact <- EachItsOwn
  Witnesses <- LogsAroundTSA
  UseCA = TRUE
  FetchOnConflict = TRUE
  Requests <- CallRequests
  Retries = 0
  Statuses = {200, 409, 503}
  Bodies = {0, 1}
INVARIANTS
  CreateTypeOK
  BundleComplete
  ErrorExplained
PROPERTIES
  OutcomeIsFinal
  KeepsPromise
\* Every call may have settled and every copy been served.
CHECK_DEADLOCK FALSE
