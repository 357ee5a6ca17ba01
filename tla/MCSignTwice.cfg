\* Two concurrent calls that sign different artifacts, in a log to which others
\* submit the same entries, with fetchOnConflict and one retry.
SPECIFICATION FairSpec
CONSTANTS
  Calls = {c1, c2}
  CA = ca
  HolderKey = key
  c1 = c1
  c2 = c2
  a1 = a1
  a2 = a2
  log = log
  log2 = log2
  tsa = tsa
  Logs = {log}
  TSAs = {tsa}
  Artifact <- EachItsOwn
  Witnesses <- LogOnly
  UseCA = FALSE
  FetchOnConflict = TRUE
  Requests <- CallRequests
  Retries = 1
  Statuses = {200, 408, 409}
  Bodies = {0, 1, 2}
INVARIANTS
  EvidenceIsOwn
  ConflictIsRecovered
  OneAnswerPerAttempt
PROPERTIES
  SettlesOnce
  CreateSettles
\* Every call may have settled and every copy been served.
CHECK_DEADLOCK FALSE
