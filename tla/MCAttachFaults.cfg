\* One call, in any registry, every request of which may fail or time out.
SPECIFICATION FairSpec
CONSTANTS
  c1 = c1
  c2 = c2
  m1 = m1
  m2 = m2
  old = old
  a1 = a1
  a2 = a2
  none = none
  EmptyBlob = none
  Requests <- CallRequests
  Calls = {c1}
  Artifact <- Artifacts
  Settings <- AnyRegistry
  Credentials = "token"
  Faulty <- AllOps
  Retries = 0
  Statuses = {200, 201, 202, 401, 404, 412, 503}
  Bodies = {0, 1, 2}
INVARIANTS
  AttachTypeOK
  NothingDangling
PROPERTIES
  AttachSettles
\* Every call may have settled and every copy been served.
CHECK_DEADLOCK FALSE
