\* Two calls attach different manifests to an image whose index exists, in a
\* registry with ETags, or the same manifest in a registry without; the requests
\* for the index are retried once.
SPECIFICATION Spec
CONSTANTS
  c1 = c1
  c2 = c2
  m1 = m1
  m2 = m2
  old = old
  a1 = a1
  a2 = a2
  none = none
  EmptyBlob = none
  Requests <- CallRequests
  Calls = {c1, c2}
  Artifact <- Artifacts
  Settings <- IndexByTag
  Credentials = "none"
  Faulty <- Writes
  Retries = 1
  Statuses = {200, 201, 202, 401, 404, 412, 503}
  Bodies = {0, 1, 2, 3, 4, 5}
INVARIANTS
  AttachedStays
  ListedOnce
PROPERTIES
  IndexGrows
\* Every call may have settled and every copy been served.
CHECK_DEADLOCK FALSE
