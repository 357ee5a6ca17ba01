\* Two calls attach the first artifacts of an image, in a registry without the
\* referrers API.
SPECIFICATION FairSpec
CONSTANTS
  c1 = c1
  c2 = c2
  m1 = m1
  m2 = m2
  old = old
  a1 = a1
  a2 = a2
  none = none
  EmptyBlob = none
  Requests <- CallRequests
  Calls = {c1, c2}
  Artifact <- Artifacts
  Settings <- FirstIndex
  Credentials = "none"
  Faulty = {}
  Retries = 0
  Statuses = {200, 201, 202, 401, 404, 412}
  Bodies = {0, 1, 2}
INVARIANTS
  AttachedStays
CHECK_DEADLOCK FALSE
