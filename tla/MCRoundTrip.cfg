\* sign() and attest() with a certificate or a key, any combination of witnesses,
\* any log answer; the bundle kept as it is or mixed with another.
SPECIFICATION Spec
CONSTANTS
  Absent = Absent
  Empty = Empty
  d1 = d1
  d2 = d2
  END_OF_TIME = 9
  Signings <- SomeSignings
  Others <- TheOthers
  Verifications <- SomeVerifications
  TrustedRoot <- Root
INVARIANTS
  SignedIsValid
  SignedIsAccepted
  AcceptedIsAsSigned
\* The verification of every bundle ends.
CHECK_DEADLOCK FALSE
