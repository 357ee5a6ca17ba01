\* Bundles with one log entry and one timestamp at most under the default
\* thresholds, and with two of each under thresholds of two.
SPECIFICATION Spec
CONSTANTS
  END_OF_TIME = 9
  None = None
  Calls <- ManyCalls
INVARIANTS
  TypeOK
  AcceptedIsCertified
  AcceptedIsWitnessed
  ThresholdsAreMet
  RejectedForCause
\* The verification of every bundle ends.
CHECK_DEADLOCK FALSE
