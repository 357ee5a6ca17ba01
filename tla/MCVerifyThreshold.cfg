\* Two entries, of one log or of two, under a threshold of two.
SPECIFICATION Spec
CONSTANTS
  END_OF_TIME = 9
  None = None
  Calls <- TwoLogCalls
INVARIANTS
  ThresholdIsOfLogs
\* The verification of every bundle ends.
CHECK_DEADLOCK FALSE
