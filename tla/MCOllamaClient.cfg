SPECIFICATION FairSpec
CONSTANTS
  MaxFailures = 3
  ResetTimeout = 2
  MaxAttempts = 3
  CallTimeout = 4
INVARIANTS TypeOK HalfOpenOnlyDuringTest ClosedBelowThreshold
PROPERTIES FailedRunIsRecorded Recovery
