SPECIFICATION HarnessSpec
CONSTANTS
  r1 = r1
  r2 = r2
  HarnessRuns = {r1, r2}
  Steps = 3
  Retries = 1
  Retryable = {"timeout_error"}
INVARIANTS
  ClaimsSound
  NothingLost
PROPERTIES
  HarnessRunsEnd
CHECK_DEADLOCK FALSE
