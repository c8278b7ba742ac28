SPECIFICATION StreamSafety
CONSTANTS
  EventsPerRun = 3
  MaxRuns = 3
  MaxRestarts = 2
INVARIANTS
  IdsSound
  AtMostOneLostPerConnection
CHECK_DEADLOCK FALSE
