SPECIFICATION Spec
CONSTANTS
  w1 = w1
  w2 = w2
  j1 = j1
  NoWorker = NoWorker
  Workers = {w1, w2}
  Jobs = {j1}
  Lease = 2
  MaxAttempts = 3
INVARIANTS
  LeasesSound
PROPERTIES
  SettledSound
  PolledIsHandedOut
CHECK_DEADLOCK FALSE
