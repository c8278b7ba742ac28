SPECIFICATION Spec
CONSTANTS
  MaxReplans = 5
  RecursionLimit = 25
INVARIANTS
  Accounted
  WorkersStartSound
PROPERTIES
  ImplementsLifecycle
CHECK_DEADLOCK FALSE
