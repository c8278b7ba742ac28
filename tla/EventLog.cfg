SPECIFICATION LogSafety
CONSTANTS
  t1 = t1
  t2 = t2
  t3 = t3
  i1 = i1
  NoThread = NoThread
  Threads = {t1, t2, t3}
  Instances = {i1}
  InstanceOf <- OneInstance
  MaxEvents = 9
INVARIANTS
  LogSound
  ResumeComplete
CHECK_DEADLOCK FALSE
