SPECIFICATION FairSpec
CONSTANTS
  a = a
  b = b
  c = c
  Task = {a, b, c}
  Args <- ArgsAB
  Queued = TRUE
  NumCores = 1
  Distribute = "zmq"
  OQ_TASK_NO <- NotSet
  Capacity = 2
  MaxSend = 2
  MaxStale = 1
  Faults = {"exception", "overflow", "unwind", "kill", "version", "master"}
INVARIANTS Inv TodoCounts KeepsCoresBusy NothingLeft AllReduced
PROPERTIES ImplementsParallelMap Terminates TasksEnd
