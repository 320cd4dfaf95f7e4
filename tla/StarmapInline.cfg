SPECIFICATION FairSpec
CONSTANTS
  a = a
  b = b
  c = c
  Task = {a, b, c}
  Args <- ArgsAB
  Queued = TRUE
  NumCores = 2
  Distribute = "no"
  OQ_TASK_NO <- NotSet
  Capacity = 4
  MaxSend = 2
  MaxStale = 1
  Faults = {"exception", "overflow", "soft_memory", "unwind", "master"}
INVARIANTS AllReduced
PROPERTIES Terminates
