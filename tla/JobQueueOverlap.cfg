SPECIFICATION Spec
CONSTANTS
  a = a
  b = b
  c = c
  Proc = {a, b}
  NoProc = NoProc
  NumJobs <- Single
  MaxJob = 2
  SerializeJobs = 1
  FromWeb = {}
  Patient = FALSE
  Requests = {}
  MaxRequests = 0
  Faults = {}
INVARIANTS AtMostSerialized
