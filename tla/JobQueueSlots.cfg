SPECIFICATION Spec
CONSTANTS
  a = a
  b = b
  c = c
  Proc = {a, b, c}
  NoProc = NoProc
  NumJobs <- Chain
  MaxJob = 4
  SerializeJobs = 2
  FromWeb = {a}
  Patient = TRUE
  Requests = {"web_abort"}
  MaxRequests = 1
  Faults = {"calc_error", "kill"}
INVARIANTS VisibleWhileComputing
PROPERTIES ImplementsSlots FailedOnlyIfOver
SYMMETRY Symmetry
