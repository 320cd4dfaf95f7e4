SPECIFICATION FairSpec
CONSTANTS
  a = a
  b = b
  c = c
  Proc = {a, b}
  NoProc = NoProc
  NumJobs <- Chain
  MaxJob = 3
  SerializeJobs = 1
  FromWeb = {}
  Patient = FALSE
  Requests = {"web_abort", "cli_abort", "delete", "delete_uncompleted", "restart"}
  MaxRequests = 1
  Faults = {"calc_error", "db_error", "kill"}
INVARIANTS RowsAreConsistent
PROPERTIES QueueDrains
