SPECIFICATION FairSpec
CONSTANTS
  a = a
  b = b
  c = c
  h1 = h1
  h2 = h2
  q1 = q1
  q2 = q2
  q3 = q3
  q4 = q4
  Proc = {a, c}
  Job = {a}
  Host = {h1, h2}
  NoHost = NoHost
  Local = {h1}
  Pool = {q1, q2, q3, q4}
  NoPool = NoPool
  Faults = {"abort", "early", "slow", "stop"}
INVARIANTS AtWork WorkersAreManaged WaitsForSomeone NoneLeftBehind
PROPERTIES JobsEnd
CHECK_DEADLOCK FALSE
