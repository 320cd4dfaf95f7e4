SPECIFICATION Spec
CONSTANTS
  a = a
  b = b
  c = c
  h1 = h1
  h2 = h2
  q1 = q1
  q2 = q2
  q3 = q3
  q4 = q4
  Proc = {a, b}
  Job = {a, b}
  Host = {h1, h2}
  NoHost = NoHost
  Local = {h1}
  Pool = {q1, q2}
  NoPool = NoPool
  Faults = {}
INVARIANTS PoolsStay
CHECK_DEADLOCK FALSE
