SPECIFICATION FairSpec
CONSTANTS
  a = a
  b = b
  c = c
  s1 = s1
  s2 = s2
  t1 = t1
  t2 = t2
  Client = {a, b, c}
  NoClient = NoClient
  Server = {s1, s2}
  Thread = {t1, t2}
  ZmqCmd = {c}
  Object <- Objects
  Scripts <- Upgrades
  Faults = {"raise", "crash", "stop"}
INVARIANTS RecordedIsApplied UpToDate
PROPERTIES ImplementsCommands CommandsEnd SomebodyServes
CHECK_DEADLOCK FALSE
