SPECIFICATION Spec
CONSTANTS
  a = a
  b = b
  c = c
  d = d
  Calc = {a, b, c, d}
  NoCalc = NoCalc
  Kinds <- JobsAndOthers
  MaxId = 3
INVARIANTS JobsOwnTheirData RefusedOnlyByARace OldDataAreSafe
CHECK_DEADLOCK FALSE
SYMMETRY Symmetry
