SPECIFICATION Spec
CONSTANTS
  Id <- Ids
  Inputs <- AllInputs
  MaxLen = 4
  Weights <- SomeWeights
  Key = {0, 1}
  MaxWeights = {0, 1, 3}
  Hints = {0, 1, 2, 3}
  TaskWeights = {2, 4}
  Times = {0, 1, 2}
  MinWeight = 2
  Unspecified = 0
INVARIANTS TypeOK BlocksFit EachOnce InOrder CloseToHint RaisesForAReason
CHECK_DEADLOCK FALSE
