SPECIFICATION Spec
CONSTANTS
  Source <- MCSource
  File <- MCFile
  SourceModels <- MCSourceModels
  Extensions <- MCExtensions
  Filters <- MCFilters
  NoFilter = NoFilter
  TRT = 2
  Unit = 3
  Weights <- MCWeights
  MaxLevels = 1
  MaxGsims = 1
  Samples = {3}
  MaxSampled = 2
INVARIANTS
  SampledAsItsRealization
CHECK_DEADLOCK FALSE
