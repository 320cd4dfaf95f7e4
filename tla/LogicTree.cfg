SPECIFICATION Spec
CONSTANTS
  Source <- MCSource
  File <- MCFile
  SourceModels <- MCSourceModels
  Extensions <- MCExtensions
  Filters <- MCFilters
  NoFilter = NoFilter
  TRT = 2
  Unit = 3
  Weights <- MCWeights
  MaxLevels = 3
  MaxGsims = 2
  Samples = {0, 2}
  MaxSampled = 3
INVARIANTS
  PathsEnumerated
  BranchesInPaths
  RealizationsAgree
  EtIdsArePairs
  RealizationsGetTheirSources
CHECK_DEADLOCK FALSE
