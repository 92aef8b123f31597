SPECIFICATION Spec
INVARIANT SquashMeansConflict
CONSTANTS
  RegionCores = {"c1", "c2"}
  Instrs <- TwoLocations
  RegionSize = 2
  MaxRetries = 2
  FewInstrs = 3
  Handlers = {"adaptive_interpret"}
