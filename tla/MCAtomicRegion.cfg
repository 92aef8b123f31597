SPECIFICATION FairSpec
INVARIANTS
  RegionsCorrect
  RetriesBounded
PROPERTIES
  BarrierOpens
CONSTANTS
  RegionCores = {"c1", "c2"}
  Instrs <- OneInstruction
  RegionSize = 2
  MaxRetries = 2
  FewInstrs = 3
  Handlers = {"adaptive_interpret", "adaptive_chopper", "mem_count", "probability"}
