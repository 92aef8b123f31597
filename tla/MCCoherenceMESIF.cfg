SPECIFICATION Spec
CONSTANTS
  Caches = {c1, c2, c3}
  Protocol = "MESIF"
  MaxHwSharers = 3
  Values = {v1}
  Garbage = Garbage
  NoData = NoData
  NoCache = NoCache
  Uninit = Uninit
  MaxQueued = 1
  MaxWaiters = 3
  MaxDramMsgs = 2
SYMMETRY Symmetry
INVARIANTS SingleWriter DirectoryKnowsCopies ControllerAssertions
