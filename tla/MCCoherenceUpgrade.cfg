SPECIFICATION Spec
CONSTANTS
  Caches = {c1, c2, c3}
  Protocol = "MSI"
  MaxHwSharers = 2
  Values = {v1}
  Garbage = Garbage
  NoData = NoData
  NoCache = NoCache
  Uninit = Uninit
  MaxQueued = 3
  MaxWaiters = 3
  MaxDramMsgs = 2
SYMMETRY Symmetry
INVARIANT UpgradeFindsLine
