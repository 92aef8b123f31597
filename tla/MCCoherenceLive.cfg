SPECIFICATION FairSpec
CONSTANTS
  Caches = {c1, c2}
  Protocol = "MESIF"
  MaxHwSharers = 2
  Values = {v1}
  Garbage = Garbage
  NoData = NoData
  NoCache = NoCache
  Uninit = Uninit
  MaxQueued = 2
  MaxWaiters = 2
  MaxDramMsgs = 2
PROPERTY MissesComplete
