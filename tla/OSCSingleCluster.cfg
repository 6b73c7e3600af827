\* One cluster: the manager's client serves every read from a cache.
CONSTANTS
  MD = {m1}
  OSP = {p1}
  None = None
  CachedReads = {"md", "osp", "osc", "secret"}
  EdgeProvider = {TRUE, FALSE}
  RejectedOSPs = {}
  UngeneratableOSPs = {}
  MaxEdits = 2
  MaxFaults = 1
SPECIFICATION HFairSpec
INVARIANTS Protected
PROPERTIES EventuallyComplete CleanupCompletes SuccessMeansInSync Converges
CHECK_DEADLOCK FALSE
