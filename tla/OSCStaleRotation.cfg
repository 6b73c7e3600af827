\* A rotation reads the deleted OSC back from the cache; nothing fails.
CONSTANTS
  MD = {m1}
  OSP = {p1}
  None = None
  CachedReads = {"osp", "osc"}
  EdgeProvider = {FALSE}
  RejectedOSPs = {}
  UngeneratableOSPs = {}
  MaxEdits = 3
  MaxFaults = 0
SPECIFICATION FairSpec
INVARIANT StampAlwaysTruthful
CHECK_DEADLOCK FALSE
