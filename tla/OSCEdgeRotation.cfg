\* The rotation of an edge MachineDeployment; nothing fails and no cache lags.
CONSTANTS
  MD = {m1}
  OSP = {p1}
  None = None
  CachedReads = {}
  EdgeProvider = {TRUE}
  RejectedOSPs = {}
  UngeneratableOSPs = {}
  MaxEdits = 3
  MaxFaults = 0
SPECIFICATION FairSpec
PROPERTY Regenerated
CHECK_DEADLOCK FALSE
