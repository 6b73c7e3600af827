\* An edge MachineDeployment is created and deleted; nothing fails and no cache lags.
CONSTANTS
  MD = {m1}
  OSP = {p1}
  None = None
  CachedReads = {}
  EdgeProvider = {TRUE}
  RejectedOSPs = {}
  UngeneratableOSPs = {}
  MaxEdits = 3
  MaxFaults = 0
SPECIFICATION FairSpec
INVARIANT NothingLeftBehind
CHECK_DEADLOCK FALSE
