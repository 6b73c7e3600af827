\* Management and worker cluster: OSPs and OSCs are read from a cache,
\* MachineDeployments and secrets from the API server.
CONSTANTS
  MD = {m1}
  OSP = {p1, p2}
  None = None
  CachedReads = {"osp", "osc"}
  EdgeProvider = {FALSE}
  RejectedOSPs = {}
  UngeneratableOSPs = {p2}
  MaxEdits = 3
  MaxFaults = 1
SPECIFICATION HFairSpec
INVARIANTS TypeOK Protected ConfigBacked NodeCanProvision StampTruthful
PROPERTIES ImplementsLifecycle EventuallyComplete CleanupCompletes SuccessMeansInSync Converges
CHECK_DEADLOCK FALSE
