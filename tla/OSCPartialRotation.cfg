\* One call fails in the middle of a rotation.
CONSTANTS
  MD = {m1}
  OSP = {p1}
  None = None
  CachedReads = {}
  EdgeProvider = {FALSE}
  RejectedOSPs = {}
  UngeneratableOSPs = {}
  MaxEdits = 3
  MaxFaults = 1
SPECIFICATION FairSpec
PROPERTY Regenerated
CHECK_DEADLOCK FALSE
