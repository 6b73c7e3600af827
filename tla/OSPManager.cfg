\* OSPs and the OSCs made of them, under edits, deletions, upgrades and rollbacks.
CONSTANTS
  Names = {ubuntu, custom}
  DefaultNames = {ubuntu}
  Releases = {1, 2}
  Shipped = Shipped
  UserBodies = {b1, units}
  UnitBodies = {units}
  None = None
  MaxEdits = 4
  MaxFaults = 1
SPECIFICATION ManagerSpec
INVARIANT VersionsSuffice
PROPERTIES DefaultsRestored NoChangeUnderVersion FollowsProfile
CHECK_DEADLOCK FALSE
