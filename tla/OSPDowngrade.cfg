\* A release meets an OSP with a newer version.
CONSTANTS
  Names = {ubuntu, custom}
  DefaultNames = {ubuntu}
  Releases = {1, 2}
  Shipped = Shipped
  UserBodies = {b1, units}
  UnitBodies = {units}
  None = None
  MaxEdits = 4
  MaxFaults = 0
SPECIFICATION FairSpec
PROPERTY UpdatesAreNewer
CHECK_DEADLOCK FALSE
