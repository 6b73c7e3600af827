\* Templates and profiles that fit and that do not, edits at any time, failed calls.
CONSTANTS
  None = None
  Templates <- MCTemplates
  Annotations <- MCAnnotations
  Profiles <- MCProfiles
  RegistryHosts <- MCHosts
  ExternalCloudProvider = FALSE
  MaxEdits = 2
  MaxFaults = 2
SPECIFICATION FairSpec
INVARIANTS SecretsOfOSC Renderable FilesArrive
PROPERTIES DefaultFits Delivered
CHECK_DEADLOCK FALSE
