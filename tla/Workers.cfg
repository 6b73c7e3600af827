\* Two workers share the configuration that main made of the flags.
CONSTANTS
  None = None
  NamesInOrder <- MCNames
  PlainNames <- MCPlain
  MD = {m1, m2}
  Flags <- MCFlags
  CredentialSecrets <- MCSecrets
  ClusterInfos <- MCInfos
  SliceLists <- MCSlices
  MaxEdits = 1
  MaxFaults = 1
SPECIFICATION FairSpec
INVARIANTS CredentialsOfOneVersion JoinsItsCluster
PROPERTIES RegistriesServed CredentialsSettle Provisioned
CHECK_DEADLOCK FALSE
