\* A call fails between the creation of the token and the update of the secret.
CONSTANTS
  Ids = {t1, t2, t3}
  None = None
  SAToken = SAToken
  MaxFaults = 1
SPECIFICATION FairSpec
PROPERTY KubeletAlwaysCarriesToken
