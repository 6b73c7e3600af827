\* The life of a bootstrap token, with and without a lagging cache.
CONSTANTS
  Ids = {t1, t2, t3}
  None = None
  SAToken = SAToken
  MaxFaults = 1
SPECIFICATION FairSpec
INVARIANT AtMostOneToken
PROPERTIES ReturnedTokenLive KubeletCarriesToken DuplicateHeals
