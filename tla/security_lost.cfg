SPECIFICATION FairSecuritySpec
CONSTANTS
  Tenant = {t1}
  MaxVersion = 1
  MaxSyncFaults = 1
  MaxDeaths = 0
PROPERTIES NothingLost
