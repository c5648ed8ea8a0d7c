CONSTANTS
  MaxExchanges = 3
  FlakyOpen = FALSE
SPECIFICATION FairSpec
INVARIANTS TypeOK NoZombieHandle DiscoveryNotStuck
PROPERTIES RdmReturns Recovers
