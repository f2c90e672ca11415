SPECIFICATION FairSpec
CONSTANTS
  K = 3
  MaxWire = 1
PROPERTIES OfflineIsAlwaysSeen
