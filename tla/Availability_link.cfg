SPECIFICATION FairSpec
CONSTANTS
  K = 3
  MaxWire = 1
INVARIANTS TypeOK BrokerAgrees
PROPERTIES TransitionsEarned OfflineIsSeen OnlineIsSeen
