SPECIFICATION FairSpec
CONSTANTS
  BootCap = 6
  RollCap = 9
  MaxLen = 2
  DropMod = 4
  MarkerLen = 1
  TornCrash = TRUE
  MaxSeq = 6
  MaxBoots = 2
INVARIANTS TypeOK
PROPERTIES WriterFinishes ReadEnds
