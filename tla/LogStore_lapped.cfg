SPECIFICATION Spec
CONSTANTS
  BootCap = 6
  RollCap = 9
  MaxLen = 2
  DropMod = 4
  MarkerLen = 1
  TornCrash = FALSE
  MaxSeq = 6
  MaxBoots = 1
INVARIANTS OverrunReported
