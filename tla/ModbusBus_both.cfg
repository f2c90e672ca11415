SPECIFICATION FairSpec
CONSTANTS
  Tasks = {"poller", "web"}
  Polled = 1
  AddressRange = 2
  Typed = {0, 1}
  Alive = {0, 1}
  Regs = 1
  MAX_READ_ATTEMPTS = 2
  FRAME_LOG_SIZE = 4
  MaxWaiting = 1
INVARIANTS TypeOK AnswerIsMine ScanFindsResponders
PROPERTIES ReadsEnd 
