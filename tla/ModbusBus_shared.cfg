SPECIFICATION Spec
CONSTANTS
  Tasks = {"poller", "web"}
  Polled = 1
  AddressRange = 3
  Typed = {0, 2}
  Alive = {2}
  Regs = 2
  MAX_READ_ATTEMPTS = 3
  FRAME_LOG_SIZE = 3
  MaxWaiting = 2
INVARIANTS UnreachableFails
