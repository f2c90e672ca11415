SPECIFICATION LoggerSpec
CONSTANTS
  Tasks = {t1, t2}
  Width = 8
  BootWindow = 2
  ErrorWindow = 2
  RearmGap = 3
  MaxTime = 8
  MaxErrors = 3
  Loggers = {poller}
  Web = web
  LOG_BUFFER_SIZE = 2
  REPLAY = 1
  MAX_WEBSOCKET_CLIENTS = 2
  Sockets = {s1, s2}
  Addresses = {laptop}
  MaxLines = 5
  MaxEvents = 3
  MaxTogether = 6
SYMMETRY Symmetric
INVARIANTS LoggerTypeOK NoChatter RearmsSpaced AftermathAfterGap
INVARIANTS ConsoleHeals  ClientsCounted OneConsolePerAddress
