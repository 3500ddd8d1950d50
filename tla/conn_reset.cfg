SPECIFICATION ConnSpec
CHECK_DEADLOCK FALSE
CONSTANTS
  Calls <- OnePipe
  Closers = {"client", "server"}
  Room = 1
  Deadlines = {}
  MaxCallbacks = 2
INVARIANTS
  ResetIsNoEOF
