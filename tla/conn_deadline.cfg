SPECIFICATION ConnFairSpec
CHECK_DEADLOCK FALSE
CONSTANTS
  Calls <- ServerReads
  Closers = {"client", "server"}
  Room = 1
  Deadlines = {"past", "future"}
  MaxCallbacks = 1
INVARIANTS
  DeadlineCovered
PROPERTIES
  DeadlineUnblocks
  EndUnblocks
