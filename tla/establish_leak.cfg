SPECIFICATION EstSpec
CHECK_DEADLOCK FALSE
CONSTANTS
  Dialers = {d1}
  Peers = {server}
  Unnamed = Unnamed
  Literal6 = {v6}
  Names = {v6}
  Networks = {"tcp"}
  ListenPortBase = 1
  MaxPort = 1
  Backlog = 1
  SpaceV4 = 3
  MaxListeners = 1
  MaxOrdinals = 1
INVARIANTS
  ReserveMatchedByFill
