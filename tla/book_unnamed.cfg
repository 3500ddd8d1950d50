SPECIFICATION BookSpec
CHECK_DEADLOCK FALSE
CONSTANTS
  ListenAddrs <- OneListen
  DialAddrs <- OneDial
  LocalNames <- NoName
  PairAddrs <- ByAddress
  Networks = {"tcp", "tcp6"}
  Space <- TwoFamilies
  ListenPortBase = 1
  MaxPort = 2
  MaxListens = 2
  MaxOrdinals = 1
INVARIANTS
  UnnamedNotTargetable
