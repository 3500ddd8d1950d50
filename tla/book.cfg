SPECIFICATION BookSpec
CHECK_DEADLOCK FALSE
CONSTANTS
  ListenAddrs <- SomeListens
  DialAddrs <- SomeDials
  LocalNames <- SomeLocals
  PairAddrs <- SomePairs
  Networks = {"tcp", "tcp6"}
  Space <- TwoFamilies
  ListenPortBase = 1
  MaxPort = 2
  MaxListens = 2
  MaxOrdinals = 1
INVARIANTS
  BookTypeOK
  AliasResolves
  EndsNamePair
  DialReachesListener
PROPERTIES
  MeaningIsFixed
