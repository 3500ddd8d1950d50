SPECIFICATION EstFairSpec
CHECK_DEADLOCK FALSE
CONSTANTS
  Dialers = {d1, d2}
  Peers = {server}
  Unnamed = Unnamed
  Literal6 = {}
  Names = {client}
  Networks = {"tcp"}
  ListenPortBase = 1
  MaxPort = 1
  Backlog = 2
  SpaceV4 = 2
  MaxListeners = 1
  MaxOrdinals = 2
INVARIANTS
  FillHasRoom
  ReservationsAccounted
  NoneStranded
  ResetRegistrySound
  WaitingIsPartitioned
PROPERTIES
  ImplementsQueue
  DialReturns
  CloseCompletes
