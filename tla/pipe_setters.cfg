SPECIFICATION FairSpec
CHECK_DEADLOCK FALSE
CONSTANTS
  Readers = {r1}
  Writers = {w1}
  Bound = 2
  WriteSizes = {0, 1, 3}
  ReadSizes = {0, 2}
  LatencyRanges <- OneRange
  StartFaults <- PlainStart
  NetworkCalls = {"SetLatency", "SetPacketLoss", "SetDuplication", "Partition"}
  Second = 1
  BytesPerSecond = 2
  MaxUnits = 2
  MaxNow = 1
INVARIANTS
  ExactAccounting
  ReadIsCopyLoop
  TraceMatchesStream
  PipeInv
PROPERTIES
  EveryUnitReleased
  CloseUnblocks
