SPECIFICATION Spec
CHECK_DEADLOCK FALSE
CONSTANTS
  Readers = {r1, r2}
  Writers = {w1, w2}
  Bound = 2
  WriteSizes = {1, 3}
  ReadSizes = {2}
  LatencyRanges <- OneRange
  StartFaults <- DelayedStart
  NetworkCalls = {"SetDuplication", "Partition"}
  Second = 1
  BytesPerSecond = 2
  MaxUnits = 2
  MaxNow = 1
INVARIANTS
  NoLostWakeup
  EofIsFinal
  AbortDiscards
  BoundRespected
  TimerCoversPending
  InOrder
PROPERTIES
  ImplementsLink
