SPECIFICATION TraceSpec
CHECK_DEADLOCK FALSE
CONSTANTS
  Dialers = {d1, d2}
  MaxOrdinals = 2
  MaxEvents = 3
  MaxTraces = 2
INVARIANTS
  InTraceOrder
  NothingMissing
PROPERTIES
  TraceGrows
