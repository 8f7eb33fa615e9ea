SPECIFICATION Spec
CONSTANTS
  Collectors = {c1, c2, c3}
  PoolSize = 2
  MaxSignals = 2
INVARIANTS AsyncToOpenHandle OneCapture NothingAbandoned SamplerInside
PROPERTY SentStopEnds
CHECK_DEADLOCK FALSE
