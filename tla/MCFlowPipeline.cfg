SPECIFICATION MCSpec
CONSTANTS
  netflow = netflow
  sflow = sflow
  tcp = tcp
  Listeners = {netflow, sflow}
  Protocols = {tcp}
  Sizes = {1, 2}
  RingTTL = 1
  RingLimit = 2
  RingBytesLimit = 3
  RollupInterval = 1
  Minute = 2
  MaxBatch = 2
  MaxFlows = 3
  MaxClock = 2
  MaxCrashes = 1
CHECK_DEADLOCK FALSE
INVARIANTS
  TypeOK
  RingOrderedAndBounded
  RollupCoversRing
  CountersAccountForFlows
  CountedAtMostOnce
PROPERTIES
  ThreadsKeepGoing
