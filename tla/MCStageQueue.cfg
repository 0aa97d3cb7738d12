CONSTANTS
  Producers = {p1, p2, p3}
  Consumers = {c1, c2}
  Buffers = {0, 1}
  Capacity = 4
SPECIFICATION FairSpec
INVARIANTS
  TypeOK
  SentinelsLast
  StopsOnlyWhenDrained
PROPERTIES
  ConsumersStop
  ProducersEnd
CHECK_DEADLOCK FALSE
