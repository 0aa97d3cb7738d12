CONSTANTS
  Producers = {p1, p2}
  Consumers = {c1, c2}
  Admins = {a1}
  Values = {0, 1}
  Capacities = {0, 1}
  NoArg = NoArg
  Unlocked = Unlocked
  MaxLen = 3
SPECIFICATION MCSpec
INVARIANTS
  TypeOK
  MutualExclusion
  NoLostItemWakeup
  NoLostSpaceWakeup
PROPERTIES
  LinearizableFifo
  ConsumersWoken
