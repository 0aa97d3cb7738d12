CONSTANTS
  NetworkParallelism = 2
  RcvParallelism = 2
  BuffersToSend = 2
  SendCapacity = 1
  System = "csv"
  TupleSize = 4
  Faults = {}
SPECIFICATION MCSpec
INVARIANTS
  ReceiversFindSenders
  TransferComplete
  SessionHangsKnown
PROPERTIES
  SessionEnds
  ServerFound
CHECK_DEADLOCK FALSE
