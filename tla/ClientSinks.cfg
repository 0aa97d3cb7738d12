CONSTANTS
  RcvParallelism = 1
  DecompParallelism = 1
  SerParallelism = 2
  WriteParallelism = 1
  BuffersInBufferpool = 9
  Compression = FALSE
  SkipSerializer = FALSE
  Sink = "csv"
  IFormat = 1
  IncomingBuffers = 2
  RowsPerBuffer = 2
  TextRowsPerBuffer = 2
  Faults = {}
SPECIFICATION MCSpec
INVARIANTS
  
  SinkBuffersKept
  SinkLeaksKnown
PROPERTIES
  SinkHandOffs
  SinkMainEnds
CHECK_DEADLOCK FALSE
