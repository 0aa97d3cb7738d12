CONSTANTS
  RcvParallelism = 1
  DecompParallelism = 1
  SerParallelism = 1
  WriteParallelism = 1
  BuffersInBufferpool = 8
  Compression = FALSE
  SkipSerializer = FALSE
  Sink = "csv"
  IFormat = 1
  IncomingBuffers = 1
  RowsPerBuffer = 2
  TextRowsPerBuffer = 1
  Faults = {}
SPECIFICATION Spec
INVARIANT
  RowsWrittenOnce
CHECK_DEADLOCK FALSE
