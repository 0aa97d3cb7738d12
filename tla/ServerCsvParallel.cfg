CONSTANTS
  ReadParallelism = 2
  DeserParallelism = 1
  CompressionParallelism = 1
  NetworkParallelism = 1
  BuffersInBufferpool = 9
  Source = "csv"
  SkipDeserializer = TRUE
  Compression = FALSE
  TableRows = 2
  LinesPerBuffer = 1
  TuplesPerBuffer = 1
  ReadPartitions = 1
  Faults = {}
SPECIFICATION Spec
INVARIANT
  RowsSentOnce
