CONSTANTS
  ReadParallelism = 1
  DeserParallelism = 2
  CompressionParallelism = 1
  NetworkParallelism = 1
  BuffersInBufferpool = 10
  Source = "csv"
  SkipDeserializer = FALSE
  Compression = FALSE
  TableRows = 1
  LinesPerBuffer = 1
  TuplesPerBuffer = 1
  ReadPartitions = 1
  Faults = {}
SPECIFICATION Spec
INVARIANT
  SentinelNeverIndexed
