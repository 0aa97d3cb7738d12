CONSTANTS
  ReadParallelism = 1
  DeserParallelism = 1
  CompressionParallelism = 1
  NetworkParallelism = 1
  BuffersInBufferpool = 4
  Source = "csv"
  SkipDeserializer = TRUE
  Compression = TRUE
  TableRows = 5
  LinesPerBuffer = 1
  TuplesPerBuffer = 1
  ReadPartitions = 1
  Faults = {}
SPECIFICATION FairSpec
PROPERTY
  ServeReturns
CHECK_DEADLOCK FALSE
