CONSTANTS
  ReadParallelism = 1
  DeserParallelism = 1
  CompressionParallelism = 2
  NetworkParallelism = 2
  BuffersInBufferpool = 12
  Source = "csv"
  SkipDeserializer = TRUE
  Compression = FALSE
  TableRows = 1
  LinesPerBuffer = 1
  TuplesPerBuffer = 1
  ReadPartitions = 1
  Faults = {}
SPECIFICATION FairSpec
PROPERTY
  ServeReturns
CHECK_DEADLOCK FALSE
