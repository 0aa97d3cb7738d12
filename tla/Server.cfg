CONSTANTS
  ReadParallelism = 2
  DeserParallelism = 1
  CompressionParallelism = 1
  NetworkParallelism = 1
  BuffersInBufferpool = 9
  Source = "postgres"
  SkipDeserializer = FALSE
  Compression = FALSE
  TableRows = 2
  LinesPerBuffer = 1
  TuplesPerBuffer = 3
  ReadPartitions = 1
  Faults = {}

SPECIFICATION MCSpec

INVARIANTS
  SourceSentOnce
  StageRowsOnce
  NoRowTwice
  BufferConservation

PROPERTIES
  SourceHandOffs
  StageHandOffs
  ServeEnds

CHECK_DEADLOCK FALSE
