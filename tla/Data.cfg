CONSTANTS
  Schemas <- MCSchemas
  Methods = {"nocomp", "zstd", "snappy", "lzo", "lz4", "zlib", "cols", "gzip"}
  Sources = {"csv", "postgres", "parquet"}
  BufferBytes = 18
  ClientBytes = {12, 18}
  HeaderSize = 1
  ArrowMargin = 1
  ArrowOverhead = 3
  Excess = {1, 4, 11}
SPECIFICATION MCSpec
INVARIANTS
  TypeOK
  DeliveredIntact
  DropsKnown
  HonestHeader
  FailuresKnown
  ColsKnown
  ProductSuffices
  BigIntExact
  FieldsRoundToNearest
  GarbageOnlyFromOthers
  ReportAddsUp

CHECK_DEADLOCK FALSE
