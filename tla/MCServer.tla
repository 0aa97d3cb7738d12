------------------------------ MODULE MCServer -------------------------------
(***************************************************************************)
(* Transfers of the server, one from each data source and three from CSV   *)
(* files through all stages.  The configuration chosen at the start,       *)
(* which, says which one runs; all of them are instances of                *)
(* ServerPipeline over the same variables.  The constants of the cfg are   *)
(* those of the PostgreSQL server.                                         *)
(***************************************************************************)
EXTENDS ServerPipeline

VARIABLE which

\* Two parquet files of two rows, re-cut into buffers of three.
Parquet == INSTANCE ServerPipeline WITH
  Source <- "parquet", TableRows <- 4, LinesPerBuffer <- 2

\* One parquet file and three readers: rounding leaves a partition without files.
FewFiles == INSTANCE ServerPipeline WITH
  Source <- "parquet", TableRows <- 1, LinesPerBuffer <- 1, ReadParallelism <- 3,
  SkipDeserializer <- TRUE

\* One parquet file that may be missing or damaged.
Damaged == INSTANCE ServerPipeline WITH
  Source <- "parquet", TableRows <- 1, LinesPerBuffer <- 1, ReadParallelism <- 1,
  Faults <- {"open"}

\* More partitions than readers, and rows that do not fill the last buffers.  All of
\* a buffer is written, as it is when no byte read for its size is too small.
ClickHouse == INSTANCE ServerPipeline WITH
  Source <- "clickhouse", TableRows <- 3, LinesPerBuffer <- 2, ReadPartitions <- 3

\* Buffers without header, of which any part may be written.
CutShort == INSTANCE ServerPipeline WITH
  Source <- "clickhouse", TableRows <- 4, LinesPerBuffer <- 2, ReadParallelism <- 1,
  Faults <- {"cut"}

\* A CSV file through two compressors, on data that may not shrink.
Shrinking == INSTANCE ServerPipeline WITH
  Source <- "csv", ReadParallelism <- 1, CompressionParallelism <- 2, LinesPerBuffer <- 2,
  TuplesPerBuffer <- 1, Compression <- TRUE, Faults <- {"incompressible"}

\* A CSV buffer of two rows where three fit: that it did not shrink goes unnoticed.
Ineffective == INSTANCE ServerPipeline WITH
  Source <- "csv", ReadParallelism <- 1, LinesPerBuffer <- 2, Compression <- TRUE,
  Faults <- {"incompressible"}

\* A CSV file that may not open, two deserializers that forward, and two senders
\* whose sockets may fail.
Faulty == INSTANCE ServerPipeline WITH
  Source <- "csv", ReadParallelism <- 1, DeserParallelism <- 2, NetworkParallelism <- 2,
  BuffersInBufferpool <- 10, SkipDeserializer <- TRUE, TuplesPerBuffer <- 2,
  Faults <- {"open", "send"}

Choices == {"postgres", "parquet", "few files", "damaged", "clickhouse", "cut short",
            "compress", "ineffective", "faults"}

MCInit ==
  /\ which \in Choices
  /\ which = "postgres" => Init
  /\ which = "parquet" => Parquet!Init
  /\ which = "few files" => FewFiles!Init
  /\ which = "damaged" => Damaged!Init
  /\ which = "clickhouse" => ClickHouse!Init
  /\ which = "cut short" => CutShort!Init
  /\ which = "compress" => Shrinking!Init
  /\ which = "ineffective" => Ineffective!Init
  /\ which = "faults" => Faulty!Init

MCStep(t) ==
  /\ \/ which = "postgres" /\ Step(t)
     \/ which = "parquet" /\ Parquet!Step(t)
     \/ which = "few files" /\ FewFiles!Step(t)
     \/ which = "damaged" /\ Damaged!Step(t)
     \/ which = "clickhouse" /\ ClickHouse!Step(t)
     \/ which = "cut short" /\ CutShort!Step(t)
     \/ which = "compress" /\ Shrinking!Step(t)
     \/ which = "ineffective" /\ Ineffective!Step(t)
     \/ which = "faults" /\ Faulty!Step(t)
  /\ UNCHANGED which

MCServe ==
  /\ \/ which = "postgres" /\ Running /\ Serve
     \/ which = "parquet" /\ Parquet!Running /\ Parquet!Serve
     \/ which = "few files" /\ FewFiles!Running /\ FewFiles!Serve
     \/ which = "damaged" /\ Damaged!Running /\ Damaged!Serve
     \/ which = "clickhouse" /\ ClickHouse!Running /\ ClickHouse!Serve
     \/ which = "cut short" /\ CutShort!Running /\ CutShort!Serve
     \/ which = "compress" /\ Shrinking!Running /\ Shrinking!Serve
     \/ which = "ineffective" /\ Ineffective!Running /\ Ineffective!Serve
     \/ which = "faults" /\ Faulty!Running /\ Faulty!Serve
  /\ UNCHANGED which

\* Some thread makes a step.
MCProgress == (\E t \in DOMAIN pc : MCStep(t)) \/ MCServe

MCNext == MCProgress \/ (Terminated /\ UNCHANGED which)

MCVars == <<vars, which>>

\* No thread is ever busy waiting, so it is enough to ask of the scheduler that
\* it runs some thread whenever one can run.
MCSpec == MCInit /\ [][MCNext]_MCVars /\ WF_MCVars(MCProgress)

\* Every row of a PostgreSQL or parquet table is sent once (readPG, readPQ).  What
\* chWriteToBp has not written at the end is less than a buffer per reader as long as
\* no buffer is taken for a shorter one.
SourceSentOnce ==
  /\ which = "postgres" => RowsSentOnce
  /\ which = "parquet" => Parquet!RowsSentOnce
  /\ which = "few files" => FewFiles!RowsSentOnce
  /\ which = "damaged" => Damaged!RowsSentOnce
  /\ which = "clickhouse" => ClickHouse!RowsSentOrKept

\* Whether or not a buffer is compressed, its rows are sent once (Compressor).
StageRowsOnce == which = "compress" => Shrinking!RowsSentOnce

\* The readers' fetch_add, load and sentinels implement StageQueue: for PostgreSQL
\* and parquet towards the deserializers, for ClickHouse towards the compressors.
SourceHandOffs ==
  /\ which = "postgres" => DeserQueue!Init
  /\ which = "parquet" => Parquet!DeserQueue!Init
  /\ which = "clickhouse" => ClickHouse!CompQueue!Init
  /\ [][/\ which = "postgres" => [DeserQueue!Next]_(DeserQueue!vars)
        /\ which = "parquet" => [Parquet!DeserQueue!Next]_(Parquet!DeserQueue!vars)
        /\ which = "clickhouse" => [ClickHouse!CompQueue!Next]_(ClickHouse!CompQueue!vars)]_MCVars

\* The hand-offs to the compressors and to the senders implement StageQueue, also
\* when the reader cannot open its file or a sender's socket fails.
StageHandOffs ==
  /\ which = "compress" => Shrinking!SendQueue!Init
  /\ which = "faults" => Faulty!SendQueue!Init /\ Faulty!CompQueue!Init
  /\ [][/\ which = "compress" => [Shrinking!SendQueue!Next]_(Shrinking!SendQueue!vars)
        /\ which = "faults" => /\ [Faulty!SendQueue!Next]_(Faulty!SendQueue!vars)
                               /\ [Faulty!CompQueue!Next]_(Faulty!CompQueue!vars)]_MCVars

\* Without failures serve() returns, or the server has thrown, which readPQ does only
\* where rounding leaves a partition without files or a file is damaged: no thread
\* waits for ever, not even a compressor for a free buffer.
ServeEnds ==
  /\ <>(serve \in {"done", "aborted"} \/ which = "faults")
  /\ [](/\ which \notin {"parquet", "few files", "damaged", "faults"} => serve # "aborted"
        /\ which = "parquet" => Parquet!AbortsOnlyWithoutFile
        /\ which = "few files" => FewFiles!AbortsOnlyWithoutFile)
=============================================================================
