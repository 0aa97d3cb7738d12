---------------------------- MODULE MCClientSinks ----------------------------
(***************************************************************************)
(* The sinks of the client, one transfer each.  The configuration chosen   *)
(* at the start, which, says which one runs; all of them are instances of  *)
(* ClientPipeline over the same variables.  The constants of the cfg are   *)
(* those of the CsvSink that turns tuples into text.                       *)
(***************************************************************************)
EXTENDS ClientPipeline

VARIABLE which

\* Two receivers whose connections may fail, and a parquet buffer whose text needs
\* two buffers, or which cannot be opened.
ParquetText == INSTANCE ClientPipeline WITH
  RcvParallelism <- 2, SerParallelism <- 1, IFormat <- 4, IncomingBuffers <- 1,
  RowsPerBuffer <- 3, TextRowsPerBuffer <- 2, Faults <- {"read", "arrow"}

\* Parquet buffers whose only row fills the text buffer.
ExactFill == INSTANCE ClientPipeline WITH
  SerParallelism <- 1, IFormat <- 4, RowsPerBuffer <- 1, TextRowsPerBuffer <- 1

\* PQSink with Arrow batches and two serializers.
Batches == INSTANCE ClientPipeline WITH
  Sink <- "parquet", IFormat <- 3, RowsPerBuffer <- 1

\* The same with a batch that may be unreadable.
BadBatches == INSTANCE ClientPipeline WITH
  Sink <- "parquet", IFormat <- 3, IncomingBuffers <- 1, Faults <- {"arrow"}

\* PQSink with columns, whose StreamWriter may throw.
Columns == INSTANCE ClientPipeline WITH
  Sink <- "parquet", IFormat <- 2, SerParallelism <- 1, Faults <- {"arrow"}

\* PQSink writing the parquet files of the server as they are.
Files == INSTANCE ClientPipeline WITH
  Sink <- "parquet", IFormat <- 4, SerParallelism <- 1, SkipSerializer <- TRUE

\* The same with two writers.
TwoWriters == INSTANCE ClientPipeline WITH
  Sink <- "parquet", IFormat <- 4, SerParallelism <- 1, SkipSerializer <- TRUE, WriteParallelism <- 2

\* A program of two threads that pulls decoded buffers.
Pull == INSTANCE ClientPipeline WITH
  Sink <- "pull", WriteParallelism <- 2, IncomingBuffers <- 1

\* A program of two threads that leaves ser_parallelism at 1.
UnevenPull == INSTANCE ClientPipeline WITH
  Sink <- "pull", SerParallelism <- 1, WriteParallelism <- 2

\* All failures of a client that writes buffers as they come, with two
\* decompressors.
Faulty == INSTANCE ClientPipeline WITH
  DecompParallelism <- 2, SerParallelism <- 1, Compression <- TRUE,
  SkipSerializer <- TRUE, IncomingBuffers <- 1, RowsPerBuffer <- 1, TextRowsPerBuffer <- 1,
  Faults <- {"connect", "read", "decompress", "openOut"}

Choices == {"text", "parquet text", "exact fill", "arrow", "arrow fails", "columns", "files",
            "two writers", "pull", "uneven pull", "faults"}

MCInit ==
  /\ which \in Choices
  /\ which = "text" => Init
  /\ which = "parquet text" => ParquetText!Init
  /\ which = "exact fill" => ExactFill!Init
  /\ which = "arrow" => Batches!Init
  /\ which = "arrow fails" => BadBatches!Init
  /\ which = "columns" => Columns!Init
  /\ which = "files" => Files!Init
  /\ which = "two writers" => TwoWriters!Init
  /\ which = "pull" => Pull!Init
  /\ which = "uneven pull" => UnevenPull!Init
  /\ which = "faults" => Faulty!Init

MCStep(t) ==
  /\ \/ which = "text" /\ Step(t)
     \/ which = "parquet text" /\ ParquetText!Step(t)
     \/ which = "exact fill" /\ ExactFill!Step(t)
     \/ which = "arrow" /\ Batches!Step(t)
     \/ which = "arrow fails" /\ BadBatches!Step(t)
     \/ which = "columns" /\ Columns!Step(t)
     \/ which = "files" /\ Files!Step(t)
     \/ which = "two writers" /\ TwoWriters!Step(t)
     \/ which = "pull" /\ Pull!Step(t)
     \/ which = "uneven pull" /\ UnevenPull!Step(t)
     \/ which = "faults" /\ Faulty!Step(t)
  /\ UNCHANGED which

MCMain ==
  /\ \/ which = "text" /\ Running /\ Main
     \/ which = "parquet text" /\ ParquetText!Running /\ ParquetText!Main
     \/ which = "exact fill" /\ ExactFill!Running /\ ExactFill!Main
     \/ which = "arrow" /\ Batches!Running /\ Batches!Main
     \/ which = "arrow fails" /\ BadBatches!Running /\ BadBatches!Main
     \/ which = "columns" /\ Columns!Running /\ Columns!Main
     \/ which = "files" /\ Files!Running /\ Files!Main
     \/ which = "two writers" /\ TwoWriters!Running /\ TwoWriters!Main
     \/ which = "pull" /\ Pull!Running /\ Pull!Main
     \/ which = "uneven pull" /\ UnevenPull!Running /\ UnevenPull!Main
     \/ which = "faults" /\ Faulty!Running /\ Faulty!Main
  /\ UNCHANGED which

\* Some thread makes a step.
MCProgress == (\E t \in DOMAIN pc : MCStep(t)) \/ MCMain

MCNext == MCProgress \/ (Terminated /\ UNCHANGED which)

MCVars == <<vars, which>>

\* No thread is ever busy waiting, so it is enough to ask of the scheduler that
\* it runs some thread whenever one can run.
MCSpec == MCInit /\ [][MCNext]_MCVars /\ WF_MCVars(MCProgress)


\* Every buffer of the pool is in one place, whatever fails (receive, decompress and
\* the sinks), unless the text of parquet rows fills a buffer exactly.
SinkBuffersKept == which # "exact fill" => BufferConservation

\* At the end CsvSink, PQSink and a program that pulls (markBufferAsRead) have
\* returned every buffer except the one per thread that the code keeps and, where
\* the last parquet row of a buffer fills the text buffer, one for each such buffer.
SinkLeaksKnown ==
  /\ which = "text" => OnlyKnownLeaks
  /\ which = "arrow" => Batches!OnlyKnownLeaks
  /\ which = "columns" => Columns!OnlyKnownLeaks
  /\ which = "pull" => Pull!OnlyKnownLeaks
  /\ which = "exact fill" /\ main = "joined" =>
       Len(queue.free) = BuffersInBufferpool - RcvParallelism - IncomingBuffers

\* The hand-offs from receivers to decompressors, serializers and writers implement
\* StageQueue, also when connections fail, buffers cannot be decoded or a batch
\* cannot be read.
SinkHandOffs ==
  /\ which = "text" => WriteQueue!Init
  /\ which = "arrow fails" => BadBatches!WriteQueue!Init
  /\ which = "parquet text" => ParquetText!DecompQueue!Init
  /\ which = "faults" => Faulty!SerQueue!Init
  /\ [][/\ which = "text" => [WriteQueue!Next]_(WriteQueue!vars)
        /\ which = "arrow fails" => [BadBatches!WriteQueue!Next]_(BadBatches!WriteQueue!vars)
        /\ which = "parquet text" => [ParquetText!DecompQueue!Next]_(ParquetText!DecompQueue!vars)
        /\ which = "faults" => [Faulty!SerQueue!Next]_(Faulty!SerQueue!vars)]_MCVars

\* main() gets to its end, or an exception ends the process: all threads are joined,
\* unless a serializer of PQSink has returned at an unreadable batch, a receiver
\* at a refused connection, write() has read past the buffer of an Arrow batch, or a
\* program pulls with more threads than there are sentinels, when it has every row.
SinkMainEnds ==
  <>(\/ main \in {"done", "aborted"}
     \/ which \in {"arrow fails", "faults"}
     \/ which = "arrow" /\ ~Batches!Running
     \/ which = "uneven pull" /\ UnevenPull!SomePullersWait)
=============================================================================
