--------------------------- MODULE ServerPipeline ----------------------------
(***************************************************************************)
(* One transfer on the server: XDBCServer::serve() and the threads it      *)
(* starts.  Readers (CSVReader::readCSV, PGReader::readPG or               *)
(* PQReader::readPQ) cut the table into raw buffers, deserializers         *)
(* (deserializeCSV, deserializePG, deserializePQ) turn raw buffers into    *)
(* buffers of tuples, compressors (Compressor::compress) encode them,      *)
(* senders (XDBCServer::send) write them to the client.  A ClickHouse      *)
(* reader (CHReader::chWriteToBp) fills buffers of tuples itself and hands *)
(* them to the compressors; there is no deserializer then.  It writes no   *)
(* header either: what send() and compress() take for the size of such a   *)
(* buffer are bytes of its first row.                                      *)
(*                                                                         *)
(* Threads exchange buffer ids through four customQueues, each operation   *)
(* of which is one step here.  The buffers themselves (bp) are shared      *)
(* memory without a lock: only the thread that holds an id may touch the   *)
(* buffer.  A buffer's content is the sequence of rows it carries; what is *)
(* left in a buffer that returns to the free queue is dropped, because its *)
(* next holder overwrites it.                                              *)
(*                                                                         *)
(* Indexing the pool with the sentinel, and encoding a buffer without a    *)
(* header, are undefined behaviour: a thread that would do so goes to      *)
(* "undefined", and nothing is modelled, or claimed, from there on.        *)
(***************************************************************************)
EXTENDS QueueOps, FiniteSets

CONSTANTS ReadParallelism, DeserParallelism,    \* threads per stage
          CompressionParallelism, NetworkParallelism,
          BuffersInBufferpool,                  \* size of bp
          Source,            \* xdbcEnv->system: "csv", "postgres", "parquet", "clickhouse"
          SkipDeserializer,  \* xdbcEnv->skip_deserializer
          Compression,       \* TRUE unless compression_algorithm is nocomp
          TableRows,         \* rows of the table (pages, for postgres)
          LinesPerBuffer,    \* lines of text in a raw buffer; rows of a parquet
                             \* file; buffer_size, as CHReader uses it
          TuplesPerBuffer,   \* tuples that fill a buffer: tuples_per_buffer, for Arrow
                             \* batches (iformat 3) of more than 1000 tuples 1000 less
          ReadPartitions,    \* read_partitions, which only CHReader uses
          Faults             \* what may go wrong: "open", "send", "incompressible",
                             \* "cut" (a buffer without header taken for a shorter one)

ASSUME ParallelismAssumption ==
  /\ ReadParallelism \in Nat \ {0} /\ DeserParallelism \in Nat \ {0}
  /\ CompressionParallelism \in Nat \ {0} /\ NetworkParallelism \in Nat \ {0}

ASSUME SizesAssumption ==
  /\ BuffersInBufferpool \in Nat \ {0} /\ TableRows \in Nat \ {0}
  /\ LinesPerBuffer \in Nat \ {0} /\ TuplesPerBuffer \in Nat \ {0}
  /\ ReadPartitions \in Nat \ {0}

ASSUME OptionsAssumption ==
  /\ Source \in {"csv", "postgres", "parquet", "clickhouse"}
  /\ SkipDeserializer \in BOOLEAN /\ Compression \in BOOLEAN
  /\ Faults \subseteq {"open", "send", "incompressible", "cut"}

VARIABLES pc,        \* where each thread is
          loc,       \* its buffers in and out, its read offset, sentinels left
          queue,     \* freeBufferPtr, deserBufferPtr, compBufferPtr, sendBufferPtr
          content,   \* the rows in each buffer
          finished,  \* finishedReadThreads, finishedDeserThreads, finishedCompThreads
          partPtr,   \* the queue of partitions to read
          cursor,    \* per reader: curPart, currentLine and its file's position
          sent,      \* how often each row has been written to a socket
          serve      \* where the main thread is

vars == <<pc, loc, queue, content, finished, partPtr, cursor, sent, serve>>

-----------------------------------------------------------------------------
Readers == {"read"} \X (1..ReadParallelism)
Desers == IF Source = "clickhouse" THEN {} ELSE {"deser"} \X (1..DeserParallelism)
Comps == {"comp"} \X (1..CompressionParallelism)
Senders == {"send"} \X (1..NetworkParallelism)
Threads == Readers \cup Desers \cup Comps \cup Senders

Stage(t) == t[1]

Parallelism == [read |-> ReadParallelism, deser |-> DeserParallelism,
                comp |-> CompressionParallelism, send |-> NetworkParallelism]

NextStage == [read |-> IF Source = "clickhouse" THEN "comp" ELSE "deser", deser |-> "comp", comp |-> "send"]

Buffers == 0..(BuffersInBufferpool - 1)
NoBuffer == -2
Rows == 1..TableRows

TotalWorkers == ReadParallelism + DeserParallelism
                + CompressionParallelism + NetworkParallelism

\* The queue named after a stage is the one its threads pop from.
Capacity ==
  [free |-> 0,
   deser |-> RemainderQueueCapacity(BuffersInBufferpool, TotalWorkers),
   comp |-> QueueCapacityPerComp(BuffersInBufferpool, TotalWorkers),
   send |-> QueueCapacityPerComp(BuffersInBufferpool, TotalWorkers)]

\* deserializePG does not look at skip_deserializer.
Skipping == SkipDeserializer /\ Source \in {"csv", "parquet"}

Least(a, b) == IF a <= b THEN a ELSE b

-----------------------------------------------------------------------------
\* The table is cut into partitions of equal size, rounded up: lines of a csv
\* file, files of a parquet table, pages or rows of a database table.  wc() and
\* readData() count the lines and the files; getMaxCtId() and getMaxRowNum()
\* return the number of the last page or row, one less than there are.
NumFiles == TableRows \div LinesPerBuffer

PartNum == IF Source = "clickhouse" THEN ReadPartitions ELSE ReadParallelism

MaxRowNum == CASE Source = "csv" -> TableRows
               [] Source = "parquet" -> NumFiles
               [] OTHER -> TableRows - 1

PartSize == (MaxRowNum + PartNum - 1) \div PartNum

StartOff(i) == i * PartSize

\* The last partition of a database table has no upper bound.
LastOff == IF Source \in {"csv", "parquet"} THEN MaxRowNum ELSE TableRows

\* Mutant of EndOff: partitions are closed intervals.
EndOffInclusive(i) == IF i # PartNum - 1 THEN (i + 1) * PartSize + 1 ELSE LastOff

\* Only the last partition is cut off at the end of the table.
EndOff(i) == IF i # PartNum - 1 THEN (i + 1) * PartSize ELSE LastOff

\* Partitions go into the queue from the last to the first, then one final
\* partition per reader.  CHReader keeps them on a stack and has no final ones.
InitialParts ==
  IF Source = "clickhouse"
  THEN [i \in 1..PartNum |-> i - 1]
  ELSE [i \in 1..(PartNum + ReadParallelism) |-> IF i <= PartNum THEN PartNum - i ELSE Sentinel]

StartPC == [read |-> IF Source = "parquet" THEN "popPart" ELSE "popFree",
            deser |-> IF Skipping THEN "pop"
                      ELSE IF Source = "parquet" THEN "popFirst" ELSE "popFree",
            comp |-> "pop", send |-> "bind"]

Init ==
  /\ pc = [t \in Threads |-> StartPC[Stage(t)]]
  /\ loc = [t \in Threads |-> [in |-> NoBuffer, out |-> NoBuffer, off |-> 0, left |-> 0]]
  /\ queue = [free |-> [i \in 1..BuffersInBufferpool |-> i - 1],
              deser |-> <<>>, comp |-> <<>>, send |-> <<>>]
  /\ content = [b \in Buffers |-> <<>>]
  /\ finished = [read |-> 0, deser |-> 0, comp |-> 0]
  /\ partPtr = InitialParts
  /\ cursor = [r \in Readers |-> [part |-> Sentinel, line |-> 0, pos |-> 0]]
  /\ sent = [r \in Rows |-> 0]
  /\ serve = "waitReady"

-----------------------------------------------------------------------------
(* Steps shared by the stages. *)

Goto(t, s) == pc' = [pc EXCEPT ![t] = s]

Put(name, b) ==
  /\ HasSpace(queue[name], Capacity[name])
  /\ queue' = [queue EXCEPT ![name] = Append(@, b)]

Front(name) == Head(queue[name])

Take(name) ==
  /\ queue[name] # <<>>
  /\ queue' = [queue EXCEPT ![name] = Tail(@)]

\* Mutant of FetchAdd: sentinels are pushed without looking at the counter.
FetchAddSignal(t) ==
  /\ pc[t] = "fetchAdd"
  /\ finished' = [finished EXCEPT ![Stage(t)] = @ + 1]
  /\ loc' = [loc EXCEPT ![t].left = Parallelism[NextStage[Stage(t)]]]
  /\ Goto(t, "signal")
  /\ UNCHANGED <<queue, content, partPtr, cursor, sent, serve>>

\* A thread that reaches the end of its work: fetch_add on its stage's counter.
FetchAdd(t) ==
  /\ pc[t] = "fetchAdd"
  /\ finished' = [finished EXCEPT ![Stage(t)] = @ + 1]
  /\ Goto(t, "load")
  /\ UNCHANGED <<loc, queue, content, partPtr, cursor, sent, serve>>

\* Mutant of LoadFinished: the comparison is off by one.
LoadFinishedOffByOne(t) ==
  /\ pc[t] = "load"
  /\ IF finished[Stage(t)] >= Parallelism[Stage(t)] - 1
     THEN /\ Goto(t, "signal")
          /\ loc' = [loc EXCEPT ![t].left = Parallelism[NextStage[Stage(t)]]]
     ELSE /\ Goto(t, "done")
          /\ UNCHANGED loc
  /\ UNCHANGED <<queue, content, finished, partPtr, cursor, sent, serve>>

\* Then it reads the counter again; at the final value it sends the sentinels.
LoadFinished(t) ==
  /\ pc[t] = "load"
  /\ IF finished[Stage(t)] = Parallelism[Stage(t)]
     THEN /\ Goto(t, "signal")
          /\ loc' = [loc EXCEPT ![t].left = Parallelism[NextStage[Stage(t)]]]
     ELSE /\ Goto(t, "done")
          /\ UNCHANGED loc
  /\ UNCHANGED <<queue, content, finished, partPtr, cursor, sent, serve>>

\* Mutant of PushSentinel: one sentinel for the whole next stage.
PushOneSentinel(t) ==
  /\ pc[t] = "signal"
  /\ Put(NextStage[Stage(t)], Sentinel)
  /\ loc' = [loc EXCEPT ![t].left = 0]
  /\ Goto(t, "done")
  /\ UNCHANGED <<content, finished, partPtr, cursor, sent, serve>>

PushSentinel(t) ==
  /\ pc[t] = "signal"
  /\ Put(NextStage[Stage(t)], Sentinel)
  /\ loc' = [loc EXCEPT ![t].left = @ - 1]
  /\ Goto(t, IF loc[t].left = 1 THEN "done" ELSE "signal")
  /\ UNCHANGED <<content, finished, partPtr, cursor, sent, serve>>

Finish(t) == FetchAdd(t) \/ LoadFinished(t) \/ PushSentinel(t)

\* Take a free buffer to write into; it starts out empty.
PopFree(t, from, to) ==
  /\ pc[t] = from
  /\ Take("free")
  /\ loc' = [loc EXCEPT ![t].out = Front("free")]
  /\ Goto(t, to)
  /\ UNCHANGED <<content, finished, partPtr, cursor, sent, serve>>

\* Hand the buffer written to the next stage.
PushOut(t, from, to) ==
  /\ pc[t] = from
  /\ Put(NextStage[Stage(t)], loc[t].out)
  /\ loc' = [loc EXCEPT ![t].out = NoBuffer]
  /\ Goto(t, to)
  /\ UNCHANGED <<content, finished, partPtr, cursor, sent, serve>>

\* Mutant of ReleaseIn: the thread goes on without pushing the id.
ReleaseInLost(t, to) ==
  /\ pc[t] = "release"
  /\ content' = [content EXCEPT ![loc[t].in] = <<>>]
  /\ loc' = [loc EXCEPT ![t].in = NoBuffer, ![t].off = 0]
  /\ Goto(t, to)
  /\ UNCHANGED <<queue, finished, partPtr, cursor, sent, serve>>

\* Return the buffer read to the free queue.
ReleaseIn(t, to) ==
  /\ pc[t] = "release"
  /\ Put("free", loc[t].in)
  /\ content' = [content EXCEPT ![loc[t].in] = <<>>]
  /\ loc' = [loc EXCEPT ![t].in = NoBuffer, ![t].off = 0]
  /\ Goto(t, to)
  /\ UNCHANGED <<finished, partPtr, cursor, sent, serve>>

-----------------------------------------------------------------------------
(* CSVReader::readCSV, PGReader::readPG, CHReader::chWriteToBp, PQReader::readPQ. *)

\* An exception nobody catches, or exit(): the whole server ends.
Throw ==
  /\ serve' = "aborted"
  /\ UNCHANGED <<pc, loc, queue, content, finished, partPtr, cursor, sent>>

\* Before readData() starts a thread, wc() counts the lines of the file; it exits
\* with 255 if the file cannot be opened or read.
CountFails ==
  /\ "open" \in Faults /\ Source = "csv"
  /\ \A t \in Readers \cup Desers : pc[t] = StartPC[Stage(t)]
  /\ Throw

\* A reader cannot open the file any more: it returns without counting itself.
OpenFails(r) ==
  /\ "open" \in Faults /\ Source = "csv"
  /\ pc[r] = "popFree"
  /\ Goto(r, "failed")
  /\ UNCHANGED <<loc, queue, content, finished, partPtr, cursor, sent, serve>>

\* Where reading of partition p starts.  A database is asked for exactly the
\* partition, and parquet files are opened by number.  A csv reader skips lines of
\* its open file until currentLine, which is 0 at the start of every partition,
\* has reached startOff.
Seek(c, p) ==
  IF Source # "csv"
  THEN [part |-> p, line |-> StartOff(p), pos |-> StartOff(p)]
  ELSE LET skip == Least(StartOff(p) - c.line, TableRows - c.pos)
       IN  [part |-> p, line |-> c.line + skip, pos |-> c.pos + skip]

\* The final partition, or for CHReader the empty stack, ends the thread.  A
\* csv or postgres reader then pushes the buffer it holds, even an empty one.
PopPart(r) ==
  /\ pc[r] = "popPart"
  /\ Source # "clickhouse" => partPtr # <<>>
  /\ IF partPtr = <<>> \/ Head(partPtr) = Sentinel
     THEN /\ Goto(r, IF Source \in {"csv", "postgres"} THEN "pushLast" ELSE "fetchAdd")
          /\ UNCHANGED cursor
     ELSE /\ Goto(r, IF Source = "parquet" THEN "openFile" ELSE "readLines")
          /\ cursor' = [cursor EXCEPT ![r] = Seek(@, Head(partPtr))]
  /\ partPtr' = IF partPtr = <<>> THEN <<>> ELSE Tail(partPtr)
  /\ UNCHANGED <<loc, queue, content, finished, sent, serve>>

\* Whether the buffer is full after n of the partition's rest rows: a csv or
\* postgres reader finds that out with the next row, CHReader with the row that
\* fills the buffer.
BufferFull(rows, n, rest) ==
  IF Source = "clickhouse" THEN Len(rows) + n = LinesPerBuffer ELSE n < rest

\* Rows are appended until the partition ends or the buffer is full.  At the end
\* of a partition currentLine is reset; the csv file is not rewound.
ReadLines(r) ==
  LET c == cursor[r]
      b == loc[r].out
      todo == Least(EndOff(c.part) - c.line, TableRows - c.pos)
      rest == IF todo > 0 THEN todo ELSE 0
      n == Least(rest, LinesPerBuffer - Len(content[b]))
      full == BufferFull(content[b], n, rest)
  IN /\ pc[r] = "readLines"
     /\ content' = [content EXCEPT ![b] = @ \o [i \in 1..n |-> c.pos + i]]
     /\ cursor' = [cursor EXCEPT ![r].pos = @ + n,
                                 ![r].line = IF full THEN @ + n ELSE 0]
     /\ Goto(r, IF full THEN "pushFull" ELSE "popPart")
     /\ UNCHANGED <<loc, queue, finished, partPtr, sent, serve>>

\* readPQ takes a partition's files in turn and throws at a file that is not there.
OpenFile(r) ==
  /\ pc[r] = "openFile"
  /\ IF cursor[r].line < EndOff(cursor[r].part) /\ cursor[r].line >= NumFiles
     THEN Throw
     ELSE /\ Goto(r, IF cursor[r].line < EndOff(cursor[r].part) THEN "popFree" ELSE "popPart")
          /\ UNCHANGED <<loc, queue, content, finished, partPtr, cursor, sent, serve>>

\* A file that cannot be opened, is larger than a buffer or cannot be read to its end.
FileFails(r) ==
  /\ "open" \in Faults /\ Source = "parquet"
  /\ \/ pc[r] = "openFile" /\ cursor[r].line < EndOff(cursor[r].part)
     \/ pc[r] = "readFile"
  /\ Throw

\* The whole file goes into one buffer.
ReadFile(r) ==
  /\ pc[r] = "readFile"
  /\ content' = [content EXCEPT ![loc[r].out] =
                   [i \in 1..LinesPerBuffer |-> cursor[r].line * LinesPerBuffer + i]]
  /\ cursor' = [cursor EXCEPT ![r].line = @ + 1]
  /\ Goto(r, "pushFile")
  /\ UNCHANGED <<loc, queue, finished, partPtr, sent, serve>>

Read(r) ==
  \/ CountFails
  \/ OpenFails(r)
  \/ PopFree(r, "popFree", IF Source = "parquet" THEN "readFile" ELSE "popPart")
  \/ PopPart(r)
  \/ ReadLines(r)
  \/ OpenFile(r)
  \/ FileFails(r)
  \/ ReadFile(r)
  \/ PushOut(r, "pushFile", "openFile")
  \/ PushOut(r, "pushFull", "refill")
  \/ PopFree(r, "refill", "readLines")
  \/ PushOut(r, "pushLast", "fetchAdd")
  \/ Finish(r)

-----------------------------------------------------------------------------
(* CSVReader::deserializeCSV, PGReader::deserializePG, PQReader::deserializePQ. *)

\* The first id popped is used without comparing it with the sentinel.
\* deserializePQ pops it before its first free buffer, the others after it.
PopFirst(d) ==
  /\ pc[d] = "popFirst"
  /\ Take("deser")
  /\ Goto(d, CASE Source = "parquet" -> "popFree"
                [] Source # "parquet" /\ Front("deser") = Sentinel -> "undefined"
                [] OTHER -> "deserialize")
  /\ loc' = [loc EXCEPT ![d].in = IF Front("deser") = Sentinel THEN NoBuffer ELSE Front("deser")]
  /\ UNCHANGED <<content, finished, partPtr, cursor, sent, serve>>

\* Mutant of Deserialize: a full out buffer ends the copy before the offset moves on.
DeserializeAgain(d) ==
  LET in == loc[d].in
      out == loc[d].out
      n == Least(Len(content[in]) - loc[d].off, TuplesPerBuffer - Len(content[out]))
      full == Len(content[out]) + n = TuplesPerBuffer
  IN /\ pc[d] = "deserialize"
     /\ content' = [content EXCEPT
                      ![out] = @ \o SubSeq(content[in], loc[d].off + 1, loc[d].off + n)]
     /\ loc' = [loc EXCEPT ![d].off = IF full THEN @ ELSE @ + n]
     /\ Goto(d, IF full THEN "pushFull" ELSE "release")
     /\ UNCHANGED <<queue, finished, partPtr, cursor, sent, serve>>

\* Tuples move to the out buffer until it is full or the in buffer is used up.
Deserialize(d) ==
  LET in == loc[d].in
      out == loc[d].out
      n == Least(Len(content[in]) - loc[d].off, TuplesPerBuffer - Len(content[out]))
  IN /\ pc[d] = "deserialize"
     /\ content' = [content EXCEPT
                      ![out] = @ \o SubSeq(content[in], loc[d].off + 1, loc[d].off + n)]
     /\ loc' = [loc EXCEPT ![d].off = @ + n]
     /\ Goto(d, IF Len(content[out]) + n = TuplesPerBuffer THEN "pushFull" ELSE "release")
     /\ UNCHANGED <<queue, finished, partPtr, cursor, sent, serve>>

\* At the sentinel, remaining tuples are pushed; an empty out buffer is kept.
PopNext(d) ==
  /\ pc[d] = "popNext"
  /\ Take("deser")
  /\ IF Front("deser") = Sentinel
     THEN /\ Goto(d, IF content[loc[d].out] = <<>> THEN "fetchAdd" ELSE "pushLast")
          /\ UNCHANGED loc
     ELSE /\ Goto(d, "deserialize")
          /\ loc' = [loc EXCEPT ![d].in = Front("deser")]
  /\ UNCHANGED <<content, finished, partPtr, cursor, sent, serve>>

\* Pop an id, or stop at the sentinel: skip_deserializer's loop, compress and
\* send.  to is where the thread goes with a buffer, end where it stops.
PopIn(t, to, end) ==
  /\ pc[t] = "pop"
  /\ Take(Stage(t))
  /\ IF Front(Stage(t)) = Sentinel
     THEN Goto(t, end) /\ UNCHANGED loc
     ELSE /\ Goto(t, to)
          /\ loc' = [loc EXCEPT ![t].in = Front(Stage(t))]
  /\ UNCHANGED <<content, finished, partPtr, cursor, sent, serve>>

\* Pass the buffer on unchanged.
Forward(t) ==
  /\ pc[t] = "forward"
  /\ Put(NextStage[Stage(t)], loc[t].in)
  /\ loc' = [loc EXCEPT ![t].in = NoBuffer]
  /\ Goto(t, "pop")
  /\ UNCHANGED <<content, finished, partPtr, cursor, sent, serve>>

\* deserializePQ throws at a file Arrow cannot open or decode, and at a column type
\* it does not know.
DeserFails(d) ==
  /\ "open" \in Faults /\ Source = "parquet"
  /\ pc[d] = "deserialize"
  /\ Throw

Deser(d) ==
  \/ PopFree(d, "popFree", CASE Source # "parquet" -> "popFirst"
                              [] Source = "parquet" /\ loc[d].in = NoBuffer -> "undefined"
                              [] OTHER -> "deserialize")
  \/ PopFirst(d)
  \/ Deserialize(d)
  \/ DeserFails(d)
  \/ PushOut(d, "pushFull", "refill")
  \/ PopFree(d, "refill", "deserialize")
  \/ ReleaseIn(d, "popNext")
  \/ PopNext(d)
  \/ PushOut(d, "pushLast", "fetchAdd")
  \/ PopIn(d, "forward", "fetchAdd")
  \/ Forward(d)
  \/ Finish(d)

-----------------------------------------------------------------------------
(* Compressor::compress. *)

\* The codec made the buffer smaller: out is sent, in released.  Every codec
\* returns size 0 for an empty buffer.
PushCompressed(c) ==
  /\ pc[c] = "compress"
  /\ content[loc[c].in] # <<>>
  /\ Put("send", loc[c].out)
  /\ content' = [content EXCEPT ![loc[c].out] = content[loc[c].in]]
  /\ loc' = [loc EXCEPT ![c].out = NoBuffer]
  /\ Goto(c, "release")
  /\ UNCHANGED <<finished, partPtr, cursor, sent, serve>>

\* A codec that cannot make the buffer smaller returns the size of its input.
\* That is recognised only if it is 0 or at least buffer_size, the size of a
\* full buffer of rows (iformat 1, with a tuple_size that divides it).
Recognised(b) ==
  \/ content[b] = <<>>
  \/ /\ "incompressible" \in Faults
     /\ ~Skipping /\ Len(content[b]) = TuplesPerBuffer

\* Mutant of PushUncompressed: the buffers are not exchanged.
PushUncompressedOut(c) ==
  /\ pc[c] = "compress"
  /\ Recognised(loc[c].in)
  /\ Put("send", loc[c].out)
  /\ loc' = [loc EXCEPT ![c].out = NoBuffer]
  /\ Goto(c, "release")
  /\ UNCHANGED <<content, finished, partPtr, cursor, sent, serve>>

\* The in buffer is sent with type 0 and the out buffer released.
PushUncompressed(c) ==
  /\ pc[c] = "compress"
  /\ Recognised(loc[c].in)
  /\ Put("send", loc[c].in)
  /\ loc' = [loc EXCEPT ![c].in = loc[c].out, ![c].out = NoBuffer]
  /\ Goto(c, "release")
  /\ UNCHANGED <<content, finished, partPtr, cursor, sent, serve>>

\* Not recognised: the out buffer, which holds no complete encoding of the
\* rows, is sent as if it were compressed.
PushIneffective(c) ==
  /\ "incompressible" \in Faults
  /\ pc[c] = "compress"
  /\ ~Recognised(loc[c].in)
  /\ Put("send", loc[c].out)
  /\ loc' = [loc EXCEPT ![c].out = NoBuffer]
  /\ Goto(c, "release")
  /\ UNCHANGED <<content, finished, partPtr, cursor, sent, serve>>

\* compress_buffer() is told to encode headIn->totalSize bytes.
Encode == IF Source = "clickhouse" THEN "undefined" ELSE "compress"

Compress(c) ==
  \/ PopIn(c, IF Compression THEN "popFree" ELSE "forward", "fetchAdd")
  \/ Forward(c)
  \/ PopFree(c, "popFree", Encode)
  \/ PushCompressed(c)
  \/ PushUncompressed(c)
  \/ PushIneffective(c)
  \/ ReleaseIn(c, "pop")
  \/ Finish(c)

-----------------------------------------------------------------------------
(* XDBCServer::send and the main thread, XDBCServer::serve. *)

\* The listening socket is open and sendThreadReady told so.
Bind(s) ==
  /\ pc[s] = "bind"
  /\ Goto(s, "accept")
  /\ UNCHANGED <<loc, queue, content, finished, partPtr, cursor, sent, serve>>

\* The client connects once it has read "Server ready".
Accept(s) ==
  /\ pc[s] = "accept"
  /\ serve # "waitReady"
  /\ Goto(s, "pop")
  /\ UNCHANGED <<loc, queue, content, finished, partPtr, cursor, sent, serve>>

Occurrences(r, rows) == Cardinality({i \in 1..Len(rows) : rows[i] = r})

\* What a send() of a buffer writes.  A header's totalSize is the size of the
\* buffer's content.  Of a buffer without header the whole is written if the bytes
\* read for totalSize are not below its size, and otherwise what fits.
Written(rows) ==
  IF Source = "clickhouse" /\ "cut" \in Faults
  THEN {SubSeq(rows, 1, n) : n \in 0..Len(rows)}
  ELSE {rows}

Write(s) ==
  /\ pc[s] = "write"
  /\ \E rows \in Written(content[loc[s].in]) :
       sent' = [r \in Rows |-> sent[r] + Occurrences(r, rows)]
  /\ Goto(s, "release")
  /\ UNCHANGED <<loc, queue, content, finished, partPtr, cursor, serve>>

\* A write error ends the thread; the buffer it holds is not returned.
WriteFails(s) ==
  /\ "send" \in Faults
  /\ pc[s] = "write"
  /\ Goto(s, "failed")
  /\ UNCHANGED <<loc, queue, content, finished, partPtr, cursor, sent, serve>>

Send(s) ==
  \/ Bind(s)
  \/ Accept(s)
  \/ PopIn(s, "write", "done")
  \/ Write(s)
  \/ WriteFails(s)
  \/ ReleaseIn(s, "pop")

Ended(t) == pc[t] \in {"done", "failed"}

\* serve() waits for every send thread, signals the client, and joins the
\* threads; readData() on t1 joins the deserializers and then the readers.
Serve ==
  /\ \/ /\ serve = "waitReady" /\ \A s \in Senders : pc[s] # "bind"
        /\ serve' = "joinComp"
     \/ /\ serve = "joinComp" /\ \A c \in Comps : Ended(c)
        /\ serve' = "joinSend"
     \/ /\ serve = "joinSend" /\ \A s \in Senders : Ended(s)
        /\ serve' = "joinRead"
     \/ /\ serve = "joinRead" /\ \A t \in Desers \cup Readers : Ended(t)
        /\ serve' = "done"
  /\ UNCHANGED <<pc, loc, queue, content, finished, partPtr, cursor, sent>>

-----------------------------------------------------------------------------
Defined == \A t \in DOMAIN pc : pc[t] # "undefined"

Running == Defined /\ serve # "aborted"

Terminated == serve \in {"done", "aborted"} /\ UNCHANGED vars

Step(t) ==
  /\ Running
  /\ \/ Stage(t) = "read" /\ Read(t)
     \/ Stage(t) = "deser" /\ Deser(t)
     \/ Stage(t) = "comp" /\ Compress(t)
     \/ Stage(t) = "send" /\ Send(t)

Next == (\E t \in Threads : Step(t)) \/ (Running /\ Serve) \/ Terminated

Spec == Init /\ [][Next]_vars

\* Every thread that can run is scheduled, and the client connects and reads.
Fairness == (\A t \in Threads : WF_vars(Step(t))) /\ WF_vars(Running /\ Serve)

FairSpec == Spec /\ Fairness

-----------------------------------------------------------------------------
PCs == {"popFree", "popPart", "readLines", "openFile", "readFile", "pushFile",
        "pushFull", "refill", "pushLast", "popFirst", "deserialize", "popNext", "pop", "forward", "compress",
        "release", "bind", "accept", "write", "fetchAdd", "load", "signal",
        "done", "failed", "undefined"}

\* Type invariant.
TypeOK ==
  /\ pc \in [Threads -> PCs]
  /\ loc \in [Threads -> [in : Buffers \cup {NoBuffer}, out : Buffers \cup {NoBuffer},
                          off : Nat, left : Nat]]
  /\ DOMAIN queue = {"free", "deser", "comp", "send"}
  /\ queue.free \in Seq(Buffers)
  /\ \A name \in {"deser", "comp", "send"} : queue[name] \in Seq(Buffers \cup {Sentinel})
  /\ content \in [Buffers -> Seq(Rows)]
  /\ finished \in [{"read", "deser", "comp"} -> Nat]
  /\ partPtr \in Seq(0..(PartNum - 1) \cup {Sentinel})
  /\ sent \in [Rows -> Nat]

\* The places where a buffer id can be: positions in queues and thread variables.
QueueSlots == UNION {{name} \X (1..Len(queue[name])) : name \in DOMAIN queue}
ThreadSlots == (DOMAIN loc) \X {"in", "out"}

\* Every buffer of the pool is always in exactly one place, so no buffer is
\* ever touched by two threads, handed on twice, or lost from the pool (a sender
\* that failed and a deserializer or ClickHouse reader that ended keep theirs): as
\* many places hold an id as there are buffers, and no buffer is missing.
BufferConservation ==
  LET queued == {s \in QueueSlots : queue[s[1]][s[2]] # Sentinel}
      held == {s \in ThreadSlots : loc[s[1]][s[2]] # NoBuffer}
  IN /\ Cardinality(queued) + Cardinality(held) = Cardinality(DOMAIN content)
     /\ {queue[s[1]][s[2]] : s \in queued} \cup {loc[s[1]][s[2]] : s \in held} = DOMAIN content

\* The producer and the consumer side of a thread, as StageQueue names them.
ProducerState(t) == IF pc[t] \in {"load", "signal", "done"} THEN pc[t] ELSE "produce"

ConsumerState(t) ==
  IF pc[t] \in {"pushLast", "fetchAdd", "load", "signal", "done"}
  THEN "stopped" ELSE "running"

\* A deserializer whose first id is the sentinel uses it as a buffer instead of
\* stopping (at once, or after its first free buffer for parquet); it will not take
\* another id either way.
TakerState(d) ==
  IF pc[d] = "undefined" \/ (Source = "parquet" /\ pc[d] = "popFree" /\ loc[d].in = NoBuffer)
  THEN "stopped" ELSE ConsumerState(d)

DeserQueue == INSTANCE StageQueue WITH
  Producers <- Readers, Consumers <- Desers, Capacity <- Capacity.deser,
  queue <- queue.deser, finished <- finished.read,
  ppc <- [p \in Readers |-> ProducerState(p)],
  left <- [p \in Readers |-> loc[p].left],
  cpc <- [c \in Desers |-> TakerState(c)]

\* The threads that feed the compressors.
Feeders == IF Source = "clickhouse" THEN Readers ELSE Desers

CompQueue == INSTANCE StageQueue WITH
  Producers <- Feeders, Consumers <- Comps, Capacity <- Capacity.comp,
  queue <- queue.comp,
  finished <- IF Source = "clickhouse" THEN finished.read ELSE finished.deser,
  ppc <- [p \in Feeders |-> ProducerState(p)],
  left <- [p \in Feeders |-> loc[p].left],
  cpc <- [c \in Comps |-> ConsumerState(c)]

SendQueue == INSTANCE StageQueue WITH
  Producers <- Comps, Consumers <- Senders, Capacity <- Capacity.send,
  queue <- queue.send, finished <- finished.comp,
  ppc <- [p \in Comps |-> ProducerState(p)],
  left <- [p \in Comps |-> loc[p].left],
  cpc <- [c \in Senders |-> ConsumerState(c)]

\* The three hand-offs of the server implement StageQueue: each reader,
\* deserializer and compressor pushes sentinels only after its stage's last
\* buffer, and each deserializer, compressor and sender stops at its first
\* sentinel and not before, or is left undefined by it.
DeserHandOff == DeserQueue!Spec
CompHandOff == CompQueue!Spec
SendHandOff == SendQueue!Spec

\* No thread uses the sentinel as an index into the buffer pool.
SentinelNeverIndexed == Defined

\* No row of the table is written to a socket twice, whatever fails.
NoRowTwice == \A r \in DOMAIN sent : sent[r] <= 1

\* The server sends every row of the table once: no row twice, and none is
\* missing when serve() returns.
RowsSentOnce ==
  /\ NoRowTwice
  /\ serve = "done" => \A r \in Rows : sent[r] = 1

\* The rows in the buffer a reader holds.
KeptBy(t) == IF loc[t].out = NoBuffer THEN <<>> ELSE content[loc[t].out]

\* chWriteToBp pushes full buffers only (its branch for remaining tuples needs
\* totalReadBuffers > 0, and nothing else increments that): when serve() returns,
\* a row that was not written to a socket is in the buffer one reader has kept, and
\* the readers keep fewer rows than fill a buffer each.
RowsSentOrKept ==
  /\ NoRowTwice
  /\ serve = "done" =>
       /\ \A r \in Rows :
            sent[r] + Cardinality({t \in Readers : Occurrences(r, KeptBy(t)) > 0}) = 1
       /\ \A t \in Readers : Len(KeptBy(t)) < LinesPerBuffer

\* The server ends without a return of serve() only if a file cannot be read or if
\* rounding up the size of the partitions pushes the start of the last one past the
\* last parquet file.
AbortsOnlyWithoutFile ==
  serve = "aborted" => "open" \in Faults \/ StartOff(PartNum - 1) > NumFiles

\* serve() returns: all threads end and are joined.
ServeReturns == <>(serve = "done")
=============================================================================
