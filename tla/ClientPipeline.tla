--------------------------- MODULE ClientPipeline ----------------------------
(***************************************************************************)
(* One transfer on the client: XClient, the sink it feeds and the main     *)
(* program that joins them.  Receivers (XClient::receive) read buffers     *)
(* from their connections, decompressors (XClient::decompress) decode      *)
(* them, serializers (CsvSink::serialize, PQSink::serialize) turn tuples   *)
(* into text or parquet files, writers (CsvSink::write, PQSink::write)     *)
(* write them out.  A program without a sink pulls the decoded buffers     *)
(* itself, through hasNext, getBuffer and markBufferAsRead.                *)
(*                                                                         *)
(* The conventions are those of ServerPipeline: queue operations are       *)
(* atomic, a buffer's content is the sequence of rows it carries, and a    *)
(* thread whose next step is undefined behaviour goes to "undefined".      *)
(* Here the content of a released buffer is kept, because serialize can    *)
(* read it again.                                                          *)
(***************************************************************************)
EXTENDS QueueOps, FiniteSets

CONSTANTS RcvParallelism, DecompParallelism,    \* threads per stage
          SerParallelism, WriteParallelism,
          BuffersInBufferpool,   \* size of _bufferPool
          Compression,           \* may headers say that a body is compressed?
          SkipSerializer,        \* env.skip_serializer
          Sink,                  \* "csv", "parquet", or "pull" for no sink
          IFormat,               \* iformat: 1 rows, 2 columns, 3 Arrow, 4 parquet
          IncomingBuffers,       \* buffers the server sends
          RowsPerBuffer,         \* rows in each of them
          TextRowsPerBuffer,     \* serialized rows that fit into a buffer
          Faults                 \* "connect", "read", "decompress", "openOut", "arrow"

ASSUME ParallelismAssumption ==
  /\ RcvParallelism \in Nat \ {0} /\ DecompParallelism \in Nat \ {0}
  /\ SerParallelism \in Nat \ {0} /\ WriteParallelism \in Nat \ {0}

ASSUME SizesAssumption ==
  /\ BuffersInBufferpool \in Nat \ {0} /\ IncomingBuffers \in Nat \ {0}
  /\ RowsPerBuffer \in Nat \ {0} /\ TextRowsPerBuffer \in Nat \ {0}

ASSUME OptionsAssumption ==
  /\ Compression \in BOOLEAN /\ SkipSerializer \in BOOLEAN
  /\ Sink \in {"csv", "parquet", "pull"} /\ IFormat \in 1..4
  /\ Faults \subseteq {"connect", "read", "decompress", "openOut", "arrow"}

VARIABLES pc,        \* where each thread is
          loc,       \* its buffers in and out, the buffer outBuffer refers to,
                     \* the tuples of in it has used, sentinels left
          queue,     \* freeBufferIds, and the queue each stage pops from
          content,   \* the rows in each buffer
          finished,  \* finishedRcvThreads, ...DecompThreads, ...SerializerThreads,
                     \* _emptyDecompThreadCtr
          inFlight,  \* the number of buffers the client has not read yet
          dropped,   \* history: the rows in buffers given up after an error
          written,   \* how often each row has been written to a file, or pulled
          files,     \* PQSink: what is in the file with each suffix
          main       \* where the main thread is

vars == <<pc, loc, queue, content, finished, inFlight, dropped, written, files, main>>

-----------------------------------------------------------------------------
Receivers == {"rcv"} \X (1..RcvParallelism)
Decomps == {"decomp"} \X (1..DecompParallelism)
Serializers == IF Sink = "pull" THEN {} ELSE {"ser"} \X (1..SerParallelism)
Writers == {"write"} \X (1..WriteParallelism)
Threads == Receivers \cup Decomps \cup Serializers \cup Writers

Stage(t) == t[1]

Parallelism == [rcv |-> RcvParallelism, decomp |-> DecompParallelism,
                ser |-> SerParallelism, write |-> WriteParallelism]

NextStage == [rcv |-> "decomp", decomp |-> "ser", ser |-> "write"]

Buffers == 0..(BuffersInBufferpool - 1)
NoBuffer == -2
Rows == 1..(IncomingBuffers * RowsPerBuffer)

\* The rows of the m-th buffer that the client reads, from 1 on.
Message(m) == [i \in 1..RowsPerBuffer |-> (m - 1) * RowsPerBuffer + i]

RowsOf(rows) == {rows[i] : i \in 1..Len(rows)}

TotalWorkers == RcvParallelism + DecompParallelism
                + SerParallelism + WriteParallelism

\* compressedBufferIds, decompressedBufferIds and serializedBufferIds, named
\* after the stage that pops from them.
Capacity ==
  [free |-> 0,
   decomp |-> QueueCapacityPerComp(BuffersInBufferpool, TotalWorkers),
   ser |-> QueueCapacityPerComp(BuffersInBufferpool, TotalWorkers),
   write |-> RemainderQueueCapacity(BuffersInBufferpool, TotalWorkers)]

Least(a, b) == IF a <= b THEN a ELSE b

\* PQSink converts Arrow batches and columns; with rows its serializers end at once.
StartPC == [rcv |-> "connect", decomp |-> "pop",
            ser |-> IF Sink = "parquet" /\ ~SkipSerializer /\ IFormat \notin {2, 3}
                    THEN "fetchAdd" ELSE "pop",
            write |-> CASE Sink = "csv" -> "open"
                        [] Sink = "parquet" -> "pop"
                        [] Sink = "pull" -> "hasNext"]

\* The queue a thread pops from; a program without a sink pops decoded buffers.
From(t) == IF Sink = "pull" /\ Stage(t) = "write" THEN "ser" ELSE Stage(t)

Init ==
  /\ pc = [t \in Threads |-> StartPC[Stage(t)]]
  /\ loc = [t \in Threads |-> [in |-> NoBuffer, out |-> NoBuffer, tgt |-> NoBuffer,
                               off |-> 0, left |-> 0, suffix |-> 0]]
  /\ queue = [free |-> [i \in 1..BuffersInBufferpool |-> i - 1],
              decomp |-> <<>>, ser |-> <<>>, write |-> <<>>]
  /\ content = [b \in Buffers |-> <<>>]
  /\ finished = [rcv |-> 0, decomp |-> 0, ser |-> 0, empty |-> 0]
  /\ inFlight = IncomingBuffers
  /\ dropped = {}
  /\ written = [r \in Rows |-> 0]
  /\ files = [k \in 0..(IncomingBuffers - 1) |-> <<>>]
  /\ main = "joinSer"

-----------------------------------------------------------------------------
(* Steps shared by the stages. *)

Goto(t, s) == pc' = [pc EXCEPT ![t] = s]

Put(name, b) ==
  /\ HasSpace(queue[name], Capacity[name])
  /\ queue' = [queue EXCEPT ![name] = Append(@, b)]

Front(name) == Head(queue[name])

Take(name) ==
  /\ queue[name] # <<>>
  /\ queue' = [queue EXCEPT ![name] = Tail(@)]

FetchAdd(t) ==
  /\ pc[t] = "fetchAdd"
  /\ finished' = [finished EXCEPT ![Stage(t)] = @ + 1]
  /\ Goto(t, "load")
  /\ UNCHANGED <<loc, queue, content, inFlight, dropped, written, files, main>>

\* Mutant of LoadFinished: the comparison is off by one.
LoadFinishedOffByOne(t) ==
  /\ pc[t] = "load"
  /\ IF finished[Stage(t)] >= Parallelism[Stage(t)] - 1
     THEN /\ Goto(t, "signal")
          /\ loc' = [loc EXCEPT ![t].left = Parallelism[NextStage[Stage(t)]]]
     ELSE /\ Goto(t, "done")
          /\ UNCHANGED loc
  /\ UNCHANGED <<queue, content, finished, inFlight, dropped, written, files, main>>

LoadFinished(t) ==
  /\ pc[t] = "load"
  /\ IF finished[Stage(t)] = Parallelism[Stage(t)]
     THEN /\ Goto(t, "signal")
          /\ loc' = [loc EXCEPT ![t].left = Parallelism[NextStage[Stage(t)]]]
     ELSE /\ Goto(t, "done")
          /\ UNCHANGED loc
  /\ UNCHANGED <<queue, content, finished, inFlight, dropped, written, files, main>>

PushSentinel(t) ==
  /\ pc[t] = "signal"
  /\ Put(NextStage[Stage(t)], Sentinel)
  /\ loc' = [loc EXCEPT ![t].left = @ - 1]
  /\ Goto(t, IF loc[t].left = 1 THEN "done" ELSE "signal")
  /\ UNCHANGED <<content, finished, inFlight, dropped, written, files, main>>

Finish(t) == FetchAdd(t) \/ LoadFinished(t) \/ PushSentinel(t)

\* Pop an id, or stop at the sentinel.  to is a set: where the thread goes
\* with a buffer can depend on the buffer's header.
PopIn(t, to, end) ==
  /\ pc[t] = "pop"
  /\ Take(From(t))
  /\ IF Front(From(t)) = Sentinel
     THEN Goto(t, end) /\ UNCHANGED loc
     ELSE /\ \E s \in to : Goto(t, s)
          /\ loc' = [loc EXCEPT ![t].in = Front(From(t)), ![t].off = 0]
  /\ UNCHANGED <<content, finished, inFlight, dropped, written, files, main>>

\* Take a free buffer to write into.
PopFree(t, from, to) ==
  /\ pc[t] = from
  /\ Take("free")
  /\ loc' = [loc EXCEPT ![t].out = Front("free"), ![t].tgt = Front("free")]
  /\ Goto(t, to)
  /\ UNCHANGED <<content, finished, inFlight, dropped, written, files, main>>

\* Hand the buffer written to the next stage.
PushOut(t, from, to) ==
  /\ pc[t] = from
  /\ Put(NextStage[Stage(t)], loc[t].out)
  /\ loc' = [loc EXCEPT ![t].out = NoBuffer]
  /\ Goto(t, to)
  /\ UNCHANGED <<content, finished, inFlight, dropped, written, files, main>>

\* Pass the buffer on unchanged.
Forward(t) ==
  /\ pc[t] = "forward"
  /\ Put(NextStage[Stage(t)], loc[t].in)
  /\ loc' = [loc EXCEPT ![t].in = NoBuffer]
  /\ Goto(t, "pop")
  /\ UNCHANGED <<content, finished, inFlight, dropped, written, files, main>>

\* Mutant of ReleaseIn: the thread goes on without pushing the id.
ReleaseInLost(t, from, to) ==
  /\ pc[t] = from
  /\ loc' = [loc EXCEPT ![t].in = NoBuffer]
  /\ Goto(t, to)
  /\ UNCHANGED <<queue, content, finished, inFlight, dropped, written, files, main>>

\* Return the buffer read to the free queue.
ReleaseIn(t, from, to) ==
  /\ pc[t] = from
  /\ Put("free", loc[t].in)
  /\ loc' = [loc EXCEPT ![t].in = NoBuffer]
  /\ Goto(t, to)
  /\ UNCHANGED <<content, finished, inFlight, dropped, written, files, main>>

-----------------------------------------------------------------------------
(* XClient::receive. *)

Connect(r) ==
  /\ pc[r] = "connect"
  /\ Goto(r, "popFree")
  /\ UNCHANGED <<loc, queue, content, finished, inFlight, dropped, written, files, main>>

\* The thread ends without counting itself.
ConnectFails(r) ==
  /\ "connect" \in Faults
  /\ pc[r] = "connect"
  /\ Goto(r, "failed")
  /\ UNCHANGED <<loc, queue, content, finished, inFlight, dropped, written, files, main>>

NextMessage == Message(IncomingBuffers - inFlight + 1)

\* Header and body of a buffer the server has sent.
ReadBuffer(r) ==
  /\ pc[r] = "read"
  /\ inFlight > 0
  /\ inFlight' = inFlight - 1
  /\ content' = [content EXCEPT ![loc[r].out] = NextMessage]
  /\ Goto(r, "push")
  /\ UNCHANGED <<loc, queue, finished, dropped, written, files, main>>

Connected(r) == pc[r] \in {"popFree", "read", "push"}

\* The server closes a connection once every buffer has been sent, on this
\* connection or on one that is still being read.
EndOfFile(r) ==
  /\ pc[r] = "read"
  /\ inFlight = 0 \/ \E q \in Receivers \ {r} : Connected(q)
  /\ Goto(r, "fetchAdd")
  /\ UNCHANGED <<loc, queue, content, finished, inFlight, dropped, written, files, main>>

\* Mutant of ReadFails: the thread returns without counting itself.
ReadFailsUncounted(r) ==
  /\ "read" \in Faults
  /\ pc[r] = "read"
  /\ Goto(r, "failed")
  /\ UNCHANGED <<loc, queue, content, finished, inFlight, dropped, written, files, main>>

\* An error in the header or in the body ends the loop like the end of the
\* stream; a buffer of which a part has been read is lost.
ReadFails(r) ==
  /\ "read" \in Faults
  /\ pc[r] = "read"
  /\ \/ UNCHANGED <<inFlight, dropped>>
     \/ /\ inFlight > 0
        /\ inFlight' = inFlight - 1
        /\ dropped' = dropped \cup RowsOf(NextMessage)
  /\ Goto(r, "fetchAdd")
  /\ UNCHANGED <<loc, queue, content, finished, written, files, main>>

Receive(r) ==
  \/ Connect(r)
  \/ ConnectFails(r)
  \/ PopFree(r, "popFree", "read")
  \/ ReadBuffer(r)
  \/ EndOfFile(r)
  \/ ReadFails(r)
  \/ PushOut(r, "push", "popFree")
  \/ Finish(r)

-----------------------------------------------------------------------------
(* XClient::decompress. *)

Decode(d) ==
  /\ pc[d] = "decompress"
  /\ content' = [content EXCEPT ![loc[d].out] = content[loc[d].in]]
  /\ Goto(d, "push")
  /\ UNCHANGED <<loc, queue, finished, inFlight, dropped, written, files, main>>

\* The codec reports an error: both buffers go back, the rows are dropped.
DecodeFails(d) ==
  /\ "decompress" \in Faults
  /\ pc[d] = "decompress"
  /\ dropped' = dropped \cup RowsOf(content[loc[d].in])
  /\ Goto(d, "dropIn")
  /\ UNCHANGED <<loc, queue, content, finished, inFlight, written, files, main>>

\* Mutant of DropOut: the thread goes on using the buffer it has pushed.
DropOutTwice(d) ==
  /\ pc[d] = "dropOut"
  /\ Put("free", loc[d].out)
  /\ Goto(d, "pop")
  /\ UNCHANGED <<loc, content, finished, inFlight, dropped, written, files, main>>

DropOut(d) ==
  /\ pc[d] = "dropOut"
  /\ Put("free", loc[d].out)
  /\ loc' = [loc EXCEPT ![d].out = NoBuffer]
  /\ Goto(d, "pop")
  /\ UNCHANGED <<content, finished, inFlight, dropped, written, files, main>>

Decompress(d) ==
  \/ PopIn(d, IF Compression THEN {"forward", "popFree"} ELSE {"forward"}, "fetchAdd")
  \/ Forward(d)
  \/ PopFree(d, "popFree", "decompress")
  \/ Decode(d)
  \/ PushOut(d, "push", "release")
  \/ ReleaseIn(d, "release", "pop")
  \/ DecodeFails(d)
  \/ ReleaseIn(d, "dropIn", "dropOut")
  \/ DropOut(d)
  \/ Finish(d)

-----------------------------------------------------------------------------
(* CsvSink::serialize. *)

\* Another thread is using the buffer that outBuffer still refers to.
Racing(s) ==
  /\ loc[s].tgt # loc[s].out
  /\ \E t \in Threads \ {s} : loc[s].tgt \in {loc[t].in, loc[t].out}


\* Fill the target buffer with the next tuples as text.  The loop for tuples
\* asks whether the buffer is full before a row, the one for parquet after
\* it.  A buffer without text is not pushed, and not returned either.
Serialize(s) ==
  LET rows == content[loc[s].in]
      n == Least(Len(rows) - loc[s].off, TextRowsPerBuffer)
      full == IF IFormat = 4 THEN n = TextRowsPerBuffer
              ELSE loc[s].off + n < Len(rows)
  IN /\ pc[s] = "serialize"
     /\ IF Racing(s)
        THEN Goto(s, "undefined") /\ UNCHANGED <<loc, content>>
        ELSE /\ Goto(s, IF full THEN "pushFull" ELSE IF n > 0 THEN "pushLast"
                        ELSE "release")
             /\ loc' = [loc EXCEPT ![s].off = @ + n]
             /\ content' = [content EXCEPT ![loc[s].tgt] =
                              SubSeq(rows, loc[s].off + 1, loc[s].off + n)]
     /\ UNCHANGED <<queue, finished, inFlight, dropped, written, files, main>>

\* A new buffer after a full one.  For tuples, outBuffer is a reference and
\* the assignment to it copies the new buffer into the one just pushed.
Refill(s) ==
  LET new == Front("free")
      assigns == IFormat # 4
  IN /\ pc[s] = "refill"
     /\ Take("free")
     /\ loc' = [loc EXCEPT ![s].out = new, ![s].tgt = IF assigns THEN @ ELSE new]
     /\ IF assigns /\ Racing(s)
        THEN Goto(s, "undefined") /\ UNCHANGED content
        ELSE /\ Goto(s, "serialize")
             /\ content' = IF assigns
                           THEN [content EXCEPT ![loc[s].tgt] = content[new]]
                           ELSE content
     /\ UNCHANGED <<finished, inFlight, dropped, written, files, main>>

-----------------------------------------------------------------------------
(* PQSink::serialize. *)

Arrow == Sink = "parquet" /\ IFormat = 3 /\ ~SkipSerializer

\* For Arrow batches the sentinel is looked at only after a free buffer has been
\* popped as well; in stays empty for the sentinel.
PopBoth(s) ==
  /\ pc[s] = "pop"
  /\ Take("ser")
  /\ loc' = [loc EXCEPT ![s].in = IF Front("ser") = Sentinel THEN NoBuffer ELSE Front("ser")]
  /\ Goto(s, "popFree")
  /\ UNCHANGED <<content, finished, inFlight, dropped, written, files, main>>

\* A row of a parquet file made by PQSink.  For columns its values are constants
\* (1, 2.5, "test", 'a') and the header overwrites the start of the file.
Placeholder == 0

\* One parquet file with as many rows as the incoming buffer, from the first byte
\* of the buffer on.  For columns the code then puts a totalSize of a whole buffer
\* into it, which is right where tuple_size divides buffer_size * 1024; for Arrow
\* the file's own bytes stay where write() looks for a header.
Convert(s) ==
  /\ pc[s] = "convert"
  /\ content' = [content EXCEPT ![loc[s].out] =
                   [i \in 1..Len(content[loc[s].in]) |-> Placeholder]]
  /\ Goto(s, "pushLast")
  /\ UNCHANGED <<loc, queue, finished, inFlight, dropped, written, files, main>>

\* A batch that cannot be read: serialize returns with both buffers, uncounted.
ArrowFails(s) ==
  /\ "arrow" \in Faults /\ Arrow
  /\ pc[s] = "convert"
  /\ Goto(s, "failed")
  /\ UNCHANGED <<loc, queue, content, finished, inFlight, dropped, written, files, main>>

\* An exception of the Arrow or parquet library, or a failed check of it, ends the
\* process: CsvSink opens an Arrow batch before it pops a free buffer and a parquet
\* file after it, PQSink writes its file between the two pops and the push.
SerializerDies(s) ==
  /\ "arrow" \in Faults
  /\ <<Sink, IFormat, pc[s]>> \in {<<"csv", 3, "popFree">>, <<"csv", 4, "serialize">>,
                                  <<"parquet", 2, "convert">>, <<"parquet", 3, "convert">>}
  /\ main' = "aborted"
  /\ UNCHANGED <<pc, loc, queue, content, finished, inFlight, dropped, written, files>>

\* Where a serializer goes with its free buffer.
AfterPopFree(s) == CASE Sink = "csv" -> "serialize"
                     [] Sink = "parquet" /\ loc[s].in = NoBuffer -> "fetchAdd"
                     [] OTHER -> "convert"

SerializeStage(s) ==
  \/ ~Arrow /\ PopIn(s, {IF SkipSerializer THEN "forward" ELSE "popFree"}, "fetchAdd")
  \/ Arrow /\ PopBoth(s)
  \/ Forward(s)
  \/ PopFree(s, "popFree", AfterPopFree(s))
  \/ Convert(s)
  \/ ArrowFails(s)
  \/ SerializerDies(s)
  \/ Serialize(s)
  \/ PushOut(s, "pushFull", "refill")
  \/ Refill(s)
  \/ PushOut(s, "pushLast", "release")
  \/ ReleaseIn(s, "release", "pop")
  \/ Finish(s)

-----------------------------------------------------------------------------
(* CsvSink::write, PQSink::write, a program that pulls, and the main thread. *)

Open(w) ==
  /\ pc[w] = "open"
  /\ Goto(w, "pop")
  /\ UNCHANGED <<loc, queue, content, finished, inFlight, dropped, written, files, main>>

\* The exception leaves the thread's function, which ends the process.
OpenFails(w) ==
  /\ "openOut" \in Faults
  /\ pc[w] \in {"open", "openFile"}
  /\ main' = "aborted"
  /\ UNCHANGED <<pc, loc, queue, content, finished, inFlight, dropped, written, files>>

Occurrences(r, rows) == Cardinality({i \in 1..Len(rows) : rows[i] = r})

WriteBuffer(w) ==
  /\ pc[w] = "write"
  /\ written' = [r \in Rows |-> written[r] + Occurrences(r, content[loc[w].in])]
  /\ Goto(w, "release")
  /\ UNCHANGED <<loc, queue, content, finished, inFlight, dropped, files, main>>

\* PQSink::write gives every buffer a file of its own, numbered per thread.
\* Opening the file truncates it.
OpenFile(w) ==
  /\ pc[w] = "openFile"
  /\ files' = [files EXCEPT ![loc[w].suffix] = <<>>]
  /\ loc' = [loc EXCEPT ![w].suffix = @ + 1]
  /\ Goto(w, "writeFile")
  /\ UNCHANGED <<queue, content, finished, inFlight, dropped, written, main>>

\* The rows of a buffer that get into its file.  For Arrow the size is taken from
\* the file's bytes, so any part of it may be written.
Filed(rows) == IF Arrow THEN {SubSeq(rows, 1, n) : n \in 0..Len(rows)} ELSE {rows}

WriteFile(w) ==
  /\ pc[w] = "writeFile"
  /\ \E rows \in Filed(content[loc[w].in]) :
       files' = [files EXCEPT ![loc[w].suffix - 1] = rows]
  /\ Goto(w, "release")
  /\ UNCHANGED <<loc, queue, content, finished, inFlight, dropped, written, main>>

\* That size may also reach past the end of the buffer.
WriteFilePast(w) ==
  /\ Arrow
  /\ pc[w] = "writeFile"
  /\ Goto(w, "undefined")
  /\ UNCHANGED <<loc, queue, content, finished, inFlight, dropped, written, files, main>>

\* XClient::hasNext, before each buffer.
HasNext(w) ==
  /\ pc[w] = "hasNext"
  /\ Goto(w, IF finished.empty = WriteParallelism THEN "done" ELSE "pop")
  /\ UNCHANGED <<loc, queue, content, finished, inFlight, dropped, written, files, main>>

\* XClient::getBuffer got the sentinel: it counts it, and the caller stops.
CountEmpty(w) ==
  /\ pc[w] = "invalid"
  /\ finished' = [finished EXCEPT !.empty = @ + 1]
  /\ Goto(w, "done")
  /\ UNCHANGED <<loc, queue, content, inFlight, dropped, written, files, main>>

\* Where a writer goes with a buffer, at the sentinel, and after a release
\* (markBufferAsRead for a program that pulls).
Writing == [csv |-> "write", parquet |-> "openFile", pull |-> "write"][Sink]
WriteEnd == IF Sink = "pull" THEN "invalid" ELSE "done"
WriteAgain == IF Sink = "pull" THEN "hasNext" ELSE "pop"

Write(w) ==
  \/ Open(w)
  \/ OpenFails(w)
  \/ HasNext(w)
  \/ PopIn(w, {Writing}, WriteEnd)
  \/ CountEmpty(w)
  \/ WriteBuffer(w)
  \/ OpenFile(w)
  \/ WriteFile(w)
  \/ WriteFilePast(w)
  \/ ReleaseIn(w, "release", WriteAgain)

Ended(t) == pc[t] \in {"done", "failed"}

\* main() joins the sink's threads; finalize() joins the client's.  Then main()
\* logs through XDBC.CSVSINK, a null pointer unless a CsvSink was made.
Main ==
  /\ \/ /\ main = "joinSer" /\ \A s \in Serializers : Ended(s)
        /\ main' = "joinWrite"
     \/ /\ main = "joinWrite" /\ \A w \in Writers : Ended(w)
        /\ main' = "joinDecomp"
     \/ /\ main = "joinDecomp" /\ \A d \in Decomps : Ended(d)
        /\ main' = "joinRcv"
     \/ /\ main = "joinRcv" /\ \A r \in Receivers : Ended(r)
        /\ main' = "joined"
     \/ /\ main = "joined"
        /\ main' = IF Sink = "parquet" THEN "aborted" ELSE "done"
  /\ UNCHANGED <<pc, loc, queue, content, finished, inFlight, dropped, written, files>>

-----------------------------------------------------------------------------
Running == main # "aborted" /\ \A t \in DOMAIN pc : pc[t] # "undefined"

Terminated == main \in {"done", "aborted"} /\ UNCHANGED vars

Step(t) ==
  /\ Running
  /\ \/ Stage(t) = "rcv" /\ Receive(t)
     \/ Stage(t) = "decomp" /\ Decompress(t)
     \/ Stage(t) = "ser" /\ SerializeStage(t)
     \/ Stage(t) = "write" /\ Write(t)

Next == (\E t \in Threads : Step(t)) \/ (Running /\ Main) \/ Terminated

Spec == Init /\ [][Next]_vars

\* Every thread that can run is scheduled; the server sends what it has and
\* closes its connections.
Fairness == (\A t \in Threads : WF_vars(Step(t))) /\ WF_vars(Running /\ Main)

FairSpec == Spec /\ Fairness

-----------------------------------------------------------------------------
PCs == {"connect", "popFree", "read", "push", "pop", "forward", "decompress",
        "release", "dropIn", "dropOut", "serialize", "pushFull", "refill",
        "pushLast", "convert", "open", "write", "openFile", "writeFile", "hasNext",
        "invalid", "fetchAdd", "load", "signal", "done", "failed", "undefined"}

\* Type invariant.
TypeOK ==
  /\ pc \in [Threads -> PCs]
  /\ loc \in [Threads -> [in : Buffers \cup {NoBuffer}, out : Buffers \cup {NoBuffer},
                          tgt : Buffers \cup {NoBuffer}, off : Nat, left : Nat, suffix : Nat]]
  /\ DOMAIN queue = {"free", "decomp", "ser", "write"}
  /\ queue.free \in Seq(Buffers)
  /\ \A name \in {"decomp", "ser", "write"} : queue[name] \in Seq(Buffers \cup {Sentinel})
  /\ content \in [Buffers -> Seq(Rows \cup {Placeholder})]
  /\ finished \in [{"rcv", "decomp", "ser", "empty"} -> Nat]
  /\ inFlight \in 0..IncomingBuffers
  /\ dropped \subseteq Rows
  /\ written \in [Rows -> Nat]
  /\ files \in [0..(IncomingBuffers - 1) -> Seq(Rows \cup {Placeholder})]

QueueSlots == UNION {{name} \X (1..Len(queue[name])) : name \in DOMAIN queue}
ThreadSlots == (DOMAIN loc) \X {"in", "out"}

\* Every buffer of the pool is always in exactly one place: one queue, or one
\* thread.  In particular the error path of decompress returns each of its
\* two buffers once, and a receiver that stops keeps the one it holds: as many
\* places hold an id as there are buffers, and no buffer is missing.
BufferConservation ==
  LET queued == {s \in QueueSlots : queue[s[1]][s[2]] # Sentinel}
      held == {s \in ThreadSlots : loc[s[1]][s[2]] # NoBuffer}
  IN /\ Cardinality(queued) + Cardinality(held) = Cardinality(DOMAIN content)
     /\ {queue[s[1]][s[2]] : s \in queued} \cup {loc[s[1]][s[2]] : s \in held} = DOMAIN content

\* The producer and the consumer side of a thread, as StageQueue names them.
ProducerState(t) == IF pc[t] \in {"load", "signal", "done"} THEN pc[t] ELSE "produce"

ConsumerState(t) ==
  IF pc[t] \in {"fetchAdd", "load", "signal", "done"} THEN "stopped" ELSE "running"

DecompQueue == INSTANCE StageQueue WITH
  Producers <- Receivers, Consumers <- Decomps, Capacity <- Capacity.decomp,
  queue <- queue.decomp, finished <- finished.rcv,
  ppc <- [p \in Receivers |-> ProducerState(p)],
  left <- [p \in Receivers |-> loc[p].left],
  cpc <- [c \in Decomps |-> ConsumerState(c)]

SerQueue == INSTANCE StageQueue WITH
  Producers <- Decomps, Consumers <- Serializers, Capacity <- Capacity.ser,
  queue <- queue.ser, finished <- finished.decomp,
  ppc <- [p \in Decomps |-> ProducerState(p)],
  left <- [p \in Decomps |-> loc[p].left],
  cpc <- [c \in Serializers |-> ConsumerState(c)]

WriteQueue == INSTANCE StageQueue WITH
  Producers <- Serializers, Consumers <- Writers, Capacity <- Capacity.write,
  queue <- queue.write, finished <- finished.ser,
  ppc <- [p \in Serializers |-> ProducerState(p)],
  left <- [p \in Serializers |-> loc[p].left],
  cpc <- [c \in Writers |-> ConsumerState(c)]

\* The three hand-offs of the client implement StageQueue: receivers,
\* decompressors and serializers push sentinels only after their stage's last
\* buffer, also when connections, reads or codecs fail, and each thread of
\* the next stage stops at its first sentinel and not before.
DecompHandOff == DecompQueue!Spec
SerHandOff == SerQueue!Spec
WriteHandOff == WriteQueue!Spec

\* No row is written twice or written after its buffer was given up, and when
\* main() returns every row that was read completely and decoded is in an
\* output file.  Rows not read at all are those of the buffers still in flight.
RowsWrittenOnce ==
  /\ \A r \in Rows : written[r] <= IF r \in dropped THEN 0 ELSE 1
  /\ main = "done" =>
       \A r \in 1..((IncomingBuffers - inFlight) * RowsPerBuffer) \ dropped : written[r] = 1

\* "For now each buffer is a pq file" (PQSink::write): once the threads are
\* joined there are as many files as buffers have been read, and with
\* skip_serializer each buffer read is the content of one of them.  It holds for
\* files of the server and for columns, with one writer.
FilePerBuffer ==
  main = "joined" =>
    /\ Cardinality({k \in DOMAIN files : files[k] # <<>>}) = IncomingBuffers - inFlight
    /\ SkipSerializer =>
         \A m \in 1..(IncomingBuffers - inFlight) : \E k \in DOMAIN files : files[k] = Message(m)

\* When everything is joined, the only buffers missing from the free queue are
\* the one each receiver stopped with and, for Arrow batches, the one each
\* serializer of PQSink popped along with its sentinel.
OnlyKnownLeaks ==
  main = "joined" =>
    /\ \A r \in Receivers : loc[r].out # NoBuffer
    /\ \A s \in Serializers : loc[s].out # NoBuffer <=> Arrow
    /\ Len(queue.free) = BuffersInBufferpool - RcvParallelism - (IF Arrow THEN SerParallelism ELSE 0)

\* main() returns: all threads end and are joined.
MainReturns == <>(main = "done")

\* Several writers of PQSink number their files alike, so a buffer's file is lost
\* only to another writer's file of the same number: once the threads are joined
\* there is a file for every number one of them has reached, and each is a buffer
\* that was read, unmixed (PQSink::write with skip_serializer).
FilesByNumber ==
  main = "joined" =>
    \A k \in DOMAIN files :
      /\ files[k] # <<>> <=> \E w \in Writers : k < loc[w].suffix
      /\ files[k] # <<>> => \E m \in 1..(IncomingBuffers - inFlight) : files[k] = Message(m)

\* hasNext() waits for as many sentinels as there are writers, decompress() pushes
\* one per serializer.  When a program pulls with more threads than these, it gets
\* every row, one thread ends for each sentinel, and the others wait in getBuffer().
SomePullersWait ==
  /\ \A r \in Rows : written[r] = 1
  /\ Cardinality({w \in Writers : pc[w] = "done"}) = SerParallelism
  /\ \A w \in Writers : pc[w] \in {"done", "pop"}
=============================================================================
