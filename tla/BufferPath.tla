----------------------------- MODULE BufferPath ------------------------------
(***************************************************************************)
(* One buffer of tuples on its way from a deserializer of the server to    *)
(* the sink of the client: filled tuple by tuple, given its header,        *)
(* compressed (Compressor::compress, compress_buffer and the codecs), sent *)
(* and received, decompressed (XClient::decompress, Decompressor) and      *)
(* turned into text (CsvSink::serialize).  ServerPipeline and              *)
(* ClientPipeline say which thread holds the buffer meanwhile; here its    *)
(* bytes and its header matter.                                            *)
(*                                                                         *)
(* A codec is external: to n bytes it needs some number c of bytes, and    *)
(* decoding gives the n bytes back if all c bytes are there.  Writing past *)
(* the end of a buffer, or reading past it, is undefined behaviour; the    *)
(* buffer's way ends there.                                                *)
(***************************************************************************)
EXTENDS TupleLayout, FiniteSets

CONSTANTS Schemas,          \* schemas to transfer
          Methods,          \* values of --compression-type
          Sources,          \* deserializers: "csv", "postgres", "parquet"
          BufferBytes,      \* buffer_size * 1024 of the server
          ClientBytes,      \* values of buffer_size * 1024 of the client
          HeaderSize,       \* sizeof(Header)
          ArrowMargin,      \* tuples an Arrow batch stays below tuples_per_buffer
          ArrowOverhead,    \* what an Arrow file adds to the data of a batch
          Excess            \* by how much a string may exceed its field

ASSUME BufferPathAssumption ==
  /\ BufferBytes \in Nat /\ ClientBytes \subseteq Nat
  /\ HeaderSize \in Nat /\ ArrowMargin \in Nat /\ ArrowOverhead \in Nat
  /\ Excess \subseteq Nat
  /\ \A s \in Schemas : TupleSize(s) \in 1..BufferBytes /\ TotalRowSize(s) \in Nat
  /\ \A s \in Schemas, b \in ClientBytes : TupleSize(s) <= b

VARIABLES env,      \* the options of both sides
          phase,    \* where the buffer is
          mem,      \* the bytes of the server's buffer
          lens,     \* the lengths of the fields of the tuples written
          head,     \* the Header of the server's buffer
          codec,    \* what the codec made of it: its size and if it is complete
          cmem,     \* the bytes of the client's buffer
          out       \* the fields the sink wrote

vars == <<env, phase, mem, lens, head, codec, cmem, out>>

-----------------------------------------------------------------------------
Tpb == TuplesPerBuffer(BufferBytes, env.schema)
Capacity == Tpb * TupleSize(env.schema)

\* The client computes the same from its own options.
ClientTpb == TuplesPerBuffer(env.clientBytes, env.schema)
ClientCapacity == ClientTpb * TupleSize(env.schema)

\* Compressor::getCompId; a name it does not know means no compression.
CompId(name) ==
  CASE name = "zstd" -> 1 [] name = "snappy" -> 2 [] name = "lzo" -> 3
    [] name = "lz4" -> 4 [] name = "zlib" -> 5 [] name = "cols" -> 6 [] OTHER -> 0

\* A string has the length it has in the input, be it more than its field has.
FieldLens(a) == IF a.tpe = "S" THEN {0, a.size} \cup {a.size + k : k \in Excess} ELSE {TypeSize(a)}

TupleLens(schema) == {l \in [DOMAIN schema -> UNION {FieldLens(schema[j]) : j \in DOMAIN schema}] :
                        \A j \in DOMAIN schema : l[j] \in FieldLens(schema[j])}

NoCodec == [id |-> 0, complete |-> TRUE]

Init ==
  /\ env \in [source : Sources, iformat : {1, 2, 3}, clientFormat : {1, 2, 3}, schema : Schemas,
              method : Methods, clientBytes : ClientBytes]
  /\ env.iformat = 3 => env.source = "csv"
  /\ phase = "fill"
  /\ mem = <<>> /\ lens = <<>> /\ cmem = <<>> /\ out = <<>>
  /\ head = [type |-> 0, totalSize |-> 0, totalTuples |-> 0, format |-> 0, uncompressed |-> 0]
  /\ codec = NoCodec

-----------------------------------------------------------------------------
(* The deserializers. *)

\* Mutant of Full: the margin is forgotten.
FullWithoutMargin == Len(lens) = Tpb

\* A batch of tuples_per_buffer - 1000 tuples is full; with 1000 tuples or
\* fewer per buffer the comparison never holds.
Full == lens # <<>> /\ Len(lens) = IF env.iformat = 3 THEN Tpb - ArrowMargin ELSE Tpb

\* Bound on the tuples of a batch that is never full.
MaxTuples == Tpb + 1

AddTuple ==
  /\ phase = "fill"
  /\ ~Full /\ Len(lens) < MaxTuples
  /\ \E l \in TupleLens(env.schema) :
       /\ mem' = WriteTuple(env.source, env.iformat, env.schema, Tpb, mem, Len(lens), l)
       /\ lens' = Append(lens, l)
  /\ UNCHANGED <<env, phase, head, codec, cmem, out>>

ArrowSize == ArrowOverhead + Len(lens) * TotalRowSize(env.schema)

\* totalSize: the tuples of a buffer of rows, all of a buffer of columns.
PayloadSize == CASE env.iformat = 1 -> Len(lens) * TupleSize(env.schema)
                 [] env.iformat = 2 -> Capacity
                 [] OTHER -> ArrowSize

\* A full buffer, or at the end of the input what remains, unless these are
\* tuples_per_buffer tuples.  finalizeAndWriteRecordBatchToMemory throws if the
\* batch does not fit into what it takes for the room after the Header.
PushBuffer ==
  /\ phase = "fill"
  /\ Full \/ (lens # <<>> /\ Len(lens) # Tpb)
  /\ phase' = CASE env.iformat = 3 /\ ArrowSize > BufferBytes - HeaderSize -> "thrown"
                [] env.iformat = 3 /\ ArrowSize \in (Capacity + 1)..(BufferBytes - HeaderSize) -> "undefined"
                [] env.iformat # 3 /\ ~(DOMAIN mem \subseteq 0..(Capacity - 1)) -> "undefined"
                [] OTHER -> "compress"
  /\ head' = [type |-> 0, totalSize |-> PayloadSize, totalTuples |-> Len(lens),
              format |-> env.iformat, uncompressed |-> 0]
  /\ UNCHANGED <<env, mem, lens, codec, cmem, out>>

\* The input ends with tuples_per_buffer tuples in a batch that is not full: the
\* thread takes them for a buffer it has pushed already.
LeaveBatch ==
  /\ phase = "fill"
  /\ ~Full /\ lens # <<>> /\ Len(lens) = Tpb
  /\ phase' = "unsent"
  /\ UNCHANGED <<env, mem, lens, head, codec, cmem, out>>

-----------------------------------------------------------------------------
(* Compressor::compress. *)

\* Mutant of CodecReturns: an error is answered with -1.
CodecReturnsError(c, n) == IF c <= n THEN c ELSE -1

\* What compress_zstd, _snappy, _lzo, _lz4 and _zlib return when the codec needs c
\* bytes for n: never more than n, which is also the answer to an error.
CodecReturns(c, n) == IF c < n THEN c ELSE n

\* zstd and lz4 are told the room they have; the others are not.
Overruns(id, c) == id \in {2, 3, 5} /\ c > Capacity

CodecSizes(n) == {c \in {1, n - 1, n, n + 1} : c > 0}

\* The columns compress_cols compresses.
Compressible == {j \in DOMAIN env.schema : env.schema[j].tpe \in {"I", "D"}}

\* Mutant of ColumnSizes: the last size is set.
ColumnSizesLast(n) ==
  LET sizes == {s \in [DOMAIN env.schema -> {0, 1, n}] :
                  \A j \in DOMAIN env.schema : (s[j] = 0) = (j \notin Compressible)}
      Total(s) == FoldLeft(+, 0, s)
  IN {IF Total(s) >= n THEN [s EXCEPT ![Len(s)] = n] ELSE s : s \in sizes}

\* compress_cols: the size of each INT or DOUBLE column, 0 for the others.  If
\* together they are not smaller than the buffer the first is set to its size.
ColumnSizes(n) ==
  LET sizes == {s \in [DOMAIN env.schema -> {0, 1, n}] :
                  \A j \in DOMAIN env.schema : (s[j] = 0) = (j \notin Compressible)}
      Total(s) == FoldLeft(+, 0, s)
  IN {IF Total(s) >= n THEN [s EXCEPT ![1] = n] ELSE s : s \in sizes}

\* Mutant of Recognised: a codec that returns n is not an error.
RecognisedNever(size) == size <= 0

\* "comp unsuccessful".
Recognised(size) == size >= BufferBytes \/ size <= 0

\* A size the codec's answer gives the header, and whether the out buffer holds
\* the complete encoding.
Compress(id, size, complete) ==
  /\ codec' = IF Recognised(size) THEN NoCodec ELSE [id |-> id, complete |-> complete]
  /\ head' = [head EXCEPT !.type = IF Recognised(size) THEN 0 ELSE id,
                          !.totalSize = size,
                          !.uncompressed = head.totalSize]
  /\ phase' = "send"
  /\ UNCHANGED <<env, mem, lens, cmem, out>>

CompressBuffer ==
  LET n == head.totalSize
      id == CompId(env.method)
  IN /\ phase = "compress"
     /\ \/ /\ id = 0
           /\ phase' = "send"
           /\ UNCHANGED <<env, mem, lens, head, codec, cmem, out>>
        \/ /\ id \in 1..5
           /\ \E c \in CodecSizes(n) :
                IF Overruns(id, c)
                THEN phase' = "undefined" /\ UNCHANGED <<env, mem, lens, head, codec, cmem, out>>
                ELSE Compress(id, CodecReturns(c, n), c <= n)
        \/ /\ id = 6
           /\ \E s \in ColumnSizes(n) : Compress(6, FoldLeft(+, 0, s), FoldLeft(+, 0, s) < n)

-----------------------------------------------------------------------------
(* XDBCServer::send and XClient::receive. *)

\* The bytes sent; what an uncompressed body does not cover keeps its old content.
Receive ==
  /\ phase = "send"
  /\ IF head.totalSize > ClientCapacity
     THEN phase' = "undefined" /\ UNCHANGED cmem
     ELSE /\ phase' = "decompress"
          /\ cmem' = IF head.type # 0 \/ env.iformat = 3 THEN mem
                     ELSE [x \in DOMAIN mem \cap 0..(head.totalSize - 1) |-> mem[x]]
  /\ UNCHANGED <<env, mem, lens, head, codec, out>>

-----------------------------------------------------------------------------
(* XClient::decompress and Decompressor. *)

\* Mutant of DecodeFits: every codec asks for a full buffer.
DecodeFitsFull(id, n) == n = ClientCapacity

\* decompress_lzo asks for a full buffer.
DecodeFits(id, n) == IF id = 3 THEN n = ClientCapacity ELSE n <= ClientCapacity

\* snappy and lzo are not told the room they have.
DecodeOverruns(id, n) == id \in {2, 3} /\ n > ClientCapacity

\* An incomplete encoding is an error.  lz4 and lzo have no checksum and may decode
\* something else, and lzo1x_decompress does not look where it writes.  For cols
\* decompError keeps whatever value it has.
DecodeResults ==
  LET id == codec.id
      n == head.uncompressed
  IN CASE id = 6 -> {"error", "garbage"}
       [] id # 6 /\ codec.complete ->
            {IF DecodeOverruns(id, n) THEN "overrun" ELSE IF DecodeFits(id, n) THEN "intact" ELSE "error"}
       [] OTHER -> {"error"} \cup (IF id \in {3, 4} THEN {"garbage"} ELSE {})
                             \cup (IF id = 3 \/ DecodeOverruns(id, n) THEN {"overrun"} ELSE {})

\* Buffers with an error are returned to the pool without a word to the sink.
Decompress ==
  /\ phase = "decompress"
  /\ \/ /\ head.type = 0
        /\ phase' = "serialize"
        /\ UNCHANGED <<head, cmem>>
     \/ /\ head.type # 0
        /\ \E result \in DecodeResults :
             /\ phase' = CASE result = "error" -> "dropped" [] result = "intact" -> "serialize"
                           [] result = "overrun" -> "undefined" [] OTHER -> "garbage"
             /\ head' = [head EXCEPT !.type = 0, !.totalSize = head.uncompressed, !.uncompressed = 0]
             /\ UNCHANGED cmem
  /\ UNCHANGED <<env, mem, lens, codec, out>>

-----------------------------------------------------------------------------
(* CsvSink::serialize. *)

\* The fields of every tuple, at the addresses of the client's own format; the
\* format in the header is not compared with it.  What is not an Arrow file
\* cannot be opened as one.
Serialize ==
  /\ phase = "serialize"
  /\ IF env.clientFormat = 3 /\ head.format # 3
     THEN phase' = "aborted" /\ UNCHANGED out
     ELSE /\ phase' = "written"
          /\ out' = [i \in 1..head.totalTuples |->
                       [j \in DOMAIN env.schema |->
                          FieldText(env.schema[j], cmem,
                                    ReadAddress(env.clientFormat, env.schema, ClientTpb, i - 1, j))]]
  /\ UNCHANGED <<env, mem, lens, head, codec, cmem>>

Ended == /\ phase \in {"written", "unsent", "dropped", "garbage", "thrown", "aborted", "undefined"}
         /\ UNCHANGED vars

Next == AddTuple \/ PushBuffer \/ LeaveBatch \/ CompressBuffer \/ Receive \/ Decompress \/ Serialize \/ Ended

Spec == Init /\ [][Next]_vars

-----------------------------------------------------------------------------
\* The two sides have been given options that fit each other.
Agreed == /\ Consistent(env.schema)
          /\ env.clientFormat = env.iformat
          /\ env.clientBytes = BufferBytes

TooLong(i, j) == env.schema[j].tpe = "S" /\ lens[i][j] > env.schema[j].size

\* In a buffer of columns, a string that runs past the end of its column, from a
\* tuple behind the first.
RunsIntoColumn ==
  env.iformat = 2 /\ \E i \in 2..Len(lens), j \in DOMAIN env.schema :
    TooLong(i, j) /\ lens[i][j] > (Tpb - i + 1) * env.schema[j].size

\* A string that is too long and ends behind the buffer.
RunsOut ==
  env.iformat # 3 /\ \E i \in 1..Len(lens), j \in DOMAIN env.schema :
    /\ TooLong(i, j)
    /\ WriteAddress(env.source, env.iformat, env.schema, Tpb, i - 1, j) + lens[i][j] > Capacity

\* Type invariant.
TypeOK ==
  /\ phase \in {"fill", "compress", "send", "decompress", "serialize", "written",
                "unsent", "dropped", "garbage", "thrown", "aborted", "undefined"}
  /\ head.type \in 0..6 /\ head.totalTuples \in 0..MaxTuples /\ head.totalSize \in Nat
  /\ DOMAIN mem \subseteq Nat /\ DOMAIN cmem \subseteq DOMAIN mem
  /\ Len(out) \in {0, Len(lens)}

\* Between sides that agree, every field of every tuple of a buffer that reaches
\* the sink is the one the deserializer wrote, a string cut to the size of its
\* field.  A string of any length may precede it: it spills only into fields that
\* are written later, unless it runs past its column of a buffer of columns.
\* (cols, whose columns nobody decodes, is left out.)
DeliveredIntact ==
  phase = "written" /\ Agreed /\ env.method # "cols" /\ ~RunsIntoColumn =>
    \A i \in 1..Len(lens), j \in DOMAIN env.schema :
      out[i][j] = ExpectedText(env.schema[j], lens[i][j], i - 1, j)

\* Rows are lost on the way without a word only in a batch of Arrow that the
\* deserializer does not send, when a buffer has no more than ArrowMargin tuples,
\* and in a buffer that the client drops, if the codec could not make it smaller
\* and the server did not notice (the size is below buffer_size), if lzo meets a
\* buffer that is not full, if the client's buffers are of another size, or if
\* the columns codec was chosen.
DropsKnown ==
  /\ phase = "unsent" => env.iformat = 3 /\ Tpb <= ArrowMargin
  /\ phase = "dropped" =>
       \/ ~codec.complete /\ PayloadSize < BufferBytes
       \/ codec.id = 3 /\ PayloadSize < Capacity
       \/ env.clientBytes # BufferBytes
       \/ codec.id = 6

\* The announced size is honest: an uncompressed buffer is announced with the size
\* of its tuples, unless cols has rejected it, and a compressed one with less
\* than a buffer.
HonestHeader ==
  phase = "decompress" /\ env.method # "cols" =>
    /\ head.type = 0 => head.totalSize = PayloadSize
    /\ head.type # 0 => head.totalSize < BufferBytes /\ head.uncompressed = PayloadSize

\* Memory is overrun only by a string that is too long and ends behind the buffer,
\* by sizes the schema declares wrongly, by snappy, lzo or zlib on data they
\* enlarge, by lzo when it decodes such data cut off, by a client with smaller
\* buffers, by the sizes cols adds up, or by an Arrow batch when tuple_size leaves
\* more than a Header of the buffer unused.
OverrunsKnown ==
  phase = "undefined" =>
    \/ RunsOut \/ ~Consistent(env.schema)
    \/ CompId(env.method) \in {2, 3, 5} /\ PayloadSize >= Capacity
    \/ codec.id = 3 /\ ~codec.complete
    \/ env.clientBytes < BufferBytes
    \/ env.method = "cols"
    \/ env.iformat = 3 /\ Capacity < BufferBytes - HeaderSize

\* A deserializer throws only at an Arrow batch that is never full because a buffer
\* has no more than ArrowMargin tuples, if the schema declares less than the types
\* take, or if the margin is too small for Arrow's own data
\* (finalizeAndWriteRecordBatchToMemory).
ArrowFailsUnbatched ==
  phase = "thrown" =>
    \/ Tpb <= ArrowMargin
    \/ TotalRowSize(env.schema) > TupleSize(env.schema)
    \/ ArrowOverhead + HeaderSize > ArrowMargin * TupleSize(env.schema)

\* The way of a buffer ends in the middle only for the reasons named.
FailuresKnown == OverrunsKnown /\ ArrowFailsUnbatched

\* A buffer leaves cols compressed, or uncompressed with the size of its tuples as
\* compress_cols means it ("handle to send uncompressed"), unless the schema has no
\* column it compresses (the size is 0 then), the tuples take less than buffer_size
\* (what did not shrink goes unnoticed), or a column behind the first is compressed
\* (its size is added to that of the buffer).
ColsKnown ==
  phase = "send" /\ env.method = "cols" =>
    \/ head.type = 6 /\ codec.complete
    \/ head.type = 0 /\ head.totalSize = PayloadSize
    \/ Compressible = {}
    \/ PayloadSize < BufferBytes
    \/ Compressible \ {1} # {}
=============================================================================
