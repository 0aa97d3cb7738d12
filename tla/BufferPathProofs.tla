-------------------------- MODULE BufferPathProofs ---------------------------
(***************************************************************************)
(* What holds of every buffer on its way, whatever the schemas, the sizes  *)
(* of the buffers and the margins are: the header is honest, a buffer is   *)
(* lost only for the reasons DropsKnown names, a deserializer throws       *)
(* only where ArrowFailsUnbatched says, and after the tuples have been     *)
(* written inside the buffer memory is overrun only where OverrunsKnown    *)
(* says.                                                                   *)
(*                                                                         *)
(* Of a schema the proofs use only that TupleSize and TotalRowSize are     *)
(* numbers: what these folds add up to for every schema, and so where each *)
(* field lies, is left to TLC (DeliveredIntact, and the tuples that        *)
(* overrun a buffer while it is filled).                                   *)
(***************************************************************************)
EXTENDS BufferPath, TLAPS

-----------------------------------------------------------------------------
(* The inductive invariant. *)

Phases == {"fill", "compress", "send", "decompress", "serialize", "written",
           "unsent", "dropped", "garbage", "thrown", "aborted", "undefined"}

EnvType == [source : Sources, iformat : {1, 2, 3}, clientFormat : {1, 2, 3}, schema : Schemas,
            method : Methods, clientBytes : ClientBytes]

Lengths == UNION {TupleLens(s) : s \in Schemas}

\* The header is a Header; what cols writes into it is a sum nothing is known of.
IsHeader(h) == h = [type |-> h.type, totalSize |-> h.totalSize, totalTuples |-> h.totalTuples,
                    format |-> h.format, uncompressed |-> h.uncompressed]

\* How many tuples have been written: a buffer of rows or columns is pushed when it
\* is full, an Arrow batch when it has reached the margin, if it has one.
FillInv == /\ env.iformat # 3 => Len(lens) <= Tpb
           /\ env.iformat = 3 /\ Tpb > ArrowMargin => Len(lens) <= Tpb - ArrowMargin

\* The payload fits a buffer once the tuples have been pushed.
FitInv == phase \in {"compress", "send", "decompress", "dropped"} => PayloadSize <= Capacity

\* The header before the compressor has seen it.
PlainInv == /\ phase \in {"fill", "compress"} => codec = NoCodec
            /\ phase = "compress" => head.type = 0 /\ head.totalSize = PayloadSize

\* The header that is sent, and the encoding it describes; the sizes the column
\* codec announces are sums over the columns.
SentInv == phase \in {"send", "decompress"} =>
  /\ head.type = codec.id
  /\ env.method # "cols" =>
       /\ head.totalSize \in Nat
       /\ codec.id = 0 => head.totalSize = PayloadSize
       /\ codec.id # 0 => /\ head.totalSize < BufferBytes /\ head.totalSize <= PayloadSize
                          /\ head.uncompressed = PayloadSize
       /\ ~codec.complete => PayloadSize < BufferBytes
  /\ env.method = "cols" => codec.id \in {0, 6}

PathTypes == /\ env \in EnvType /\ phase \in Phases /\ lens \in Seq(Lengths)
             /\ codec \in [id : 0..6, complete : BOOLEAN] /\ IsHeader(head)

\* An overrun after the buffer has been filled.
LaterOverrunsKnown ==
  env.iformat = 3 \/ DOMAIN mem \subseteq 0..(Capacity - 1) => OverrunsKnown

PathInv == /\ PathTypes /\ FillInv /\ FitInv /\ PlainInv /\ SentInv
           /\ DropsKnown /\ ArrowFailsUnbatched /\ LaterOverrunsKnown

-----------------------------------------------------------------------------
(* Sizes. *)

\* A buffer holds at least one tuple, its tuples do not exceed it, and a larger
\* buffer has room for as many.
LEMMA RoomForTuples ==
  ASSUME NEW b \in Nat, NEW t \in Nat, t > 0, t <= b, NEW c \in Nat, b <= c
  PROVE  /\ b \div t \in Nat /\ b \div t >= 1 /\ (b \div t) * t <= b
         /\ (b \div t) * t <= (c \div t) * t
<1>1. b \div t \in Nat /\ (b \div t) * t <= b /\ b < (b \div t) * t + t
  BY Z3
<1>2. c \div t \in Nat /\ (c \div t) * t <= c /\ c < (c \div t) * t + t
  BY Z3
<1>3. b \div t <= c \div t
  BY <1>1, <1>2, Z3
<1>4. b \div t >= 1
  BY <1>1, Z3
<1>5. (b \div t) * t <= (c \div t) * t
  BY <1>1, <1>2, <1>3, Z3
<1> QED
  BY <1>1, <1>4, <1>5

\* The sizes of a transfer are numbers, with room for a tuple.
LEMMA Sizes ==
  ASSUME env \in EnvType
  PROVE  /\ TupleSize(env.schema) \in Nat /\ TupleSize(env.schema) > 0
         /\ TotalRowSize(env.schema) \in Nat
         /\ BufferBytes \in Nat /\ HeaderSize \in Nat /\ ArrowMargin \in Nat /\ ArrowOverhead \in Nat
         /\ Tpb \in Nat /\ Tpb >= 1 /\ Capacity \in Nat /\ Capacity >= 1 /\ Capacity <= BufferBytes
         /\ ClientCapacity \in Nat
         /\ env.clientBytes \in Nat
         /\ env.clientBytes = BufferBytes => ClientCapacity = Capacity
         /\ env.clientBytes >= BufferBytes => Capacity <= ClientCapacity
<1>1. env.schema \in Schemas /\ env.clientBytes \in ClientBytes
  BY DEF EnvType
<1> DEFINE t == TupleSize(env.schema)  c == env.clientBytes
<1>a. BufferBytes \in Nat /\ HeaderSize \in Nat /\ ArrowMargin \in Nat /\ ArrowOverhead \in Nat
  BY BufferPathAssumption
<1>b. t \in 1..BufferBytes /\ TotalRowSize(env.schema) \in Nat
  BY <1>1, BufferPathAssumption, Zenon
<1>c. t <= c
  BY <1>1, BufferPathAssumption, Zenon
<1>d. c \in Nat
  BY <1>1, BufferPathAssumption, Zenon
<1> HIDE DEF t, c
<1>2. /\ t \in Nat /\ t > 0 /\ t <= BufferBytes /\ TotalRowSize(env.schema) \in Nat
      /\ BufferBytes \in Nat /\ HeaderSize \in Nat /\ ArrowMargin \in Nat /\ ArrowOverhead \in Nat
      /\ c \in Nat /\ t <= c
  BY <1>a, <1>b, <1>c, <1>d
<1>3. /\ Tpb = BufferBytes \div t /\ Capacity = (BufferBytes \div t) * t
      /\ ClientCapacity = (c \div t) * t
  BY DEF Tpb, Capacity, ClientTpb, ClientCapacity, TuplesPerBuffer, t, c
<1>4. BufferBytes <= BufferBytes /\ c <= c
  BY <1>2
<1>5. /\ BufferBytes \div t \in Nat /\ BufferBytes \div t >= 1 /\ (BufferBytes \div t) * t <= BufferBytes
  BY <1>2, <1>4, RoomForTuples
<1>6. c \div t \in Nat
  BY <1>2, <1>4, RoomForTuples
<1>7. c >= BufferBytes => (BufferBytes \div t) * t <= (c \div t) * t
  BY <1>2, RoomForTuples
<1>8. (BufferBytes \div t) * t \in Nat /\ (BufferBytes \div t) * t >= 1 /\ (c \div t) * t \in Nat
  BY <1>2, <1>5, <1>6, Z3
<1> QED
  BY <1>2, <1>3, <1>5, <1>7, <1>8 DEF t, c

\* The payload is a number; n tuples of rows or columns do not exceed the buffer.
LEMMA PayloadNat ==
  ASSUME env \in EnvType, lens \in Seq(Lengths)
  PROVE  /\ PayloadSize \in Nat /\ ArrowSize \in Nat /\ Len(lens) \in Nat
         /\ env.iformat = 3 => PayloadSize = ArrowSize
         /\ env.iformat # 3 /\ Len(lens) <= Tpb => PayloadSize <= Capacity
<1> DEFINE n == Len(lens)  t == TupleSize(env.schema)  k == Tpb  r == TotalRowSize(env.schema)
<1>1. n \in Nat /\ t \in Nat /\ k \in Nat /\ r \in Nat /\ ArrowOverhead \in Nat /\ Capacity = k * t
  BY Sizes DEF Capacity
<1>2. env.iformat \in {1, 2, 3}
  BY DEF EnvType
<1>3. PayloadSize = (IF env.iformat = 1 THEN n * t ELSE IF env.iformat = 2 THEN k * t
                     ELSE ArrowOverhead + n * r) /\ ArrowSize = ArrowOverhead + n * r
  BY <1>1, <1>2 DEF PayloadSize, ArrowSize
<1> HIDE DEF n, t, k, r
<1>4. n * t \in Nat /\ k * t \in Nat /\ ArrowOverhead + n * r \in Nat
  BY <1>1, Z3
<1>5. n <= k => n * t <= k * t
  BY <1>1, Z3
<1>6. n <= k /\ env.iformat # 3 => PayloadSize <= Capacity
  BY <1>1, <1>2, <1>3, <1>4, <1>5
<1>7. PayloadSize \in Nat /\ ArrowSize \in Nat /\ (env.iformat = 3 => PayloadSize = ArrowSize)
  BY <1>2, <1>3, <1>4
<1> QED
  BY <1>1, <1>6, <1>7 DEF n, k

\* A batch that stays ArrowMargin tuples below the buffer fits into it with
\* Arrow's own data and the Header, if the margin has room for these.
LEMMA MarginSuffices ==
  ASSUME NEW b \in Nat, NEW k \in Nat, NEW t \in Nat, NEW r \in Nat, NEW n \in Nat, NEW m \in Nat,
         NEW h \in Nat, NEW o \in Nat, k * t <= b, n <= k - m, r <= t, o + h <= m * t
  PROVE  o + n * r <= b - h
<1>1. n * r <= n * t
  BY Z3
<1>2. n * t <= (k - m) * t
  BY Z3
<1>3. (k - m) * t = k * t - m * t
  BY Z3
<1>4. n * r \in Int /\ n * t \in Int /\ (k - m) * t \in Int /\ k * t \in Int /\ m * t \in Int
  BY Z3
<1> QED
  BY <1>1, <1>2, <1>3, <1>4
-----------------------------------------------------------------------------
(* One lemma per step. *)

\* What depends on the options and the tuples alone stays while these do.
LEMMA SizesKept ==
  ASSUME UNCHANGED <<env, lens>>
  PROVE  UNCHANGED <<Tpb, Capacity, ClientCapacity, ArrowSize, PayloadSize, RunsOut>>
  BY DEF Tpb, Capacity, ClientTpb, ClientCapacity, ArrowSize, PayloadSize, RunsOut, TooLong

\* The invariant holds of an empty buffer.
LEMMA InitPath ==
  Init => PathInv
<1> SUFFICES ASSUME Init PROVE PathInv
  OBVIOUS
<1>1. env \in EnvType /\ phase = "fill" /\ lens = <<>> /\ codec = NoCodec /\ IsHeader(head)
  BY DEF Init, EnvType, IsHeader
<1>2. PathTypes
  BY <1>1 DEF PathTypes, Phases, NoCodec
<1>3. Len(lens) = 0
  BY <1>1
<1>4. FillInv
  BY <1>1, <1>3, Sizes DEF FillInv
<1> QED
  BY <1>1, <1>2, <1>4
  DEF PathInv, FitInv, PlainInv, SentInv, DropsKnown, ArrowFailsUnbatched, LaterOverrunsKnown, OverrunsKnown

\* A tuple is added only to a buffer that is not full.
LEMMA AddTuplePath ==
  ASSUME PathInv, AddTuple
  PROVE  PathInv'
<1>1. PathTypes /\ FillInv
  BY DEF PathInv
<1>2. PICK l \in TupleLens(env.schema) : lens' = Append(lens, l)
  BY DEF AddTuple
<1>3. phase = "fill" /\ ~Full /\ UNCHANGED <<env, phase, head, codec>>
  BY DEF AddTuple
<1>4. l \in Lengths
  BY <1>1, <1>2 DEF Lengths, PathTypes, EnvType
<1>5. lens' \in Seq(Lengths) /\ Len(lens') = Len(lens) + 1 /\ Len(lens) \in Nat
  BY <1>1, <1>2, <1>4 DEF PathTypes
<1>6. PathTypes'
  BY <1>1, <1>3, <1>5 DEF PathTypes, IsHeader
<1>7. Tpb \in Nat /\ Tpb >= 1 /\ ArrowMargin \in Nat /\ Tpb' = Tpb
  BY <1>1, <1>3, Sizes DEF PathTypes, Tpb
<1>8. FillInv'
  <2>1. CASE lens = <<>>
    <3>1. Len(lens') = 1
      BY <1>5, <2>1
    <3> QED
      BY <1>3, <1>7, <3>1 DEF FillInv
  <2>2. CASE lens # <<>>
    <3>1. Len(lens) # IF env.iformat = 3 THEN Tpb - ArrowMargin ELSE Tpb
      BY <1>3, <2>2 DEF Full
    <3> QED
      BY <1>1, <1>3, <1>5, <1>7, <3>1 DEF FillInv
  <2> QED
    BY <2>1, <2>2
<1> QED
  BY <1>3, <1>6, <1>8
  DEF PathInv, FitInv, PlainInv, SentInv, DropsKnown, ArrowFailsUnbatched, LaterOverrunsKnown, OverrunsKnown

\* A buffer that is pushed fits, or its way ends for a reason that is named.
LEMMA PushBufferPath ==
  ASSUME PathInv, PushBuffer
  PROVE  PathInv'
<1>1. PathTypes /\ FillInv /\ env \in EnvType /\ lens \in Seq(Lengths)
  BY DEF PathInv, PathTypes
<1>2. phase = "fill" /\ UNCHANGED <<env, mem, lens, codec>>
  BY DEF PushBuffer
<1>h. head' = [type |-> 0, totalSize |-> PayloadSize, totalTuples |-> Len(lens),
               format |-> env.iformat, uncompressed |-> 0]
  BY DEF PushBuffer
<1>3. UNCHANGED <<Tpb, Capacity, ClientCapacity, ArrowSize, PayloadSize, RunsOut>>
  BY <1>2, SizesKept
<1>z. /\ Capacity \in Nat /\ BufferBytes \in Nat /\ HeaderSize \in Nat /\ Tpb \in Nat
      /\ TupleSize(env.schema) \in Nat /\ TotalRowSize(env.schema) \in Nat
      /\ ArrowMargin \in Nat /\ ArrowOverhead \in Nat /\ Capacity <= BufferBytes
  BY <1>1, Sizes
<1>p. /\ PayloadSize \in Nat /\ ArrowSize \in Nat /\ Len(lens) \in Nat
      /\ env.iformat = 3 => PayloadSize = ArrowSize
      /\ env.iformat # 3 /\ Len(lens) <= Tpb => PayloadSize <= Capacity
  BY <1>1, PayloadNat
<1>4. \/ phase' = "thrown" /\ env.iformat = 3 /\ ArrowSize > BufferBytes - HeaderSize
      \/ phase' = "undefined" /\ env.iformat = 3
           /\ ArrowSize \in (Capacity + 1)..(BufferBytes - HeaderSize)
      \/ phase' = "undefined" /\ env.iformat # 3 /\ ~(DOMAIN mem \subseteq 0..(Capacity - 1))
      \/ phase' = "compress" /\ ~(env.iformat = 3 /\ ArrowSize > BufferBytes - HeaderSize)
           /\ ~(env.iformat = 3 /\ ArrowSize \in (Capacity + 1)..(BufferBytes - HeaderSize))
  <2> DEFINE A == env.iformat = 3 /\ ArrowSize > BufferBytes - HeaderSize
             B == env.iformat = 3 /\ ArrowSize \in (Capacity + 1)..(BufferBytes - HeaderSize)
             C == env.iformat # 3 /\ ~(DOMAIN mem \subseteq 0..(Capacity - 1))
  <2>1. phase' = CASE A -> "thrown" [] B -> "undefined" [] C -> "undefined" [] OTHER -> "compress"
    BY Zenon DEF PushBuffer
  <2>2. ~(A /\ B) /\ ~(A /\ C) /\ ~(B /\ C)
    BY <1>z, <1>p
  <2> HIDE DEF A, B, C
  <2>3. A => phase' = "thrown"
    BY <2>1, <2>2
  <2>4. B => phase' = "undefined"
    BY <2>1, <2>2
  <2>5. C => phase' = "undefined"
    BY <2>1, <2>2
  <2>6. ~A /\ ~B /\ ~C => phase' = "compress"
    BY <2>1, <2>2
  <2> QED
    BY <2>3, <2>4, <2>5, <2>6 DEF A, B, C
<1>5. codec = NoCodec /\ phase' \in Phases
  BY <1>2, <1>4 DEF PathInv, PlainInv, Phases
<1>6. PathTypes'
  BY <1>1, <1>2, <1>5, <1>h DEF PathTypes, IsHeader
<1>7. FillInv'
  BY <1>1, <1>2, <1>3 DEF FillInv
<1>8. FitInv'
  <2>1. SUFFICES ASSUME phase' = "compress" PROVE PayloadSize <= Capacity
    BY <1>3, <1>4 DEF FitInv
  <2>2. CASE env.iformat = 3
    BY <1>4, <1>z, <1>p, <2>1, <2>2
  <2>3. CASE env.iformat # 3
    BY <1>1, <1>p, <2>3 DEF FillInv
  <2> QED
    BY <2>2, <2>3
<1>9. PlainInv' /\ SentInv' /\ DropsKnown'
  BY <1>2, <1>3, <1>4, <1>5, <1>h DEF PlainInv, SentInv, DropsKnown
<1>10. ArrowFailsUnbatched'
  <2>1. SUFFICES ASSUME phase' = "thrown", Tpb > ArrowMargin,
                        TotalRowSize(env.schema) <= TupleSize(env.schema),
                        ArrowOverhead + HeaderSize <= ArrowMargin * TupleSize(env.schema)
                 PROVE  FALSE
    <3>1. ArrowMargin * TupleSize(env.schema) \in Nat
      BY <1>z, Z3
    <3> QED
      BY <1>2, <1>3, <1>z, <3>1 DEF ArrowFailsUnbatched
  <2>2. env.iformat = 3 /\ ArrowSize > BufferBytes - HeaderSize
    BY <1>4, <2>1
  <2>3. Len(lens) <= Tpb - ArrowMargin
    BY <1>1, <2>1, <2>2 DEF FillInv
  <2>4. Tpb * TupleSize(env.schema) <= BufferBytes
    BY <1>z DEF Capacity
  <2>5. ArrowOverhead + Len(lens) * TotalRowSize(env.schema) <= BufferBytes - HeaderSize
    BY <1>z, <1>p, <2>1, <2>3, <2>4, MarginSuffices
  <2> QED
    BY <1>z, <1>p, <2>2, <2>5 DEF ArrowSize
<1>11. LaterOverrunsKnown'
  <2>1. SUFFICES ASSUME phase' = "undefined", env.iformat = 3 \/ DOMAIN mem \subseteq 0..(Capacity - 1)
                 PROVE  env.iformat = 3 /\ Capacity < BufferBytes - HeaderSize
    BY <1>2, <1>3 DEF LaterOverrunsKnown, OverrunsKnown
  <2> QED
    BY <1>4, <1>z, <1>p, <2>1
<1> QED
  BY <1>6, <1>7, <1>8, <1>9, <1>10, <1>11 DEF PathInv

\* A batch is left behind only if it is never full.
LEMMA LeaveBatchPath ==
  ASSUME PathInv, LeaveBatch
  PROVE  PathInv'
<1>1. PathTypes /\ FillInv /\ env \in EnvType /\ lens \in Seq(Lengths)
  BY DEF PathInv, PathTypes
<1>2. /\ phase = "fill" /\ phase' = "unsent" /\ ~Full /\ lens # <<>> /\ Len(lens) = Tpb
      /\ UNCHANGED <<env, mem, lens, head, codec>>
  BY DEF LeaveBatch
<1>3. UNCHANGED <<Tpb, Capacity, ClientCapacity, ArrowSize, PayloadSize, RunsOut>>
  BY <1>2, SizesKept
<1>4. Tpb \in Nat /\ ArrowMargin \in Nat
  BY <1>1, Sizes
<1>5. env.iformat = 3 /\ Tpb # Tpb - ArrowMargin
  BY <1>2 DEF Full
<1>6. Tpb <= ArrowMargin
  BY <1>1, <1>2, <1>4, <1>5 DEF FillInv
<1>7. PathTypes' /\ FillInv'
  BY <1>1, <1>2, <1>3 DEF PathTypes, FillInv, IsHeader, Phases
<1>8. DropsKnown'
  BY <1>2, <1>3, <1>5, <1>6 DEF DropsKnown
<1> QED
  BY <1>2, <1>7, <1>8
  DEF PathInv, FitInv, PlainInv, SentInv, ArrowFailsUnbatched, LaterOverrunsKnown, OverrunsKnown

\* The column codec is the one called "cols".
LEMMA ColsIsSix ==
  ASSUME NEW name
  PROVE  CompId(name) \in 0..6 /\ (CompId(name) = 6 <=> name = "cols")
<1>1. /\ name = "zstd" => CompId(name) = 1
      /\ name = "snappy" => CompId(name) = 2
      /\ name = "lzo" => CompId(name) = 3
  BY Zenon DEF CompId
<1>2. /\ name = "lz4" => CompId(name) = 4
      /\ name = "zlib" => CompId(name) = 5
      /\ name = "cols" => CompId(name) = 6
  BY Zenon DEF CompId
<1>3. name # "zstd" /\ name # "snappy" /\ name # "lzo" /\ name # "lz4" /\ name # "zlib"
      /\ name # "cols" => CompId(name) = 0
  BY Zenon DEF CompId
<1> QED
  BY <1>1, <1>2, <1>3

\* What the compressor sends is described by its header: a size that is not the
\* buffer's is taken for a success, and then the header names the codec.
LEMMA CompressBufferPath ==
  ASSUME PathInv, CompressBuffer
  PROVE  PathInv'
<1> DEFINE n == head.totalSize  id == CompId(env.method)
<1>1. PathTypes /\ FillInv /\ env \in EnvType /\ lens \in Seq(Lengths) /\ IsHeader(head)
  BY DEF PathInv, PathTypes
<1>2. phase = "compress" /\ UNCHANGED <<env, mem, lens, cmem, out>>
  BY DEF CompressBuffer, Compress
<1>3. UNCHANGED <<Tpb, Capacity, ClientCapacity, ArrowSize, PayloadSize, RunsOut>>
  BY <1>2, SizesKept
<1>4. n = PayloadSize /\ n \in Nat /\ n <= Capacity /\ head.type = 0 /\ codec = NoCodec
  BY <1>1, <1>2, PayloadNat DEF PathInv, FitInv, PlainInv
<1>5. Capacity \in Nat /\ Capacity >= 1 /\ BufferBytes \in Nat /\ Capacity <= BufferBytes
  BY <1>1, Sizes
<1>6. id \in 0..6 /\ (id = 6 <=> env.method = "cols")
  BY ColsIsSix
<1>7. /\ FillInv'
      /\ phase' \in {"send", "undefined"} => FitInv' /\ PlainInv' /\ DropsKnown' /\ ArrowFailsUnbatched'
  BY <1>1, <1>2, <1>3, <1>4 DEF FillInv, FitInv, PlainInv, DropsKnown, ArrowFailsUnbatched
<1> DEFINE Coded == \E c \in CodecSizes(n) :
             IF Overruns(id, c)
             THEN phase' = "undefined" /\ UNCHANGED <<env, mem, lens, head, codec, cmem, out>>
             ELSE Compress(id, CodecReturns(c, n), c <= n)
           Columns == \E s \in ColumnSizes(n) : Compress(6, FoldLeft(+, 0, s), FoldLeft(+, 0, s) < n)
<1>a. \/ id = 0 /\ phase' = "send" /\ UNCHANGED <<env, mem, lens, head, codec, cmem, out>>
      \/ id \in 1..5 /\ Coded
      \/ id = 6 /\ Columns
  BY Zenon DEF CompressBuffer
<1> HIDE DEF Coded, Columns
<1>8. CASE id = 0
  <2>1. phase' = "send" /\ UNCHANGED <<head, codec>>
    BY <1>a, <1>8
  <2>2. PathTypes' /\ SentInv' /\ LaterOverrunsKnown'
    BY <1>1, <1>2, <1>3, <1>4, <1>6, <1>8, <2>1
    DEF PathTypes, IsHeader, SentInv, LaterOverrunsKnown, OverrunsKnown, Phases, NoCodec
  <2> QED
    BY <1>7, <2>1, <2>2 DEF PathInv
<1>9. CASE id \in 1..5
  <2>1. PICK c \in CodecSizes(n) :
           IF Overruns(id, c)
           THEN phase' = "undefined" /\ UNCHANGED <<env, mem, lens, head, codec, cmem, out>>
           ELSE Compress(id, CodecReturns(c, n), c <= n)
    <3>1. Coded
      BY <1>a, <1>9
    <3> QED
      BY <3>1, Zenon DEF Coded
  <2>2. c \in Int /\ c > 0 /\ c \in {1, n - 1, n, n + 1}
    BY <1>4 DEF CodecSizes
  <2>3. CASE Overruns(id, c)
    <3>1. phase' = "undefined" /\ UNCHANGED <<head, codec>>
      BY <2>1, <2>3
    <3>2. id \in {2, 3, 5} /\ c > Capacity
      BY <2>3 DEF Overruns
    <3>3. PayloadSize >= Capacity
      BY <1>4, <1>5, <2>2, <3>2
    <3>4. PathTypes' /\ SentInv' /\ LaterOverrunsKnown'
      BY <1>1, <1>2, <1>3, <3>1, <3>2, <3>3
      DEF PathTypes, IsHeader, SentInv, LaterOverrunsKnown, OverrunsKnown, Phases
    <3> QED
      BY <1>7, <3>1, <3>4 DEF PathInv
  <2>4. CASE ~Overruns(id, c)
    <3> DEFINE size == CodecReturns(c, n)
    <3>1. Compress(id, size, c <= n)
      BY <2>1, <2>4
    <3>2. size \in Nat /\ size <= n /\ (size # n => c < n /\ size = c) /\ (c > n => size = n)
      BY <1>4, <2>2 DEF CodecReturns
    <3> HIDE DEF size
    <3>3. /\ phase' = "send"
          /\ codec' = IF Recognised(size) THEN NoCodec ELSE [id |-> id, complete |-> c <= n]
          /\ head' = [head EXCEPT !.type = IF Recognised(size) THEN 0 ELSE id,
                                  !.totalSize = size, !.uncompressed = head.totalSize]
      BY <3>1 DEF Compress
    <3>4. /\ IsHeader(head') /\ head'.totalSize = size /\ head'.uncompressed = n
          /\ head'.type = IF Recognised(size) THEN 0 ELSE id
      BY <1>1, <3>3 DEF IsHeader
    <3>5. env.method # "cols"
      BY <1>6, <1>9
    <3>6. CASE Recognised(size)
      <4>1. size = n
        BY <1>4, <1>5, <2>2, <3>2, <3>6 DEF Recognised
      <4>2. codec' = NoCodec /\ head'.type = 0
        BY <3>3, <3>4, <3>6
      <4> QED
        BY <1>1, <1>2, <1>3, <1>4, <1>7, <3>3, <3>4, <3>5, <4>1, <4>2
        DEF PathInv, PathTypes, SentInv, LaterOverrunsKnown, OverrunsKnown, Phases, NoCodec, IsHeader
    <3>7. CASE ~Recognised(size)
      <4>1. size < BufferBytes /\ size > 0
        BY <1>5, <3>2, <3>7 DEF Recognised
      <4>2. codec'.id = id /\ codec'.complete = (c <= n) /\ head'.type = id
            /\ codec' \in [id : 0..6, complete : BOOLEAN]
        BY <3>3, <3>4, <3>7, <1>6
      <4>3. ~codec'.complete => PayloadSize < BufferBytes
        BY <1>4, <2>2, <3>2, <4>1, <4>2
      <4>4. SentInv'
        BY <1>2, <1>3, <1>4, <1>9, <3>2, <3>4, <3>5, <4>1, <4>2, <4>3 DEF SentInv
      <4> QED
        BY <1>1, <1>2, <1>7, <3>3, <3>4, <4>2, <4>4
        DEF PathInv, PathTypes, LaterOverrunsKnown, OverrunsKnown, Phases, IsHeader
    <3> QED
      BY <3>6, <3>7
  <2> QED
    BY <2>3, <2>4
<1>10. CASE id = 6
  <2>1. PICK s \in ColumnSizes(n) : Compress(6, FoldLeft(+, 0, s), FoldLeft(+, 0, s) < n)
    <3>1. Columns
      BY <1>a, <1>10
    <3> QED
      BY <3>1, Zenon DEF Columns
  <2> DEFINE size == FoldLeft(+, 0, s)
  <2>2. Compress(6, size, size < n)
    BY <2>1
  <2> HIDE DEF size
  <2>3. /\ phase' = "send"
        /\ codec' = IF Recognised(size) THEN NoCodec ELSE [id |-> 6, complete |-> size < n]
        /\ head' = [head EXCEPT !.type = IF Recognised(size) THEN 0 ELSE 6,
                                !.totalSize = size, !.uncompressed = head.totalSize]
    BY <2>2 DEF Compress
  <2>4. IsHeader(head') /\ head'.type = IF Recognised(size) THEN 0 ELSE 6
    BY <1>1, <2>3 DEF IsHeader
  <2>5. codec' \in [id : 0..6, complete : BOOLEAN] /\ codec'.id = head'.type /\ codec'.id \in {0, 6}
    BY <2>3, <2>4 DEF NoCodec
  <2> QED
    BY <1>1, <1>2, <1>6, <1>7, <1>10, <2>3, <2>4, <2>5
    DEF PathInv, PathTypes, SentInv, LaterOverrunsKnown, OverrunsKnown, Phases, IsHeader
<1> QED
  BY <1>6, <1>8, <1>9, <1>10

\* The body that arrives fits the client's buffer, unless that is smaller.
LEMMA ReceivePath ==
  ASSUME PathInv, Receive
  PROVE  PathInv'
<1>1. PathTypes /\ FillInv /\ env \in EnvType /\ lens \in Seq(Lengths)
  BY DEF PathInv, PathTypes
<1>2. phase = "send" /\ UNCHANGED <<env, mem, lens, head, codec, out>>
  BY DEF Receive
<1>3. UNCHANGED <<Tpb, Capacity, ClientCapacity, ArrowSize, PayloadSize, RunsOut>>
  BY <1>2, SizesKept
<1>4. /\ phase' \in {"undefined", "decompress"}
      /\ phase' = "undefined" => head.totalSize > ClientCapacity
  BY DEF Receive
<1>5. PayloadSize \in Nat /\ PayloadSize <= Capacity
  BY <1>1, <1>2, PayloadNat DEF PathInv, FitInv
<1>6. /\ Capacity \in Nat /\ ClientCapacity \in Nat /\ env.clientBytes \in Nat /\ BufferBytes \in Nat
      /\ env.clientBytes >= BufferBytes => Capacity <= ClientCapacity
  BY <1>1, Sizes
<1>7. env.method # "cols" => head.totalSize \in Nat /\ head.totalSize <= PayloadSize
  BY <1>2, <1>5 DEF PathInv, SentInv
<1>8. phase' = "undefined" => env.clientBytes < BufferBytes \/ env.method = "cols"
  <2> SUFFICES ASSUME phase' = "undefined", env.clientBytes >= BufferBytes, env.method # "cols"
               PROVE  FALSE
    BY <1>6
  <2>1. head.totalSize > ClientCapacity /\ Capacity <= ClientCapacity
    BY <1>4, <1>6
  <2> QED
    BY <1>5, <1>6, <1>7, <2>1
<1>9. PathTypes' /\ FillInv'
  BY <1>1, <1>2, <1>3, <1>4 DEF PathTypes, FillInv, IsHeader, Phases
<1>10. FitInv' /\ PlainInv' /\ SentInv' /\ DropsKnown' /\ ArrowFailsUnbatched'
  BY <1>2, <1>3, <1>4 DEF PathInv, FitInv, PlainInv, SentInv, DropsKnown, ArrowFailsUnbatched
<1>11. LaterOverrunsKnown'
  BY <1>2, <1>8 DEF LaterOverrunsKnown, OverrunsKnown
<1> QED
  BY <1>9, <1>10, <1>11 DEF PathInv

\* The decompressor gives up a buffer only for the reasons named.
LEMMA DecompressPath ==
  ASSUME PathInv, Decompress
  PROVE  PathInv'
<1>1. PathTypes /\ FillInv /\ env \in EnvType /\ lens \in Seq(Lengths) /\ codec \in [id : 0..6, complete : BOOLEAN]
  BY DEF PathInv, PathTypes
<1>2. phase = "decompress" /\ UNCHANGED <<env, mem, lens, codec, out>>
  BY DEF Decompress
<1>3. UNCHANGED <<Tpb, Capacity, ClientCapacity, ArrowSize, PayloadSize, RunsOut>>
  BY <1>2, SizesKept
<1>4. \/ phase' = "serialize" /\ head' = head
      \/ head.type # 0 /\ \E result \in DecodeResults :
           /\ phase' = CASE result = "error" -> "dropped" [] result = "intact" -> "serialize"
                         [] result = "overrun" -> "undefined" [] OTHER -> "garbage"
           /\ head' = [head EXCEPT !.type = 0, !.totalSize = head.uncompressed, !.uncompressed = 0]
  BY Zenon DEF Decompress
<1>5. /\ phase' \in {"serialize", "dropped", "garbage", "undefined"} /\ IsHeader(head')
      /\ phase' = "dropped" => head.type # 0 /\ "error" \in DecodeResults
      /\ phase' = "undefined" => head.type # 0 /\ "overrun" \in DecodeResults
  <2>1. IsHeader(head)
    BY <1>1 DEF PathTypes
  <2>2. CASE phase' = "serialize" /\ head' = head
    BY <2>1, <2>2 DEF IsHeader
  <2>3. ASSUME NEW result \in DecodeResults, head.type # 0,
               phase' = CASE result = "error" -> "dropped" [] result = "intact" -> "serialize"
                          [] result = "overrun" -> "undefined" [] OTHER -> "garbage",
               head' = [head EXCEPT !.type = 0, !.totalSize = head.uncompressed, !.uncompressed = 0]
        PROVE  /\ phase' \in {"serialize", "dropped", "garbage", "undefined"} /\ IsHeader(head')
               /\ phase' = "dropped" => head.type # 0 /\ "error" \in DecodeResults
               /\ phase' = "undefined" => head.type # 0 /\ "overrun" \in DecodeResults
    <3>1. /\ result = "error" => phase' = "dropped"
          /\ result = "intact" => phase' = "serialize"
          /\ result = "overrun" => phase' = "undefined"
          /\ result # "error" /\ result # "intact" /\ result # "overrun" => phase' = "garbage"
      BY <2>3, Zenon
    <3>2. IsHeader(head')
      BY <2>1, <2>3 DEF IsHeader
    <3> QED
      BY <2>3, <3>1, <3>2
  <2> QED
    BY <1>4, <2>2, <2>3, Zenon
<1>6. PayloadSize \in Nat /\ PayloadSize <= Capacity
  BY <1>1, <1>2, PayloadNat DEF PathInv, FitInv
<1>7. /\ Capacity \in Nat /\ ClientCapacity \in Nat
      /\ env.clientBytes = BufferBytes => ClientCapacity = Capacity
  BY <1>1, Sizes
<1>8. DropsKnown'
  <2>1. SUFFICES ASSUME phase' = "dropped", codec.complete, codec.id # 6, env.clientBytes = BufferBytes
                 PROVE  codec.id = 3 /\ PayloadSize < Capacity
    <3>1. ~codec.complete /\ phase' = "dropped" /\ codec.id # 6 => PayloadSize < BufferBytes
      BY <1>2, <1>5 DEF PathInv, SentInv
    <3> QED
      BY <1>2, <1>3, <1>5, <3>1 DEF DropsKnown
  <2>2. head.uncompressed = PayloadSize /\ codec.id # 0
    BY <1>2, <1>5, <2>1 DEF PathInv, SentInv
  <2>3. ~DecodeFits(codec.id, PayloadSize)
    <3>1. codec.id # 6 /\ codec.complete =>
            DecodeResults = {IF DecodeOverruns(codec.id, head.uncompressed) THEN "overrun"
                             ELSE IF DecodeFits(codec.id, head.uncompressed) THEN "intact" ELSE "error"}
      BY Zenon DEF DecodeResults
    <3> QED
      BY <1>5, <2>1, <2>2, <3>1
  <2>4. /\ codec.id = 3 => (DecodeFits(codec.id, PayloadSize) <=> PayloadSize = ClientCapacity)
        /\ codec.id # 3 => (DecodeFits(codec.id, PayloadSize) <=> PayloadSize <= ClientCapacity)
    BY DEF DecodeFits
  <2> QED
    BY <1>1, <1>2, <1>5, <1>6, <1>7, <2>1, <2>2, <2>3, <2>4
<1>9. PathTypes' /\ FillInv'
  BY <1>1, <1>2, <1>3, <1>5 DEF PathTypes, FillInv, Phases
<1>10. FitInv'
  BY <1>2, <1>3, <1>5, <1>6 DEF FitInv
<1>11. PlainInv' /\ SentInv' /\ ArrowFailsUnbatched'
  BY <1>5 DEF PlainInv, SentInv, ArrowFailsUnbatched
<1>12. phase' = "undefined" => \/ codec.id = 3 /\ ~codec.complete
                               \/ env.clientBytes < BufferBytes
                               \/ env.method = "cols"
  <2> SUFFICES ASSUME phase' = "undefined", codec.id # 3 \/ codec.complete,
                      ~(env.clientBytes < BufferBytes), env.method # "cols"
               PROVE  FALSE
    OBVIOUS
  <2>1. Capacity <= ClientCapacity
    BY <1>1, Sizes
  <2>2. head.type # 0 /\ "overrun" \in DecodeResults /\ head.type = codec.id /\ head.uncompressed = PayloadSize
    BY <1>2, <1>5 DEF PathInv, SentInv
  <2>3. ~DecodeOverruns(codec.id, head.uncompressed)
    BY <1>6, <1>7, <2>1, <2>2 DEF DecodeOverruns
  <2>4. codec.id = 6 => DecodeResults = {"error", "garbage"}
    BY Zenon DEF DecodeResults
  <2>5. codec.id # 6 /\ codec.complete => "overrun" \notin DecodeResults
    <3>1. codec.id # 6 /\ codec.complete =>
            DecodeResults = {IF DecodeOverruns(codec.id, head.uncompressed) THEN "overrun"
                             ELSE IF DecodeFits(codec.id, head.uncompressed) THEN "intact" ELSE "error"}
      BY Zenon DEF DecodeResults
    <3> QED
      BY <2>3, <3>1
  <2>6. codec.id # 6 /\ ~codec.complete =>
          DecodeResults = {"error"} \cup (IF codec.id \in {3, 4} THEN {"garbage"} ELSE {})
                            \cup (IF codec.id = 3 \/ DecodeOverruns(codec.id, head.uncompressed)
                                 THEN {"overrun"} ELSE {})
    BY Zenon DEF DecodeResults
  <2>7. codec.id # 6 /\ ~codec.complete => "overrun" \notin DecodeResults
    BY <2>3, <2>6
  <2> QED
    BY <2>2, <2>4, <2>5, <2>7
<1>13. LaterOverrunsKnown'
  BY <1>2, <1>12 DEF LaterOverrunsKnown, OverrunsKnown
<1> QED
  BY <1>8, <1>9, <1>10, <1>11, <1>13 DEF PathInv

\* The sink and the end of the way change neither header nor tuples.
LEMMA SerializePath ==
  ASSUME PathInv, Serialize \/ UNCHANGED vars
  PROVE  PathInv'
<1>1. UNCHANGED <<env, mem, lens, head, codec>>
  BY DEF Serialize, vars
<1>2. UNCHANGED <<Tpb, Capacity, ClientCapacity, ArrowSize, PayloadSize, RunsOut>>
  BY <1>1, SizesKept
<1>3. phase' = phase \/ phase' \in {"aborted", "written"}
  BY DEF Serialize, vars
<1>4. PathTypes' /\ FillInv'
  BY <1>1, <1>2, <1>3 DEF PathInv, PathTypes, FillInv, Phases, IsHeader
<1>5. FitInv' /\ PlainInv' /\ SentInv'
  BY <1>1, <1>2, <1>3 DEF PathInv, FitInv, PlainInv, SentInv
<1>6. DropsKnown' /\ ArrowFailsUnbatched'
  BY <1>1, <1>2, <1>3 DEF PathInv, DropsKnown, ArrowFailsUnbatched
<1>7. LaterOverrunsKnown'
  BY <1>1, <1>2, <1>3 DEF PathInv, LaterOverrunsKnown, OverrunsKnown
<1> QED
  BY <1>4, <1>5, <1>6, <1>7 DEF PathInv

-----------------------------------------------------------------------------
(* Theorems. *)

\* The invariant holds of every buffer, whatever its schema, source, format and codec.
THEOREM PathInvariant ==
  Spec => []PathInv
<1>1. PathInv /\ [Next]_vars => PathInv'
  BY AddTuplePath, PushBufferPath, LeaveBatchPath, CompressBufferPath, ReceivePath, DecompressPath, SerializePath
  DEF Next, Ended
<1> QED
  BY InitPath, <1>1, PTL DEF Spec

\* The header that arrives at the client (Header in xdbcserver.h, written by the
\* deserializers and by Compressor::compress) is honest.
THEOREM HeaderHonest ==
  Spec => []HonestHeader
<1>1. PathInv => HonestHeader
  BY DEF PathInv, SentInv, HonestHeader
<1> QED
  BY <1>1, PathInvariant, PTL

\* Rows are lost on the way only for one of the reasons of DropsKnown: the
\* deserializer leaves a batch behind only if a buffer has no more tuples than the
\* margin, and the client's decompressor drops a buffer only for the other four.
THEOREM DropsExplained ==
  Spec => []DropsKnown
<1>1. PathInv => DropsKnown
  BY DEF PathInv
<1> QED
  BY <1>1, PathInvariant, PTL

\* finalizeAndWriteRecordBatchToMemory throws only without a margin, if the schema
\* declares too little, or if the margin is smaller than Arrow's own data.
THEOREM ThrowsExplained ==
  Spec => []ArrowFailsUnbatched
<1>1. PathInv => ArrowFailsUnbatched
  BY DEF PathInv
<1> QED
  BY <1>1, PathInvariant, PTL

\* Once the tuples lie inside the server's buffer (or are an Arrow batch), nothing
\* that follows overruns a buffer but for the reasons of OverrunsKnown.
THEOREM OverrunsExplained ==
  Spec => [](env.iformat = 3 \/ DOMAIN mem \subseteq 0..(Capacity - 1) => OverrunsKnown)
<1>1. PathInv => (env.iformat = 3 \/ DOMAIN mem \subseteq 0..(Capacity - 1) => OverrunsKnown)
  BY DEF PathInv, LaterOverrunsKnown
<1> QED
  BY <1>1, PathInvariant, PTL
=============================================================================
