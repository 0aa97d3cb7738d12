------------------------- MODULE ServerPipelineProofs -------------------------
(***************************************************************************)
(* Proofs about ServerPipeline, for every number of threads, every size of *)
(* the pool, every source and every choice of faults.                      *)
(*                                                                         *)
(* PipelineInv is the inductive invariant: what each thread holds where it *)
(* is (HoldInv), that every buffer is in exactly one place (PlaceInv), how *)
(* much the buffers of readers and deserializers hold (RoomInv) and where  *)
(* the readers are in the table (CursorInv).  The theorems on types, on    *)
(* the conservation of buffers and on aborts follow from it.  The last     *)
(* part shows that the hand-offs to deserializers, compressors and senders *)
(* implement StageQueue, and with the theorems of StageQueueProofs that no *)
(* sender returns before everything upstream of it has been handed on.     *)
(***************************************************************************)
EXTENDS ServerPipeline, PoolLemmas, TLAPS

Parquet == Source = "parquet"

LocType == [in : Buffers \cup {NoBuffer}, out : Buffers \cup {NoBuffer}, off : Nat, left : Nat]

CursorType == [part : (0..(PartNum - 1)) \cup {Sentinel}, line : Nat, pos : Nat]

ServeStates == {"waitReady", "joinComp", "joinSend", "joinRead", "done", "aborted"}

ReaderPCs ==
  {"popPart", "popFree", "fetchAdd", "load", "signal", "done"} \cup
  (IF Parquet THEN {"openFile", "readFile", "pushFile"}
   ELSE {"readLines", "pushFull", "refill", "pushLast", "failed"})

\* TypeOK and the types of what it leaves out.
FullTypes ==
  /\ TypeOK
  /\ serve \in ServeStates
  /\ cursor \in [Readers -> CursorType]
  /\ \A r \in Readers : pc[r] \in ReaderPCs

-----------------------------------------------------------------------------
\* Where a thread of each stage has a buffer to read, none to read, one to write
\* into, and none to write into.
InFull ==
  [read |-> {},
   deser |-> {"deserialize", "pushFull", "refill", "release", "forward"},
   comp |-> {"popFree", "compress", "release", "forward"},
   send |-> {"write", "release"}]

InEmpty ==
  [read |-> {},
   deser |-> {"pop", "popNext", "popFirst"} \cup (IF Parquet THEN {} ELSE {"popFree"}),
   comp |-> {"pop"},
   send |-> {"bind", "accept", "pop"}]

OutFull ==
  [read |-> {"readLines", "pushFull", "pushLast", "readFile", "pushFile"}
              \cup (IF Parquet THEN {} ELSE {"popPart"}),
   deser |-> {"deserialize", "pushFull", "release", "popNext", "pushLast"}
               \cup (IF Parquet THEN {} ELSE {"popFirst"}),
   comp |-> {"compress"},
   send |-> {}]

OutEmpty ==
  [read |-> {"popFree", "refill", "openFile"} \cup (IF Parquet THEN {"popPart"} ELSE {}),
   deser |-> {"popFree", "refill"} \cup (IF Parquet THEN {"popFirst"} ELSE {}),
   comp |-> {"pop", "popFree", "release", "forward"},
   send |-> {}]

\* What a thread t at s holds in its variables v.
HoldsRight(t, s, v) ==
  /\ s \in InFull[Stage(t)] => v.in \in Buffers
  /\ s \in InEmpty[Stage(t)] => v.in = NoBuffer
  /\ s \in OutFull[Stage(t)] => v.out \in Buffers
  /\ s \in OutEmpty[Stage(t)] => v.out = NoBuffer
  /\ s = "signal" => v.left > 0

HoldInv == \A t \in Threads : HoldsRight(t, pc[t], loc[t])

\* The ids that the variables of the threads hold.
Held == [s \in ThreadSlots |-> loc[s[1]][s[2]]]

\* Every buffer is in exactly one place.
PlaceInv == OnePlace(Buffers, queue, Held) /\ SomePlace(Buffers, queue, Held)

\* What the buffers c hold that thread t works on: no more rows than fit, and no
\* fewer than it has read.
RoomRight(t, s, v, c) ==
  /\ Stage(t) = "read" /\ v.out \in Buffers => Len(c[v.out]) <= LinesPerBuffer
  /\ Stage(t) = "deser" =>
       /\ v.out \in Buffers => Len(c[v.out]) <= TuplesPerBuffer
       /\ s \in {"deserialize", "pushFull", "refill", "release"} => v.off <= Len(c[v.in])
       /\ s \in {"popFree", "popFirst", "popNext"} => v.off = 0

FreeEmpty == \A i \in 1..Len(queue.free) : content[queue.free[i]] = <<>>

RoomInv == FreeEmpty /\ \A t \in Threads : RoomRight(t, pc[t], loc[t], content)

\* A csv reader stays within its file and starts a partition at line 0; a parquet
\* reader opens only files that exist.
CursorRight(s, c) ==
  /\ Source = "csv" => c.pos <= TableRows
  /\ Source = "csv" /\ s \in {"popFree", "popPart"} => c.line = 0
  /\ Parquet /\ s \in {"popFree", "readFile"} => c.line < NumFiles

CursorInv == \A r \in Readers : CursorRight(pc[r], cursor[r])

PipelineInv == FullTypes /\ HoldInv /\ PlaceInv /\ RoomInv /\ CursorInv

-----------------------------------------------------------------------------
\* Integer division of a natural number.
LEMMA DivBounds ==
  ASSUME NEW a \in Nat, NEW b \in Nat \ {0}
  PROVE  a \div b \in Nat /\ (a \div b) * b <= a
OBVIOUS

\* Products of natural numbers are natural numbers.
LEMMA ProductNat == \A a, b \in Nat : a * b \in Nat
OBVIOUS

\* A product grows with its first factor.
LEMMA ProductMonotone == \A a, b, k \in Nat : a < b => (a + 1) * k <= b * k
OBVIOUS

\* Products of integers are integers.
LEMMA ProductInt == \A a, b \in Int : a * b \in Int
OBVIOUS

\* Partitions are made of natural numbers, and the files hold no more rows than
\* the table.
LEMMA PartArithmetic ==
  /\ NumFiles \in Nat /\ NumFiles * LinesPerBuffer <= TableRows
  /\ PartNum \in Nat \ {0} /\ PartSize \in Nat
  /\ \A p \in 0..(PartNum - 1) : StartOff(p) \in Nat
  /\ \A p \in Int : EndOff(p) \in Int
<1>1. NumFiles \in Nat /\ NumFiles * LinesPerBuffer <= TableRows
  BY DivBounds, SizesAssumption DEF NumFiles
<1>2. PartNum \in Nat \ {0}
  BY ParallelismAssumption, SizesAssumption DEF PartNum
<1>3. MaxRowNum \in Nat
  BY <1>1, SizesAssumption DEF MaxRowNum
<1>4. MaxRowNum + PartNum - 1 \in Nat
  BY <1>2, <1>3
<1>5. PartSize \in Nat
  BY <1>2, <1>4, DivBounds DEF PartSize
<1>6. \A p \in 0..(PartNum - 1) : StartOff(p) \in Nat
  BY <1>2, <1>5, ProductNat DEF StartOff
<1>7. LastOff \in Int
  BY <1>3, SizesAssumption DEF LastOff
<1>8. ASSUME NEW p \in Int PROVE EndOff(p) \in Int
  <2>1. (p + 1) * PartSize \in Int
    BY <1>5, ProductInt
  <2> QED BY <2>1, <1>7 DEF EndOff
<1> QED BY <1>1, <1>2, <1>5, <1>6, <1>8

\* Sentinel and NoBuffer are no buffers; the pool is finite.
LEMMA BufferFacts ==
  /\ Sentinel \notin Buffers /\ NoBuffer \notin Buffers /\ Buffers \subseteq Nat
  /\ IsFiniteSet(Buffers) /\ Cardinality(Buffers) = BuffersInBufferpool
<1>1. IsFiniteSet(Buffers) /\ Cardinality(Buffers) = BuffersInBufferpool
  BY FS_Interval, SizesAssumption DEF Buffers
<1> QED BY <1>1, SizesAssumption DEF Buffers, Sentinel, NoBuffer

\* Threads carry the name of their stage.
LEMMA ThreadFacts ==
  ASSUME NEW t \in Threads
  PROVE  /\ Stage(t) \in {"read", "deser", "comp", "send"}
         /\ Stage(t) = "read" <=> t \in Readers
         /\ Stage(t) = "deser" <=> t \in Desers
         /\ Stage(t) \in {"read", "deser", "comp"} =>
              /\ NextStage[Stage(t)] \in {"deser", "comp", "send"}
              /\ Parallelism[NextStage[Stage(t)]] \in Nat \ {0}
<1>1. /\ Stage(t) \in {"read", "deser", "comp", "send"}
      /\ Stage(t) = "read" <=> t \in Readers
      /\ Stage(t) = "deser" <=> t \in Desers
  BY DEF Threads, Readers, Desers, Comps, Senders, Stage
<1>2. NextStage["read"] \in {"deser", "comp"} /\ NextStage["deser"] = "comp" /\ NextStage["comp"] = "send"
  BY DEF NextStage
<1>3. \A s \in {"deser", "comp", "send"} : Parallelism[s] \in Nat \ {0}
  BY ParallelismAssumption DEF Parallelism
<1> QED BY <1>1, <1>2, <1>3

-----------------------------------------------------------------------------
\* The free queue at the start.
LEMMA FirstQueue ==
  ASSUME NEW N \in Nat, NEW f, f = [i \in 1..N |-> i - 1]
  PROVE  /\ f \in Seq(0..(N - 1)) /\ Len(f) = N
         /\ \A i \in 1..N : f[i] = i - 1
OBVIOUS

\* The queue of partitions at the start.
LEMMA InitParts == InitialParts \in Seq((0..(PartNum - 1)) \cup {Sentinel})
<1>1. PartNum \in Nat \ {0} /\ ReadParallelism \in Nat
  BY PartArithmetic, ParallelismAssumption
<1>2. CASE Source = "clickhouse"
  <2>1. \A i \in 1..PartNum : i - 1 \in 0..(PartNum - 1)
    BY <1>1
  <2> QED BY <1>1, <1>2, <2>1 DEF InitialParts
<1>3. CASE Source # "clickhouse"
  <2>1. PartNum + ReadParallelism \in Nat
    BY <1>1
  <2>2. \A i \in 1..(PartNum + ReadParallelism) :
          (IF i <= PartNum THEN PartNum - i ELSE Sentinel) \in (0..(PartNum - 1)) \cup {Sentinel}
    BY <1>1
  <2> QED BY <1>3, <2>1, <2>2 DEF InitialParts
<1> QED BY <1>2, <1>3

\* The invariant holds at the start: all buffers are free and empty.
LEMMA PipelineInit == Init => PipelineInv
<1> SUFFICES ASSUME Init PROVE PipelineInv
  OBVIOUS
<1>1. \A t \in Threads : StartPC[Stage(t)] \in PCs
  BY ThreadFacts DEF StartPC, PCs
<1>2. /\ queue.free \in Seq(Buffers) /\ Len(queue.free) = BuffersInBufferpool
      /\ \A i \in 1..BuffersInBufferpool : queue.free[i] = i - 1
      /\ queue.deser = <<>> /\ queue.comp = <<>> /\ queue.send = <<>>
      /\ DOMAIN queue = {"free", "deser", "comp", "send"}
  BY FirstQueue, SizesAssumption DEF Init, Buffers
<1>3. TypeOK
  <2>1. pc \in [Threads -> PCs]
    BY <1>1 DEF Init
  <2>2. loc \in [Threads -> LocType]
    BY DEF Init, LocType
  <2>3. \A name \in {"deser", "comp", "send"} : queue[name] \in Seq(Buffers \cup {Sentinel})
    <3>1. \A name \in {"deser", "comp", "send"} : queue[name] = <<>>
      BY <1>2
    <3>2. <<>> \in Seq(Buffers \cup {Sentinel})
      OBVIOUS
    <3> QED BY <3>1, <3>2
  <2>4. content \in [Buffers -> Seq(Rows)] /\ finished \in [{"read", "deser", "comp"} -> Nat]
        /\ sent \in [Rows -> Nat]
    BY DEF Init
  <2>5. partPtr \in Seq((0..(PartNum - 1)) \cup {Sentinel})
    BY InitParts DEF Init
  <2> QED BY <1>2, <2>1, <2>2, <2>3, <2>4, <2>5 DEF TypeOK, LocType
<1>4. FullTypes
  <2>1. cursor \in [Readers -> CursorType]
    BY DEF Init, CursorType
  <2>2. \A r \in Readers : r \in Threads
    BY DEF Threads
  <2>3. \A r \in Readers : pc[r] \in ReaderPCs
    BY <2>2, ThreadFacts DEF Init, StartPC, ReaderPCs, Parquet
  <2> QED BY <1>3, <2>1, <2>3 DEF FullTypes, Init, ServeStates
<1>5. \A t \in Threads : /\ loc[t].in = NoBuffer /\ loc[t].out = NoBuffer /\ loc[t].off = 0
                         /\ pc[t] = StartPC[Stage(t)]
  BY DEF Init
<1>6. HoldInv
  <2> SUFFICES ASSUME NEW t \in Threads PROVE HoldsRight(t, pc[t], loc[t])
    BY DEF HoldInv
  <2>1. CASE Stage(t) = "read"
    BY <1>5, <2>1, OptionsAssumption DEF HoldsRight, InFull, InEmpty, OutFull, OutEmpty, StartPC, Parquet
  <2>2. CASE Stage(t) = "deser"
    BY <1>5, <2>2, OptionsAssumption DEF HoldsRight, InFull, InEmpty, OutFull, OutEmpty, StartPC, Parquet, Skipping
  <2>3. CASE Stage(t) = "comp"
    BY <1>5, <2>3 DEF HoldsRight, InFull, InEmpty, OutFull, OutEmpty, StartPC
  <2>4. CASE Stage(t) = "send"
    BY <1>5, <2>4 DEF HoldsRight, InFull, InEmpty, OutFull, OutEmpty, StartPC
  <2> QED BY <2>1, <2>2, <2>3, <2>4, ThreadFacts
<1>7. /\ DOMAIN Held = ThreadSlots
      /\ \A s \in ThreadSlots : Held[s] = NoBuffer
  <2>1. ASSUME NEW s \in ThreadSlots PROVE Held[s] = NoBuffer
    <3>1. s[1] \in Threads /\ s[2] \in {"in", "out"}
      BY DEF ThreadSlots, Init
    <3> QED BY <3>1, <1>5 DEF Held
  <2> QED BY <2>1 DEF Held
<1>8. PlaceInv
  <2>1. \A n \in DOMAIN queue : \A i \in 1..Len(queue[n]) : n = "free" /\ i \in 1..BuffersInBufferpool
    BY <1>2
  <2>2. OnePlace(Buffers, queue, Held)
    BY <1>2, <1>7, <2>1, BufferFacts, SizesAssumption DEF OnePlace
  <2>3. ASSUME NEW b \in Buffers PROVE \E n \in DOMAIN queue : \E i \in 1..Len(queue[n]) : queue[n][i] = b
    <3>1. b + 1 \in 1..Len(queue["free"]) /\ queue["free"][b + 1] = b
      BY <1>2, SizesAssumption DEF Buffers
    <3> QED BY <1>2, <3>1
  <2> QED BY <2>2, <2>3 DEF PlaceInv, SomePlace
<1>9. RoomInv
  <2>1. FreeEmpty
    BY <1>2, SizesAssumption DEF FreeEmpty, Init, Buffers
  <2>2. ASSUME NEW t \in Threads PROVE RoomRight(t, pc[t], loc[t], content)
    <3>1. Stage(t) = "deser" => pc[t] \in {"pop", "popFirst", "popFree"}
      BY <1>5 DEF StartPC
    <3> QED BY <1>5, <3>1, BufferFacts DEF RoomRight
  <2> QED BY <2>1, <2>2 DEF RoomInv
<1>10. CursorInv
  <2> SUFFICES ASSUME NEW r \in Readers PROVE CursorRight(pc[r], cursor[r])
    BY DEF CursorInv
  <2>1. r \in Threads /\ Stage(r) = "read"
    BY ThreadFacts DEF Threads
  <2>2. cursor[r].pos = 0 /\ cursor[r].line = 0 /\ (Parquet => pc[r] = "popPart")
    BY <2>1, <1>5 DEF Init, StartPC, Parquet
  <2> QED BY <2>2, SizesAssumption DEF CursorRight
<1> QED BY <1>4, <1>6, <1>8, <1>9, <1>10 DEF PipelineInv

-----------------------------------------------------------------------------
QueueNames == {"free", "deser", "comp", "send"}

QueueTypes ==
  /\ DOMAIN queue = QueueNames
  /\ queue.free \in Seq(Buffers)
  /\ \A name \in {"deser", "comp", "send"} : queue[name] \in Seq(Buffers \cup {Sentinel})

\* What the queues hold.
LEMMA QueueElements ==
  ASSUME QueueTypes
  PROVE  /\ \A name \in QueueNames : queue[name] \in Seq(Int)
         /\ \A name \in QueueNames : name \in DOMAIN queue /\ queue[name] \in Seq(Buffers \cup {Sentinel})
         /\ queue["free"] \in Seq(Buffers) /\ queue["free"] = queue.free
<1>1. queue["free"] \in Seq(Buffers) /\ queue["free"] = queue.free
  BY DEF QueueTypes
<1>2. queue["free"] \in Seq(Buffers \cup {Sentinel})
  BY <1>1
<1>3. \A name \in QueueNames : name \in DOMAIN queue /\ queue[name] \in Seq(Buffers \cup {Sentinel})
  BY <1>1, <1>2 DEF QueueTypes, QueueNames
<1>4. Buffers \cup {Sentinel} \subseteq Int
  BY BufferFacts DEF Sentinel
<1>5. \A f \in Seq(Buffers \cup {Sentinel}) : f \in Seq(Int)
  BY <1>4
<1> QED BY <1>1, <1>3, <1>5

\* The variables of one thread are replaced by v.
LEMMA HeldUpdate ==
  ASSUME loc \in [Threads -> LocType], NEW t \in Threads, NEW v \in LocType,
         loc' = [loc EXCEPT ![t] = v]
  PROVE  /\ DOMAIN Held' = DOMAIN Held
         /\ <<t, "in">> \in DOMAIN Held /\ <<t, "out">> \in DOMAIN Held
         /\ Held[<<t, "in">>] = loc[t].in /\ Held[<<t, "out">>] = loc[t].out
         /\ \A s \in DOMAIN Held :
              Held'[s] = IF s = <<t, "in">> THEN v.in
                         ELSE IF s = <<t, "out">> THEN v.out ELSE Held[s]
<1>1. DOMAIN Held = Threads \X {"in", "out"} /\ DOMAIN Held' = Threads \X {"in", "out"}
  BY DEF Held, ThreadSlots
<1>2. <<t, "in">> \in Threads \X {"in", "out"} /\ <<t, "out">> \in Threads \X {"in", "out"}
  OBVIOUS
<1>3. \A s \in Threads \X {"in", "out"} : Held[s] = loc[s[1]][s[2]] /\ Held'[s] = loc'[s[1]][s[2]]
  BY DEF Held, ThreadSlots
<1>4. ASSUME NEW s \in Threads \X {"in", "out"}
      PROVE  Held'[s] = IF s = <<t, "in">> THEN v.in
                        ELSE IF s = <<t, "out">> THEN v.out ELSE Held[s]
  <2>1. s[1] \in Threads /\ s[2] \in {"in", "out"} /\ s = <<s[1], s[2]>>
    OBVIOUS
  <2>2. CASE s[1] = t
    <3>1. loc'[s[1]] = v
      BY <2>2
    <3>2. CASE s[2] = "in"
      BY <1>3, <2>1, <2>2, <3>1, <3>2
    <3>3. CASE s[2] = "out"
      BY <1>3, <2>1, <2>2, <3>1, <3>3
    <3> QED BY <2>1, <3>2, <3>3
  <2>3. CASE s[1] # t
    BY <1>3, <2>1, <2>3
  <2> QED BY <2>2, <2>3
<1> QED BY <1>1, <1>2, <1>3, <1>4

\* A pop into a variable that holds nothing.
LEMMA TakeKeeps ==
  ASSUME QueueTypes, PlaceInv, NEW name \in QueueNames, Take(name), NEW s, NEW x,
         x = Front(name) \/ (Front(name) = Sentinel /\ x = NoBuffer), Held[s] = NoBuffer,
         Assigned(Held, s, x, Held')
  PROVE  PlaceInv' /\ QueueTypes'
<1>1. /\ name \in DOMAIN queue /\ queue[name] \in Seq(Buffers \cup {Sentinel})
      /\ queue[name] # <<>> /\ queue' = [queue EXCEPT ![name] = Tail(@)]
      /\ Popped(queue, name, queue')
  BY QueueElements DEF Take, Popped
<1>2. QueueTypes'
  <2>1. CASE name = "free"
    BY <2>1, <1>1, QueueElements, TailElements DEF QueueTypes, QueueNames
  <2>2. CASE name # "free"
    BY <2>2, <1>1, QueueElements, TailElements DEF QueueTypes, QueueNames
  <2> QED BY <2>1, <2>2
<1>3. OnePlace(Buffers, queue, Held) /\ SomePlace(Buffers, queue, Held)
  BY DEF PlaceInv
<1>4. (x = Head(queue[name]) \/ x \notin Buffers) /\ (x = Head(queue[name]) \/ Head(queue[name]) \notin Buffers)
      /\ Held[s] \notin Buffers
  BY BufferFacts DEF Front
<1>5. OnePlace(Buffers, queue', Held')
  BY <1>1, <1>3, <1>4, PopKeepsOne
<1>6. SomePlace(Buffers, queue', Held')
  BY <1>1, <1>3, <1>4, PopKeepsSome
<1> QED BY <1>2, <1>5, <1>6 DEF PlaceInv

\* A sentinel popped.
LEMMA TakeStopKeeps ==
  ASSUME QueueTypes, PlaceInv, NEW name \in QueueNames, Take(name), Front(name) = Sentinel, Held' = Held
  PROVE  PlaceInv' /\ QueueTypes'
<1>1. /\ name \in DOMAIN queue /\ queue[name] \in Seq(Buffers \cup {Sentinel})
      /\ queue[name] # <<>> /\ queue' = [queue EXCEPT ![name] = Tail(@)]
      /\ Popped(queue, name, queue')
  BY QueueElements DEF Take, Popped
<1>2. QueueTypes'
  <2>1. CASE name = "free"
    BY <2>1, <1>1, QueueElements, TailElements DEF QueueTypes, QueueNames
  <2>2. CASE name # "free"
    BY <2>2, <1>1, QueueElements, TailElements DEF QueueTypes, QueueNames
  <2> QED BY <2>1, <2>2
<1>3. OnePlace(Buffers, queue, Held) /\ SomePlace(Buffers, queue, Held) /\ Head(queue[name]) \notin Buffers
  BY BufferFacts DEF PlaceInv, Front
<1>4. OnePlace(Buffers, queue', Held) /\ SomePlace(Buffers, queue', Held)
  BY <1>1, <1>3, PopSentinelKeeps
<1> QED BY <1>2, <1>4 DEF PlaceInv

\* The queues after a push of b, a sentinel only into a queue between stages.
LEMMA PutTypes ==
  ASSUME QueueTypes, NEW name \in QueueNames, NEW b \in Buffers \cup {Sentinel},
         b \in Buffers \/ name # "free", Put(name, b)
  PROVE  QueueTypes' /\ Pushed(queue, name, b, queue')
<1>1. /\ name \in DOMAIN queue /\ queue[name] \in Seq(Buffers \cup {Sentinel})
      /\ queue' = [queue EXCEPT ![name] = Append(@, b)]
  BY QueueElements DEF Put
<1>2. ASSUME name = "free" PROVE QueueTypes'
  BY <1>1, <1>2, QueueElements, AppendElements DEF QueueTypes, QueueNames
<1>3. ASSUME name # "free" PROVE QueueTypes'
  BY <1>1, <1>3, QueueElements, AppendElements DEF QueueTypes, QueueNames
<1>4. Pushed(queue, name, b, queue')
  BY <1>1, QueueElements, BufferFacts DEF Pushed, Sentinel
<1> QED BY <1>2, <1>3, <1>4

\* A push from a variable that holds nothing afterwards.
LEMMA PutKeeps ==
  ASSUME QueueTypes, PlaceInv, NEW name \in QueueNames, NEW s, Held[s] \in Buffers,
         Put(name, Held[s]), Assigned(Held, s, NoBuffer, Held')
  PROVE  PlaceInv' /\ QueueTypes'
<1>1. QueueTypes' /\ Pushed(queue, name, Held[s], queue')
  BY PutTypes
<1>2. OnePlace(Buffers, queue, Held) /\ SomePlace(Buffers, queue, Held) /\ NoBuffer \notin Buffers
  BY BufferFacts DEF PlaceInv
<1>3. OnePlace(Buffers, queue', Held')
  BY <1>1, <1>2, PushKeepsOne
<1>4. SomePlace(Buffers, queue', Held')
  BY <1>1, <1>2, PushKeepsSome
<1> QED BY <1>1, <1>3, <1>4 DEF PlaceInv

\* A sentinel pushed.
LEMMA PutStopKeeps ==
  ASSUME QueueTypes, PlaceInv, NEW name \in QueueNames, name # "free", Put(name, Sentinel), Held' = Held
  PROVE  PlaceInv' /\ QueueTypes'
<1>1. QueueTypes' /\ Pushed(queue, name, Sentinel, queue')
  BY PutTypes
<1>2. OnePlace(Buffers, queue, Held) /\ SomePlace(Buffers, queue, Held) /\ Sentinel \notin Buffers
  BY BufferFacts DEF PlaceInv
<1>3. OnePlace(Buffers, queue', Held) /\ SomePlace(Buffers, queue', Held)
  BY <1>1, <1>2, PushSentinelKeeps
<1> QED BY <1>1, <1>3 DEF PlaceInv

\* A push of the one buffer of a thread, whose other buffer takes its place.
LEMMA SwapKeeps ==
  ASSUME QueueTypes, PlaceInv, NEW name \in QueueNames, NEW r, NEW s,
         Held[s] \in Buffers, Put(name, Held[s]), Moved(Held, r, s, NoBuffer, Held')
  PROVE  PlaceInv' /\ QueueTypes'
<1>1. QueueTypes' /\ Pushed(queue, name, Held[s], queue')
  BY PutTypes
<1>2. OnePlace(Buffers, queue, Held) /\ SomePlace(Buffers, queue, Held) /\ NoBuffer \notin Buffers
  BY BufferFacts DEF PlaceInv
<1> DEFINE h == [u \in DOMAIN Held |-> IF u = s THEN NoBuffer ELSE Held[u]]
<1>3. Assigned(Held, s, NoBuffer, h)
  BY DEF Assigned, Moved
<1> HIDE DEF h
<1>4. OnePlace(Buffers, queue', h)
  BY <1>1, <1>2, <1>3, PushKeepsOne
<1>5. SomePlace(Buffers, queue', h)
  BY <1>1, <1>2, <1>3, PushKeepsSome
<1>6. h[s] \notin Buffers /\ Moved(h, r, s, NoBuffer, Held')
  BY <1>2, <1>3 DEF Assigned, Moved
<1>7. OnePlace(Buffers, queue', Held') /\ SomePlace(Buffers, queue', Held')
  BY <1>2, <1>3, <1>4, <1>5, <1>6, MoveKeeps
<1> QED BY <1>1, <1>7 DEF PlaceInv

-----------------------------------------------------------------------------
\* What threads hold, they hold alone.
LEMMA HeldApart ==
  ASSUME loc \in [Threads -> LocType], QueueTypes, PlaceInv, NEW t \in Threads
  PROVE  /\ loc[t].in \in Buffers => loc[t].in # loc[t].out
         /\ \A u \in Threads : u # t =>
              /\ loc[u].in \in Buffers => loc[u].in # loc[t].in /\ loc[u].in # loc[t].out
              /\ loc[u].out \in Buffers => loc[u].out # loc[t].in /\ loc[u].out # loc[t].out
         /\ \A i \in 1..Len(queue.free) : /\ queue.free[i] \in Buffers
                                          /\ queue.free[i] # loc[t].in /\ queue.free[i] # loc[t].out
<1>1. \A u \in Threads : /\ <<u, "in">> \in DOMAIN Held /\ <<u, "out">> \in DOMAIN Held
                         /\ Held[<<u, "in">>] = loc[u].in /\ Held[<<u, "out">>] = loc[u].out
  BY DEF Held, ThreadSlots
<1>2. \A r, s \in DOMAIN Held : Held[r] \in Buffers /\ Held[r] = Held[s] => r = s
  BY DEF PlaceInv, OnePlace
<1>3. loc[t].in \in Buffers => loc[t].in # loc[t].out
  BY <1>1, <1>2
<1>4. ASSUME NEW u \in Threads, u # t
      PROVE  /\ loc[u].in \in Buffers => loc[u].in # loc[t].in /\ loc[u].in # loc[t].out
             /\ loc[u].out \in Buffers => loc[u].out # loc[t].in /\ loc[u].out # loc[t].out
  BY <1>1, <1>2, <1>4
<1>5. ASSUME NEW i \in 1..Len(queue.free)
      PROVE  queue.free[i] \in Buffers /\ queue.free[i] # loc[t].in /\ queue.free[i] # loc[t].out
  <2>1. "free" \in DOMAIN queue /\ queue["free"] = queue.free /\ queue["free"] \in Seq(Buffers)
    BY QueueElements DEF QueueNames
  <2>2. queue.free[i] \in Buffers
    BY <2>1
  <2>3. \A s \in DOMAIN Held : queue.free[i] # Held[s]
    BY <2>1, <2>2 DEF PlaceInv, OnePlace
  <2> QED BY <1>1, <2>2, <2>3
<1> QED BY <1>3, <1>4, <1>5

\* Thread t goes to s and its variables become v.
ThreadStep(t, s, v) ==
  /\ s \in PCs /\ v \in LocType
  /\ pc' = [pc EXCEPT ![t] = s] /\ loc' = [loc EXCEPT ![t] = v]

\* Thread t touches no buffer but its own.
OwnBuffersOnly(t) ==
  /\ content' \in [Buffers -> Seq(Rows)]
  /\ \A b \in Buffers : b # loc[t].in /\ b # loc[t].out => content'[b] = content[b]

RestTypes ==
  /\ finished \in [{"read", "deser", "comp"} -> Nat]
  /\ partPtr \in Seq((0..(PartNum - 1)) \cup {Sentinel})
  /\ sent \in [Rows -> Nat]
  /\ serve \in ServeStates
  /\ cursor \in [Readers -> CursorType]

\* A reader that goes to s is at a place its cursor allows.
CursorStep(t, s) ==
  /\ t \in Readers => s \in ReaderPCs /\ CursorRight(s, cursor'[t])
  /\ \A r \in Readers : r # t => cursor'[r] = cursor[r]

\* The type invariant, in the parts that the proofs use.
LEMMA TypeParts ==
  ASSUME FullTypes
  PROVE  /\ pc \in [Threads -> PCs] /\ loc \in [Threads -> LocType]
         /\ QueueTypes /\ content \in [Buffers -> Seq(Rows)] /\ RestTypes
BY DEF FullTypes, TypeOK, LocType, QueueTypes, QueueNames, RestTypes

\* The free queue holds empty buffers still, if it has lost one or has been given
\* one that is empty.
LEMMA FreeStep ==
  ASSUME PipelineInv, NEW t \in Threads, OwnBuffersOnly(t), QueueTypes',
         \/ queue'["free"] = queue["free"]
         \/ queue["free"] # <<>> /\ queue'["free"] = Tail(queue["free"])
         \/ \E b \in Buffers : queue'["free"] = Append(queue["free"], b) /\ content'[b] = <<>>
  PROVE  FreeEmpty'
<1>1. QueueTypes /\ PlaceInv /\ loc \in [Threads -> LocType] /\ FreeEmpty
  BY TypeParts DEF PipelineInv, RoomInv
<1>2. queue["free"] \in Seq(Buffers) /\ queue["free"] = queue.free /\ queue'["free"] = (queue').free
  BY <1>1, QueueElements
<1>3. \A i \in 1..Len(queue["free"]) : content'[queue["free"][i]] = <<>>
  BY <1>1, <1>2, HeldApart DEF FreeEmpty, OwnBuffersOnly
<1>4. CASE queue'["free"] = queue["free"]
  BY <1>2, <1>3, <1>4 DEF FreeEmpty
<1>5. CASE queue["free"] # <<>> /\ queue'["free"] = Tail(queue["free"])
  <2>1. \A i \in 1..Len(Tail(queue["free"])) :
          Tail(queue["free"])[i] = queue["free"][i+1] /\ i+1 \in 1..Len(queue["free"])
    BY <1>2, <1>5, TailElements
  <2> QED BY <1>2, <1>3, <1>5, <2>1 DEF FreeEmpty
<1>6. ASSUME NEW b \in Buffers, queue'["free"] = Append(queue["free"], b), content'[b] = <<>>
      PROVE  FreeEmpty'
  <2>1. /\ Len(queue["free"]) \in Nat /\ Len(Append(queue["free"], b)) = Len(queue["free"]) + 1
        /\ \A i \in 1..Len(Append(queue["free"], b)) :
             Append(queue["free"], b)[i] = IF i = Len(queue["free"]) + 1 THEN b ELSE queue["free"][i]
    BY <1>2, AppendElements
  <2> QED BY <1>2, <1>3, <1>6, <2>1 DEF FreeEmpty
<1> QED BY <1>4, <1>5, <1>6

\* A step of one thread preserves the invariant if the thread is left with what it
\* should hold, and the buffers are in their places.
LEMMA Combine ==
  ASSUME PipelineInv, NEW t \in Threads, NEW s, NEW v, ThreadStep(t, s, v), OwnBuffersOnly(t),
         HoldsRight(t, s, v), RoomRight(t, s, v, content'), FreeEmpty', PlaceInv', QueueTypes',
         RestTypes', CursorStep(t, s)
  PROVE  PipelineInv'
<1>1. /\ pc \in [Threads -> PCs] /\ loc \in [Threads -> LocType]
      /\ QueueTypes /\ content \in [Buffers -> Seq(Rows)] /\ PlaceInv /\ HoldInv /\ RoomInv /\ CursorInv
      /\ \A r \in Readers : pc[r] \in ReaderPCs
  BY TypeParts DEF PipelineInv, FullTypes
<1>2. /\ pc' \in [Threads -> PCs] /\ loc' \in [Threads -> LocType]
      /\ pc'[t] = s /\ loc'[t] = v
      /\ \A u \in Threads : u # t => pc'[u] = pc[u] /\ loc'[u] = loc[u]
  BY <1>1 DEF ThreadStep
<1>3. FullTypes'
  <2>1. TypeOK'
    BY <1>2 DEF TypeOK, LocType, QueueTypes, QueueNames, RestTypes, OwnBuffersOnly
  <2>2. \A r \in Readers : r \in Threads
    BY DEF Threads
  <2>3. ASSUME NEW r \in Readers PROVE pc'[r] \in ReaderPCs
    BY <1>1, <1>2, <2>2 DEF CursorStep
  <2> QED BY <2>1, <2>3 DEF FullTypes, RestTypes
<1>4. HoldInv'
  <2> SUFFICES ASSUME NEW u \in Threads PROVE HoldsRight(u, pc'[u], loc'[u])
    BY DEF HoldInv, HoldsRight
  <2>1. CASE u = t
    BY <1>2, <2>1
  <2>2. CASE u # t
    BY <1>1, <1>2, <2>2 DEF HoldInv
  <2> QED BY <2>1, <2>2
<1>5. RoomInv'
  <2> SUFFICES ASSUME NEW u \in Threads PROVE RoomRight(u, pc'[u], loc'[u], content')
    BY DEF RoomInv, RoomRight
  <2>1. CASE u = t
    BY <1>2, <2>1
  <2>2. CASE u # t
    <3>1. /\ loc[u].in \in Buffers => content'[loc[u].in] = content[loc[u].in]
          /\ loc[u].out \in Buffers => content'[loc[u].out] = content[loc[u].out]
      BY <1>1, <2>2, HeldApart DEF OwnBuffersOnly
    <3>2. RoomRight(u, pc[u], loc[u], content) /\ HoldsRight(u, pc[u], loc[u])
      BY <1>1 DEF RoomInv, HoldInv
    <3>3. Stage(u) = "deser" /\ pc[u] \in {"deserialize", "pushFull", "refill", "release"} => loc[u].in \in Buffers
      BY <3>2 DEF HoldsRight, InFull
    <3>4. pc'[u] = pc[u] /\ loc'[u] = loc[u]
      BY <1>2, <2>2
    <3> QED BY <3>1, <3>2, <3>3, <3>4 DEF RoomRight
  <2> QED BY <2>1, <2>2
<1>6. CursorInv'
  <2> SUFFICES ASSUME NEW r \in Readers PROVE CursorRight(pc'[r], cursor'[r])
    BY DEF CursorInv, CursorRight
  <2>1. r \in Threads
    BY DEF Threads
  <2>2. CASE r = t
    BY <1>2, <2>2 DEF CursorStep
  <2>3. CASE r # t
    BY <1>1, <1>2, <2>1, <2>3 DEF CursorStep, CursorInv
  <2> QED BY <2>2, <2>3
<1> QED BY <1>3, <1>4, <1>5, <1>6 DEF PipelineInv

-----------------------------------------------------------------------------
\* The parts of the invariant that a step of thread t starts from.
LEMMA StepFacts ==
  ASSUME PipelineInv, NEW t \in Threads
  PROVE  /\ pc \in [Threads -> PCs] /\ loc \in [Threads -> LocType] /\ loc[t] \in LocType
         /\ QueueTypes /\ PlaceInv /\ content \in [Buffers -> Seq(Rows)] /\ RestTypes
         /\ HoldsRight(t, pc[t], loc[t]) /\ RoomRight(t, pc[t], loc[t], content)
         /\ t \in Readers => /\ pc[t] \in ReaderPCs /\ CursorRight(pc[t], cursor[t])
                             /\ cursor[t] \in CursorType
BY TypeParts DEF PipelineInv, FullTypes, HoldInv, RoomInv, CursorInv, RestTypes

\* Nothing is asked of what a thread at s holds.
Plain == {"fetchAdd", "load", "done", "failed", "undefined"}

\* Such a thread holds what it should.
LEMMA PlainHolds ==
  ASSUME NEW t \in Threads, NEW s \in Plain, NEW v
  PROVE  HoldsRight(t, s, v) /\ s \in PCs
BY ThreadFacts DEF HoldsRight, Plain, InFull, InEmpty, OutFull, OutEmpty, PCs

\* A thread that does not move its cursor goes anywhere but to the places where the
\* cursor matters.
LEMMA CursorSame ==
  ASSUME PipelineInv, NEW t \in Threads, NEW s, cursor' = cursor,
         t \in Readers => s \in ReaderPCs /\ s \notin {"popFree", "popPart", "readFile"}
  PROVE  CursorStep(t, s)
BY StepFacts DEF CursorStep, CursorRight

\* Counters, partitions and the main thread keep their types if nothing touches them.
LEMMA RestSame ==
  ASSUME PipelineInv, UNCHANGED <<finished, partPtr, cursor, sent, serve>>
  PROVE  RestTypes'
BY TypeParts DEF PipelineInv, RestTypes

\* A step that leaves variables, queues and buffers alone.
LEMMA QuietStep ==
  ASSUME PipelineInv, NEW t \in Threads, NEW s \in PCs, Goto(t, s), UNCHANGED <<loc, queue, content>>,
         HoldsRight(t, s, loc[t]), RoomRight(t, s, loc[t], content), RestTypes', CursorStep(t, s)
  PROVE  PipelineInv'
<1>1. /\ loc \in [Threads -> LocType] /\ loc[t] \in LocType /\ QueueTypes /\ PlaceInv /\ FreeEmpty
      /\ content \in [Buffers -> Seq(Rows)]
  BY StepFacts DEF PipelineInv, RoomInv
<1>2. ThreadStep(t, s, loc[t])
  BY <1>1 DEF ThreadStep, Goto
<1>3. OwnBuffersOnly(t)
  BY <1>1 DEF OwnBuffersOnly
<1>4. FreeEmpty' /\ QueueTypes'
  BY <1>1 DEF FreeEmpty, QueueTypes
<1>5. Held' = Held
  BY DEF Held, ThreadSlots
<1>6. PlaceInv'
  BY <1>1, <1>5 DEF PlaceInv
<1>7. RoomRight(t, s, loc[t], content')
  OBVIOUS
<1> QED BY <1>2, <1>3, <1>4, <1>6, <1>7, Combine

\* A change of the counters of a thread.
LEMMA HeldSame ==
  ASSUME PipelineInv, NEW t \in Threads, NEW v \in LocType, loc' = [loc EXCEPT ![t] = v],
         v.in = loc[t].in, v.out = loc[t].out
  PROVE  Held' = Held
<1>1. loc \in [Threads -> LocType]
  BY StepFacts
<1>2. /\ DOMAIN Held' = DOMAIN Held
      /\ \A s \in DOMAIN Held : Held'[s] = Held[s]
  BY <1>1, HeldUpdate
<1>3. Held = [s \in DOMAIN Held |-> Held[s]] /\ Held' = [s \in DOMAIN Held' |-> Held'[s]]
  BY DEF Held
<1> QED BY <1>2, <1>3

\* The variables of a thread with new values for one of them.
LEMMA LocUpdate ==
  ASSUME NEW w \in LocType
  PROVE  /\ \A n \in Nat :
              LET v == [w EXCEPT !.left = n]
              IN  v \in LocType /\ v.in = w.in /\ v.out = w.out /\ v.off = w.off /\ v.left = n
         /\ \A n \in Nat :
              LET v == [w EXCEPT !.off = n]
              IN  v \in LocType /\ v.in = w.in /\ v.out = w.out /\ v.off = n /\ v.left = w.left
         /\ \A b \in Buffers \cup {NoBuffer} :
              LET v == [w EXCEPT !.in = b]
              IN  v \in LocType /\ v.in = b /\ v.out = w.out /\ v.off = w.off /\ v.left = w.left
         /\ \A b \in Buffers \cup {NoBuffer} :
              LET v == [w EXCEPT !.out = b]
              IN  v \in LocType /\ v.in = w.in /\ v.out = b /\ v.off = w.off /\ v.left = w.left
BY DEF LocType

\* fetch_add, the second look at the counter, and the sentinels.
LEMMA FinishStep ==
  ASSUME PipelineInv, NEW t \in Threads, Stage(t) \in {"read", "deser", "comp"}, Finish(t)
  PROVE  PipelineInv'
<1>0. /\ loc \in [Threads -> LocType] /\ loc[t] \in LocType /\ QueueTypes /\ PlaceInv /\ RestTypes
      /\ content \in [Buffers -> Seq(Rows)]
      /\ HoldsRight(t, pc[t], loc[t]) /\ RoomRight(t, pc[t], loc[t], content)
  BY StepFacts
<1>1. CASE FetchAdd(t)
  <2>1. Goto(t, "load") /\ UNCHANGED <<loc, queue, content>> /\ cursor' = cursor
    BY <1>1 DEF FetchAdd
  <2>2. "load" \in PCs /\ HoldsRight(t, "load", loc[t])
    BY PlainHolds DEF Plain
  <2>3. RoomRight(t, "load", loc[t], content)
    BY <1>0 DEF RoomRight
  <2>4. RestTypes'
    BY <1>0, <1>1 DEF FetchAdd, RestTypes
  <2>5. CursorStep(t, "load")
    BY <2>1, CursorSame DEF ReaderPCs
  <2> QED BY <2>1, <2>2, <2>3, <2>4, <2>5, QuietStep
<1>2. CASE LoadFinished(t) /\ finished[Stage(t)] # Parallelism[Stage(t)]
  <2>1. Goto(t, "done") /\ UNCHANGED <<loc, queue, content>> /\ UNCHANGED <<finished, partPtr, cursor, sent, serve>>
    BY <1>2 DEF LoadFinished
  <2>2. "done" \in PCs /\ HoldsRight(t, "done", loc[t])
    BY PlainHolds DEF Plain
  <2>3. RoomRight(t, "done", loc[t], content)
    BY <1>0 DEF RoomRight
  <2>4. RestTypes'
    BY <2>1, RestSame
  <2>5. CursorStep(t, "done")
    BY <2>1, CursorSame DEF ReaderPCs
  <2> QED BY <2>1, <2>2, <2>3, <2>4, <2>5, QuietStep
<1>3. CASE LoadFinished(t) /\ finished[Stage(t)] = Parallelism[Stage(t)]
  <2> DEFINE v == [loc[t] EXCEPT !.left = Parallelism[NextStage[Stage(t)]]]
  <2>1. /\ pc' = [pc EXCEPT ![t] = "signal"] /\ loc' = [loc EXCEPT ![t] = v]
        /\ UNCHANGED <<queue, content>> /\ UNCHANGED <<finished, partPtr, cursor, sent, serve>>
    BY <1>0, <1>3 DEF LoadFinished, Goto
  <2>2. v \in LocType /\ v.in = loc[t].in /\ v.out = loc[t].out /\ v.left > 0
    <3>1. Parallelism[NextStage[Stage(t)]] \in Nat \ {0}
      BY ThreadFacts
    <3> QED BY <1>0, <3>1, LocUpdate
  <2> HIDE DEF v
  <2>3. ThreadStep(t, "signal", v)
    BY <2>1, <2>2 DEF ThreadStep, PCs
  <2>4. HoldsRight(t, "signal", v)
    BY <2>2, ThreadFacts DEF HoldsRight, InFull, InEmpty, OutFull, OutEmpty
  <2>5. RoomRight(t, "signal", v, content')
    BY <1>0, <2>1, <2>2 DEF RoomRight
  <2>6. PlaceInv' /\ QueueTypes'
    BY <1>0, <2>1, <2>2, HeldSame DEF PlaceInv, QueueTypes
  <2>7. OwnBuffersOnly(t) /\ FreeEmpty'
    BY <1>0, <2>1 DEF OwnBuffersOnly, FreeEmpty, PipelineInv, RoomInv
  <2>8. RestTypes'
    BY <2>1, RestSame
  <2>9. CursorStep(t, "signal")
    BY <2>1, CursorSame DEF ReaderPCs
  <2> QED BY <2>3, <2>4, <2>5, <2>6, <2>7, <2>8, <2>9, Combine
<1>4. CASE PushSentinel(t)
  <2> DEFINE v == [loc[t] EXCEPT !.left = @ - 1]
             s == IF loc[t].left = 1 THEN "done" ELSE "signal"
             next == NextStage[Stage(t)]
  <2>1. /\ pc' = [pc EXCEPT ![t] = s] /\ loc' = [loc EXCEPT ![t] = v] /\ Put(next, Sentinel)
        /\ content' = content /\ UNCHANGED <<finished, partPtr, cursor, sent, serve>>
        /\ pc[t] = "signal"
    BY <1>0, <1>4 DEF PushSentinel, Goto
  <2>2. loc[t].left \in Nat /\ loc[t].left > 0
    BY <1>0, <2>1 DEF LocType, HoldsRight
  <2>3. v \in LocType /\ v.in = loc[t].in /\ v.out = loc[t].out /\ v.left = loc[t].left - 1
    <3>1. loc[t].left - 1 \in Nat
      BY <2>2
    <3> QED BY <1>0, <3>1, LocUpdate
  <2>4. s \in {"done", "signal"} /\ (s = "signal" => v.left > 0)
    BY <2>2, <2>3
  <2>5. next \in QueueNames /\ next # "free"
    BY ThreadFacts DEF QueueNames
  <2> HIDE DEF v, s, next
  <2>6. ThreadStep(t, s, v)
    BY <2>1, <2>3, <2>4 DEF ThreadStep, PCs
  <2>7. HoldsRight(t, s, v)
    BY <2>4, ThreadFacts DEF HoldsRight, InFull, InEmpty, OutFull, OutEmpty
  <2>8. RoomRight(t, s, v, content')
    BY <1>0, <2>1, <2>3, <2>4 DEF RoomRight
  <2>9. Held' = Held
    BY <2>1, <2>3, HeldSame
  <2>10. PlaceInv' /\ QueueTypes'
    BY <1>0, <2>1, <2>5, <2>9, PutStopKeeps
  <2>11. OwnBuffersOnly(t)
    BY <1>0, <2>1 DEF OwnBuffersOnly
  <2>12. queue'["free"] = queue["free"]
    BY <2>1, <2>5 DEF Put
  <2>13. FreeEmpty'
    BY <2>10, <2>11, <2>12, FreeStep
  <2>14. RestTypes'
    BY <2>1, RestSame
  <2>15. CursorStep(t, s)
    BY <2>1, <2>4, CursorSame DEF ReaderPCs
  <2> QED BY <2>6, <2>7, <2>8, <2>10, <2>11, <2>13, <2>14, <2>15, Combine
<1> QED BY <1>1, <1>2, <1>3, <1>4 DEF Finish, LoadFinished

-----------------------------------------------------------------------------
\* A pop into the variable in of a thread.
LEMMA TakeIn ==
  ASSUME PipelineInv, NEW t \in Threads, NEW v \in LocType, loc' = [loc EXCEPT ![t] = v],
         NEW name \in QueueNames, Take(name), loc[t].in = NoBuffer, v.out = loc[t].out,
         v.in = Front(name) \/ (Front(name) = Sentinel /\ v.in = NoBuffer)
  PROVE  PlaceInv' /\ QueueTypes'
<1>1. loc \in [Threads -> LocType] /\ QueueTypes /\ PlaceInv
  BY StepFacts
<1>2. Assigned(Held, <<t, "in">>, v.in, Held') /\ Held[<<t, "in">>] = NoBuffer
  BY <1>1, HeldUpdate DEF Assigned
<1> QED BY <1>1, <1>2, TakeKeeps

\* A pop from the free queue into the variable out of a thread.
LEMMA TakeOut ==
  ASSUME PipelineInv, NEW t \in Threads, NEW v \in LocType, loc' = [loc EXCEPT ![t] = v],
         Take("free"), loc[t].out = NoBuffer, v.in = loc[t].in, v.out = Front("free")
  PROVE  PlaceInv' /\ QueueTypes'
<1>1. loc \in [Threads -> LocType] /\ QueueTypes /\ PlaceInv
  BY StepFacts
<1>2. Assigned(Held, <<t, "out">>, v.out, Held') /\ Held[<<t, "out">>] = NoBuffer
  BY <1>1, HeldUpdate DEF Assigned
<1> QED BY <1>1, <1>2, TakeKeeps DEF QueueNames

\* A push of what a thread has in its variable in.
LEMMA PutIn ==
  ASSUME PipelineInv, NEW t \in Threads, NEW v \in LocType, loc' = [loc EXCEPT ![t] = v],
         NEW name \in QueueNames, loc[t].in \in Buffers, Put(name, loc[t].in),
         v.in = NoBuffer, v.out = loc[t].out
  PROVE  PlaceInv' /\ QueueTypes'
<1>1. loc \in [Threads -> LocType] /\ QueueTypes /\ PlaceInv
  BY StepFacts
<1>2. Assigned(Held, <<t, "in">>, NoBuffer, Held') /\ Held[<<t, "in">>] = loc[t].in
  BY <1>1, HeldUpdate DEF Assigned
<1> QED BY <1>1, <1>2, PutKeeps

\* A push of what a thread has in its variable out.
LEMMA PutOut ==
  ASSUME PipelineInv, NEW t \in Threads, NEW v \in LocType, loc' = [loc EXCEPT ![t] = v],
         NEW name \in QueueNames, loc[t].out \in Buffers, Put(name, loc[t].out),
         v.in = loc[t].in, v.out = NoBuffer
  PROVE  PlaceInv' /\ QueueTypes'
<1>1. loc \in [Threads -> LocType] /\ QueueTypes /\ PlaceInv
  BY StepFacts
<1>2. Assigned(Held, <<t, "out">>, NoBuffer, Held') /\ Held[<<t, "out">>] = loc[t].out
  BY <1>1, HeldUpdate DEF Assigned
<1> QED BY <1>1, <1>2, PutKeeps

\* What is at the head of a queue.
LEMMA FrontType ==
  ASSUME PipelineInv, NEW name \in QueueNames, Take(name)
  PROVE  /\ Front(name) \in Buffers \cup {Sentinel}
         /\ name = "free" => Front(name) \in Buffers /\ content[Front(name)] = <<>>
<1>1. QueueTypes /\ FreeEmpty
  BY TypeParts DEF PipelineInv, RoomInv
<1>2. queue[name] \in Seq(Buffers \cup {Sentinel}) /\ queue[name] # <<>>
      /\ queue["free"] = queue.free /\ queue["free"] \in Seq(Buffers)
  BY <1>1, QueueElements DEF Take
<1>3. Front(name) \in Buffers \cup {Sentinel}
  BY <1>2, TailElements DEF Front
<1>4. ASSUME name = "free" PROVE Front(name) \in Buffers /\ content[Front(name)] = <<>>
  <2>1. Front(name) \in Buffers /\ Front(name) = queue.free[1] /\ 1 \in 1..Len(queue.free)
    BY <1>2, <1>4, TailElements DEF Front
  <2> QED BY <1>1, <2>1 DEF FreeEmpty
<1> QED BY <1>3, <1>4

-----------------------------------------------------------------------------
\* The variables of a thread that has taken a free buffer, which is empty.
LEMMA FreeTaken ==
  ASSUME PipelineInv, NEW t \in Threads, NEW from, NEW to, PopFree(t, from, to),
         NEW v, v = [loc[t] EXCEPT !.out = Front("free")]
  PROVE  /\ v \in LocType /\ v.in = loc[t].in /\ v.off = loc[t].off /\ v.out = Front("free")
         /\ v.out \in Buffers /\ content[v.out] = <<>> /\ pc[t] = from /\ cursor' = cursor
<1>1. Front("free") \in Buffers /\ content[Front("free")] = <<>>
  BY FrontType DEF QueueNames, PopFree
<1>2. v \in LocType /\ v.in = loc[t].in /\ v.off = loc[t].off /\ v.out = Front("free")
  BY <1>1, StepFacts, LocUpdate
<1> QED BY <1>1, <1>2 DEF PopFree

\* A free buffer is taken.
LEMMA PopFreeStep ==
  ASSUME PipelineInv, NEW t \in Threads, NEW from, NEW to \in PCs, PopFree(t, from, to),
         loc[t].out = NoBuffer, CursorStep(t, to),
         NEW v, v = [loc[t] EXCEPT !.out = Front("free")], HoldsRight(t, to, v), RoomRight(t, to, v, content)
  PROVE  PipelineInv'
<1>1. /\ pc' = [pc EXCEPT ![t] = to] /\ loc' = [loc EXCEPT ![t] = v] /\ Take("free")
      /\ content' = content /\ UNCHANGED <<finished, partPtr, cursor, sent, serve>>
  BY StepFacts DEF PopFree, Goto
<1>2. v \in LocType /\ v.in = loc[t].in /\ v.out = Front("free")
  BY FreeTaken
<1>4. ThreadStep(t, to, v)
  BY <1>1, <1>2 DEF ThreadStep
<1>5. HoldsRight(t, to, v) /\ RoomRight(t, to, v, content')
  BY <1>1
<1>6. PlaceInv' /\ QueueTypes'
  BY <1>1, <1>2, TakeOut
<1>7. OwnBuffersOnly(t)
  BY <1>1, StepFacts DEF OwnBuffersOnly
<1>8. queue["free"] # <<>> /\ queue'["free"] = Tail(queue["free"])
  <2>1. "free" \in DOMAIN queue
    BY StepFacts DEF QueueTypes, QueueNames
  <2> QED BY <1>1, <2>1 DEF Take
<1>9. FreeEmpty'
  BY <1>6, <1>7, <1>8, FreeStep
<1>10. RestTypes'
  BY <1>1, RestSame
<1> QED BY <1>4, <1>5, <1>6, <1>7, <1>9, <1>10, Combine

\* The buffer written is handed on.
LEMMA PushOutStep ==
  ASSUME PipelineInv, NEW t \in Threads, Stage(t) \in {"read", "deser", "comp"},
         NEW from, NEW to \in PCs, PushOut(t, from, to), loc[t].out \in Buffers, CursorStep(t, to),
         NEW v, v = [loc[t] EXCEPT !.out = NoBuffer], HoldsRight(t, to, v), RoomRight(t, to, v, content)
  PROVE  PipelineInv'
<1> DEFINE next == NextStage[Stage(t)]
<1>1. /\ pc' = [pc EXCEPT ![t] = to] /\ loc' = [loc EXCEPT ![t] = v] /\ Put(next, loc[t].out)
      /\ content' = content /\ UNCHANGED <<finished, partPtr, cursor, sent, serve>>
  BY StepFacts DEF PushOut, Goto
<1>2. v \in LocType /\ v.in = loc[t].in /\ v.out = NoBuffer
  <2>1. loc[t] \in LocType /\ NoBuffer \in Buffers \cup {NoBuffer}
    BY StepFacts
  <2> QED BY <2>1, LocUpdate
<1>3. next \in QueueNames /\ next # "free"
  BY ThreadFacts DEF QueueNames
<1> HIDE DEF next
<1>4. ThreadStep(t, to, v)
  BY <1>1, <1>2 DEF ThreadStep
<1>5. PlaceInv' /\ QueueTypes'
  BY <1>1, <1>2, <1>3, PutOut
<1>6. OwnBuffersOnly(t)
  BY <1>1, StepFacts DEF OwnBuffersOnly
<1>7. queue'["free"] = queue["free"]
  BY <1>1, <1>3 DEF Put
<1>8. FreeEmpty'
  BY <1>5, <1>6, <1>7, FreeStep
<1>9. RestTypes'
  BY <1>1, RestSame
<1>10. RoomRight(t, to, v, content')
  BY <1>1
<1> QED BY <1>4, <1>5, <1>6, <1>8, <1>9, <1>10, Combine

\* A buffer is passed on unchanged.
LEMMA ForwardStep ==
  ASSUME PipelineInv, NEW t \in Threads, Stage(t) \in {"deser", "comp"}, Forward(t)
  PROVE  PipelineInv'
<1> DEFINE next == NextStage[Stage(t)]
           v == [loc[t] EXCEPT !.in = NoBuffer]
<1>1. /\ pc' = [pc EXCEPT ![t] = "pop"] /\ loc' = [loc EXCEPT ![t] = v] /\ Put(next, loc[t].in)
      /\ content' = content /\ UNCHANGED <<finished, partPtr, cursor, sent, serve>>
      /\ pc[t] = "forward"
  BY StepFacts DEF Forward, Goto
<1>2. v \in LocType /\ v.in = NoBuffer /\ v.out = loc[t].out /\ v.off = loc[t].off
  <2>1. loc[t] \in LocType /\ NoBuffer \in Buffers \cup {NoBuffer}
    BY StepFacts
  <2> QED BY <2>1, LocUpdate
<1>3. next \in QueueNames /\ next # "free"
  BY ThreadFacts DEF QueueNames
<1>4. loc[t].in \in Buffers /\ (Stage(t) = "comp" => loc[t].out = NoBuffer)
  BY <1>1, StepFacts DEF HoldsRight, InFull, OutEmpty
<1> HIDE DEF next, v
<1>5. ThreadStep(t, "pop", v)
  BY <1>1, <1>2 DEF ThreadStep, PCs
<1>6. PlaceInv' /\ QueueTypes'
  BY <1>1, <1>2, <1>3, <1>4, PutIn
<1>7. OwnBuffersOnly(t)
  BY <1>1, StepFacts DEF OwnBuffersOnly
<1>8. queue'["free"] = queue["free"]
  BY <1>1, <1>3 DEF Put
<1>9. FreeEmpty'
  BY <1>6, <1>7, <1>8, FreeStep
<1>10. RestTypes'
  BY <1>1, RestSame
<1>11. HoldsRight(t, "pop", v)
  BY <1>2, <1>4 DEF HoldsRight, InFull, InEmpty, OutFull, OutEmpty
<1>12. RoomRight(t, "pop", v, content')
  BY <1>1, <1>2, StepFacts DEF RoomRight
<1>13. CursorStep(t, "pop")
  BY <1>1, CursorSame, ThreadFacts
<1> QED BY <1>5, <1>6, <1>7, <1>9, <1>10, <1>11, <1>12, <1>13, Combine

\* The buffer read returns to the free queue, empty.
LEMMA ReleaseInStep ==
  ASSUME PipelineInv, NEW t \in Threads, Stage(t) \in {"deser", "comp", "send"},
         NEW to, to = IF Stage(t) = "deser" THEN "popNext" ELSE "pop", ReleaseIn(t, to)
  PROVE  PipelineInv'
<1> DEFINE w == [loc[t] EXCEPT !.in = NoBuffer]
           v == [w EXCEPT !.off = 0]
           b == loc[t].in
<1>0. /\ loc[t] \in LocType /\ loc \in [Threads -> LocType] /\ content \in [Buffers -> Seq(Rows)]
      /\ QueueTypes /\ PlaceInv
      /\ HoldsRight(t, pc[t], loc[t]) /\ RoomRight(t, pc[t], loc[t], content)
  BY StepFacts
<1>1. /\ pc' = [pc EXCEPT ![t] = to] /\ loc' = [loc EXCEPT ![t] = v] /\ Put("free", b)
      /\ content' = [content EXCEPT ![b] = <<>>] /\ UNCHANGED <<finished, partPtr, cursor, sent, serve>>
      /\ pc[t] = "release"
  BY <1>0 DEF ReleaseIn, Goto
<1>2. v \in LocType /\ v.in = NoBuffer /\ v.out = loc[t].out /\ v.off = 0
  <2>1. w \in LocType /\ w.in = NoBuffer /\ w.out = loc[t].out
    BY <1>0, LocUpdate
  <2> HIDE DEF w
  <2> QED BY <2>1, LocUpdate
<1>3. b \in Buffers /\ (Stage(t) = "comp" => loc[t].out = NoBuffer)
      /\ (Stage(t) = "deser" => loc[t].out \in Buffers)
  BY <1>0, <1>1 DEF HoldsRight, InFull, OutEmpty, OutFull
<1>4. b # loc[t].out
  BY <1>0, <1>3, HeldApart
<1> HIDE DEF v, w
<1>5. ThreadStep(t, to, v)
  BY <1>1, <1>2 DEF ThreadStep, PCs
<1>6. PlaceInv' /\ QueueTypes'
  BY <1>1, <1>2, <1>3, PutIn DEF QueueNames
<1>7. OwnBuffersOnly(t)
  <2>1. <<>> \in Seq(Rows)
    OBVIOUS
  <2>2. content' \in [Buffers -> Seq(Rows)]
    BY <1>0, <1>1, <2>1
  <2> QED BY <1>0, <1>1, <2>2 DEF OwnBuffersOnly
<1>8. queue'["free"] = Append(queue["free"], b) /\ content'[b] = <<>>
  <2>1. "free" \in DOMAIN queue
    BY <1>0 DEF QueueTypes, QueueNames
  <2> QED BY <1>0, <1>1, <1>3, <2>1 DEF Put
<1>9. FreeEmpty'
  BY <1>3, <1>6, <1>7, <1>8, FreeStep
<1>10. RestTypes'
  BY <1>1, RestSame
<1>11. HoldsRight(t, to, v)
  BY <1>2, <1>3 DEF HoldsRight, InFull, InEmpty, OutFull, OutEmpty
<1>12. RoomRight(t, to, v, content')
  BY <1>0, <1>1, <1>2, <1>4 DEF RoomRight
<1>13. CursorStep(t, to)
  BY <1>1, CursorSame, ThreadFacts
<1> QED BY <1>5, <1>6, <1>7, <1>9, <1>10, <1>11, <1>12, <1>13, Combine

\* A buffer or a sentinel is popped.
LEMMA PopInStep ==
  ASSUME PipelineInv, NEW t \in Threads, NEW to \in PCs, NEW end \in {"fetchAdd", "done"}, PopIn(t, to, end),
         \/ Stage(t) = "deser" /\ to = "forward"
         \/ Stage(t) = "comp" /\ to \in {"popFree", "forward"}
         \/ Stage(t) = "send" /\ to = "write"
  PROVE  PipelineInv'
<1> DEFINE name == Stage(t)
           v == [loc[t] EXCEPT !.in = Front(name)]
<1>0. /\ loc[t] \in LocType /\ loc \in [Threads -> LocType] /\ content \in [Buffers -> Seq(Rows)]
      /\ QueueTypes /\ PlaceInv
      /\ HoldsRight(t, pc[t], loc[t]) /\ RoomRight(t, pc[t], loc[t], content)
  BY StepFacts
<1>1. /\ pc[t] = "pop" /\ Take(name) /\ content' = content
      /\ UNCHANGED <<finished, partPtr, cursor, sent, serve>>
      /\ name \in QueueNames /\ name # "free"
  BY DEF PopIn, QueueNames
<1>2. loc[t].in = NoBuffer /\ (name = "comp" => loc[t].out = NoBuffer)
  BY <1>0, <1>1 DEF HoldsRight, InEmpty, OutEmpty
<1>3. OwnBuffersOnly(t) /\ RestTypes' /\ queue'["free"] = queue["free"]
  BY <1>0, <1>1, RestSame DEF OwnBuffersOnly, Take
<1>4. t \notin Readers
  BY ThreadFacts
<1>5. CASE Front(name) = Sentinel
  <2>1. pc' = [pc EXCEPT ![t] = end] /\ loc' = loc
    BY <1>5 DEF PopIn, Goto
  <2>2. Held' = Held
    BY <2>1 DEF Held, ThreadSlots
  <2>3. PlaceInv' /\ QueueTypes'
    BY <1>0, <1>1, <1>5, <2>2, TakeStopKeeps
  <2>4. ThreadStep(t, end, loc[t])
    BY <1>0, <2>1 DEF ThreadStep, PCs
  <2>5. HoldsRight(t, end, loc[t])
    BY PlainHolds DEF Plain
  <2>6. RoomRight(t, end, loc[t], content')
    BY <1>0, <1>1 DEF RoomRight
  <2>7. CursorStep(t, end)
    BY <1>1, <1>4, CursorSame
  <2>8. FreeEmpty'
    BY <1>3, <2>3, FreeStep
  <2> QED BY <1>3, <2>3, <2>4, <2>5, <2>6, <2>7, <2>8, Combine
<1>6. CASE Front(name) # Sentinel
  <2>1. pc' = [pc EXCEPT ![t] = to] /\ loc' = [loc EXCEPT ![t] = v]
    BY <1>0, <1>6 DEF PopIn, Goto
  <2>2. Front(name) \in Buffers
    BY <1>1, <1>6, FrontType
  <2>3. v \in LocType /\ v.in = Front(name) /\ v.out = loc[t].out
    BY <1>0, <2>2, LocUpdate
  <2> HIDE DEF v, name
  <2>4. PlaceInv' /\ QueueTypes'
    BY <1>1, <1>2, <2>1, <2>3, TakeIn
  <2>5. ThreadStep(t, to, v)
    BY <2>1, <2>3 DEF ThreadStep
  <2>6. HoldsRight(t, to, v)
    BY <1>2, <2>2, <2>3 DEF HoldsRight, InFull, InEmpty, OutFull, OutEmpty, name
  <2>7. RoomRight(t, to, v, content')
    BY <1>0, <1>1, <2>3 DEF RoomRight
  <2>8. CursorStep(t, to)
    BY <1>1, <1>4, CursorSame
  <2>9. FreeEmpty'
    BY <1>3, <2>4, FreeStep
  <2> QED BY <1>3, <2>4, <2>5, <2>6, <2>7, <2>8, <2>9, Combine
<1> QED BY <1>5, <1>6

\* A step of the main thread, or the end of the process.
LEMMA ServeChange ==
  ASSUME PipelineInv, serve' \in ServeStates,
         UNCHANGED <<pc, loc, queue, content, finished, partPtr, cursor, sent>>
  PROVE  PipelineInv'
<1>1. FullTypes'
  BY DEF PipelineInv, FullTypes, TypeOK
<1>2. HoldInv' /\ CursorInv'
  BY DEF PipelineInv, HoldInv, HoldsRight, CursorInv, CursorRight
<1>3. RoomInv'
  BY DEF PipelineInv, RoomInv, RoomRight, FreeEmpty
<1>4. Held' = Held
  BY DEF Held, ThreadSlots
<1>5. PlaceInv'
  BY <1>4 DEF PipelineInv, PlaceInv
<1> QED BY <1>1, <1>2, <1>3, <1>5 DEF PipelineInv

-----------------------------------------------------------------------------
\* readCSV cannot open its file.
LEMMA OpenFailsStep ==
  ASSUME PipelineInv, NEW r \in Readers, r \in Threads, OpenFails(r)
  PROVE  PipelineInv'
<1>1. /\ Goto(r, "failed") /\ UNCHANGED <<loc, queue, content>> /\ Source = "csv"
      /\ UNCHANGED <<finished, partPtr, cursor, sent, serve>>
  BY DEF OpenFails
<1>2. HoldsRight(r, "failed", loc[r]) /\ "failed" \in PCs
  BY PlainHolds DEF Plain
<1>3. RoomRight(r, "failed", loc[r], content)
  BY StepFacts DEF RoomRight
<1>4. CursorStep(r, "failed")
  BY <1>1, CursorSame DEF ReaderPCs, Parquet
<1> QED BY <1>1, <1>2, <1>3, <1>4, RestSame, QuietStep

\* The position from which a partition is read.
LEMMA SeekType ==
  ASSUME NEW c \in CursorType, NEW p \in 0..(PartNum - 1), CursorRight("popPart", c)
  PROVE  Seek(c, p) \in CursorType /\ (Source = "csv" => Seek(c, p).pos <= TableRows)
<1>1. StartOff(p) \in Nat
  BY PartArithmetic
<1>2. CASE Source # "csv"
  BY <1>1, <1>2 DEF Seek, CursorType
<1>3. CASE Source = "csv"
  <2>1. c.line = 0 /\ c.pos \in Nat /\ c.pos <= TableRows /\ TableRows \in Nat
    BY <1>3, SizesAssumption DEF CursorType, CursorRight
  <2> DEFINE skip == Least(StartOff(p) - c.line, TableRows - c.pos)
  <2>2. skip \in Nat /\ skip <= TableRows - c.pos
    BY <1>1, <2>1 DEF Least
  <2>3. Seek(c, p) = [part |-> p, line |-> c.line + skip, pos |-> c.pos + skip]
    BY <1>3 DEF Seek
  <2> HIDE DEF skip
  <2>4. c.line + skip \in Nat /\ c.pos + skip \in Nat /\ c.pos + skip <= TableRows
    BY <2>1, <2>2
  <2> QED BY <2>3, <2>4 DEF CursorType
<1> QED BY <1>2, <1>3

\* A reader takes a partition, or the final one.
LEMMA PopPartStep ==
  ASSUME PipelineInv, NEW r \in Readers, r \in Threads, PopPart(r)
  PROVE  PipelineInv'
<1>0. /\ RestTypes /\ HoldsRight(r, pc[r], loc[r]) /\ RoomRight(r, pc[r], loc[r], content)
      /\ CursorRight(pc[r], cursor[r]) /\ cursor[r] \in CursorType /\ Stage(r) = "read"
  BY StepFacts, ThreadFacts
<1>1. pc[r] = "popPart" /\ UNCHANGED <<loc, queue, content, finished, sent, serve>>
      /\ partPtr' = IF partPtr = <<>> THEN <<>> ELSE Tail(partPtr)
  BY DEF PopPart
<1>2. partPtr' \in Seq((0..(PartNum - 1)) \cup {Sentinel})
  <2>1. CASE partPtr = <<>>
    BY <1>1, <2>1
  <2>2. CASE partPtr # <<>>
    BY <1>0, <1>1, <2>2, TailElements DEF RestTypes
  <2> QED BY <2>1, <2>2
<1>3. CASE partPtr = <<>> \/ Head(partPtr) = Sentinel
  <2> DEFINE s == IF Source \in {"csv", "postgres"} THEN "pushLast" ELSE "fetchAdd"
  <2>1. Goto(r, s) /\ cursor' = cursor
    BY <1>3 DEF PopPart
  <2>2. s \in PCs /\ s \in ReaderPCs /\ s \notin {"popFree", "popPart", "readFile"}
        /\ (s = "pushLast" => ~Parquet) /\ s \in {"pushLast", "fetchAdd"}
    BY DEF PCs, ReaderPCs, Parquet
  <2> HIDE DEF s
  <2>3. HoldsRight(r, s, loc[r])
    BY <1>0, <1>1, <2>2 DEF HoldsRight, InFull, InEmpty, OutFull, OutEmpty
  <2>4. RoomRight(r, s, loc[r], content)
    BY <1>0 DEF RoomRight
  <2>5. RestTypes'
    BY <1>0, <1>1, <1>2, <2>1 DEF RestTypes
  <2>6. CursorStep(r, s)
    BY <2>1, <2>2, CursorSame
  <2> QED BY <1>1, <2>1, <2>2, <2>3, <2>4, <2>5, <2>6, QuietStep
<1>4. CASE partPtr # <<>> /\ Head(partPtr) # Sentinel
  <2> DEFINE s == IF Source = "parquet" THEN "openFile" ELSE "readLines"
             c == Seek(cursor[r], Head(partPtr))
  <2>1. Goto(r, s) /\ cursor' = [cursor EXCEPT ![r] = c]
    BY <1>4 DEF PopPart
  <2>2. Head(partPtr) \in 0..(PartNum - 1)
    BY <1>0, <1>4, TailElements DEF RestTypes
  <2>3. c \in CursorType /\ (Source = "csv" => c.pos <= TableRows)
    BY <1>0, <1>1, <2>2, SeekType
  <2>4. s \in PCs /\ s \in ReaderPCs /\ s \in {"openFile", "readLines"}
        /\ (s = "openFile" <=> Parquet)
    BY DEF PCs, ReaderPCs, Parquet
  <2> HIDE DEF s, c
  <2>5. HoldsRight(r, s, loc[r])
    BY <1>0, <1>1, <2>4 DEF HoldsRight, InFull, InEmpty, OutFull, OutEmpty
  <2>6. RoomRight(r, s, loc[r], content)
    BY <1>0 DEF RoomRight
  <2>7. cursor' \in [Readers -> CursorType] /\ cursor'[r] = c /\ \A q \in Readers : q # r => cursor'[q] = cursor[q]
    BY <1>0, <2>1, <2>3 DEF RestTypes
  <2>8. RestTypes'
    BY <1>0, <1>1, <1>2, <2>7 DEF RestTypes
  <2>9. CursorStep(r, s)
    BY <2>3, <2>4, <2>7 DEF CursorStep, CursorRight
  <2> QED BY <1>1, <2>1, <2>4, <2>5, <2>6, <2>8, <2>9, QuietStep
<1> QED BY <1>3, <1>4

\* A step in which a thread only writes to its buffers.
LEMMA WriteStep ==
  ASSUME PipelineInv, NEW t \in Threads, NEW s \in PCs, Goto(t, s), UNCHANGED <<loc, queue>>,
         OwnBuffersOnly(t), HoldsRight(t, s, loc[t]), RoomRight(t, s, loc[t], content'),
         RestTypes', CursorStep(t, s)
  PROVE  PipelineInv'
<1>1. loc \in [Threads -> LocType] /\ loc[t] \in LocType /\ QueueTypes /\ PlaceInv
  BY StepFacts
<1>2. ThreadStep(t, s, loc[t])
  BY <1>1 DEF ThreadStep, Goto
<1>3. QueueTypes' /\ queue'["free"] = queue["free"]
  BY <1>1 DEF QueueTypes
<1>4. FreeEmpty'
  BY <1>3, FreeStep
<1>5. Held' = Held
  BY DEF Held, ThreadSlots
<1>6. PlaceInv'
  BY <1>1, <1>5 DEF PlaceInv
<1> QED BY <1>2, <1>3, <1>4, <1>6, Combine

\* Rows appended to a buffer.
LEMMA AppendRows ==
  ASSUME NEW S, NEW rows \in Seq(S), NEW more \in Seq(S)
  PROVE  rows \o more \in Seq(S) /\ Len(rows \o more) = Len(rows) + Len(more)
         /\ Len(rows) \in Nat /\ Len(more) \in Nat
OBVIOUS

\* Rows of the table, in order.
LEMMA NumberedRows ==
  ASSUME NEW p \in Nat, NEW n \in Nat, n > 0 => p + n <= TableRows
  PROVE  [i \in 1..n |-> p + i] \in Seq(Rows) /\ Len([i \in 1..n |-> p + i]) = n
<1>1. \A i \in 1..n : p + i \in Rows
  BY SizesAssumption DEF Rows
<1> QED BY <1>1

\* A reader fills its buffer.
LEMMA ReadLinesStep ==
  ASSUME PipelineInv, NEW r \in Readers, r \in Threads, ReadLines(r)
  PROVE  PipelineInv'
<1> DEFINE c == cursor[r]
           b == loc[r].out
           todo == Least(EndOff(c.part) - c.line, TableRows - c.pos)
           rest == IF todo > 0 THEN todo ELSE 0
           n == Least(rest, LinesPerBuffer - Len(content[b]))
           full == BufferFull(content[b], n, rest)
           rows == [i \in 1..n |-> c.pos + i]
           s == IF full THEN "pushFull" ELSE "popPart"
<1>0. /\ RestTypes /\ HoldsRight(r, pc[r], loc[r]) /\ RoomRight(r, pc[r], loc[r], content)
      /\ pc[r] \in ReaderPCs /\ CursorRight(pc[r], c) /\ c \in CursorType /\ Stage(r) = "read"
      /\ content \in [Buffers -> Seq(Rows)]
  BY StepFacts, ThreadFacts
<1>1. /\ pc[r] = "readLines" /\ Goto(r, s)
      /\ content' = [content EXCEPT ![b] = @ \o rows]
      /\ cursor' = [cursor EXCEPT ![r].pos = @ + n, ![r].line = IF full THEN @ + n ELSE 0]
      /\ UNCHANGED <<loc, queue>> /\ UNCHANGED <<finished, partPtr, sent, serve>>
  BY DEF ReadLines
<1>2. ~Parquet /\ b \in Buffers /\ content[b] \in Seq(Rows) /\ Len(content[b]) \in Nat
      /\ Len(content[b]) <= LinesPerBuffer
  <2>1. ~Parquet
    BY <1>0, <1>1 DEF ReaderPCs
  <2>2. b \in Buffers
    BY <1>0, <1>1 DEF HoldsRight, OutFull
  <2>3. content[b] \in Seq(Rows) /\ Len(content[b]) \in Nat
    BY <1>0, <2>2
  <2> QED BY <1>0, <2>1, <2>2, <2>3 DEF RoomRight
<1>3. c.pos \in Nat /\ c.line \in Nat /\ c.part \in Int /\ LinesPerBuffer \in Nat /\ TableRows \in Nat
  <2>1. PartNum \in Nat
    BY PartArithmetic
  <2>2. \A p \in (0..(PartNum - 1)) \cup {Sentinel} : p \in Int
    BY <2>1 DEF Sentinel
  <2> QED BY <1>0, <2>2, SizesAssumption DEF CursorType
<1>4. todo \in Int /\ todo <= TableRows - c.pos
  BY <1>3, PartArithmetic DEF Least
<1> HIDE DEF todo
<1>5. n \in Nat /\ n <= LinesPerBuffer - Len(content[b]) /\ (n > 0 => c.pos + n <= TableRows)
  <2>1. rest \in Nat /\ (rest > 0 => c.pos + rest <= TableRows)
    BY <1>3, <1>4
  <2>2. LinesPerBuffer - Len(content[b]) \in Nat
    BY <1>2, <1>3
  <2> HIDE DEF rest
  <2>3. n \in Nat /\ n <= LinesPerBuffer - Len(content[b]) /\ n <= rest
    BY <2>1, <2>2 DEF Least
  <2> HIDE DEF n
  <2> QED BY <1>3, <2>1, <2>3
<1> HIDE DEF n, c
<1>6. rows \in Seq(Rows) /\ Len(rows) = n
  BY <1>3, <1>5, NumberedRows
<1> HIDE DEF rows, full
<1>7. content[b] \o rows \in Seq(Rows) /\ Len(content[b] \o rows) <= LinesPerBuffer
  BY <1>2, <1>3, <1>5, <1>6, AppendRows
<1>8. OwnBuffersOnly(r) /\ content'[b] = content[b] \o rows
  <2> HIDE DEF b
  <2>1. content' \in [Buffers -> Seq(Rows)] /\ content'[b] = content[b] \o rows
        /\ \A a \in Buffers : a # b => content'[a] = content[a]
    BY <1>0, <1>1, <1>2, <1>7
  <2> QED BY <2>1 DEF OwnBuffersOnly, b
<1>9. s \in PCs /\ s \in ReaderPCs /\ s \in {"pushFull", "popPart"}
  BY <1>2 DEF PCs, ReaderPCs
<1>10. HoldsRight(r, s, loc[r])
  BY <1>0, <1>2, <1>9 DEF HoldsRight, InFull, InEmpty, OutFull, OutEmpty
<1>11. RoomRight(r, s, loc[r], content')
  BY <1>0, <1>7, <1>8 DEF RoomRight
<1>12. /\ cursor' \in [Readers -> CursorType] /\ \A q \in Readers : q # r => cursor'[q] = cursor[q]
       /\ cursor'[r].pos = c.pos + n /\ cursor'[r].line = IF full THEN c.line + n ELSE 0
  <2> DEFINE d == [cursor[r] EXCEPT !.pos = @ + n, !.line = IF full THEN @ + n ELSE 0]
  <2>1. cursor' = [cursor EXCEPT ![r] = d]
    BY <1>0, <1>1 DEF RestTypes, CursorType
  <2>2. c.pos + n \in Nat /\ (IF full THEN c.line + n ELSE 0) \in Nat
    BY <1>3, <1>5
  <2>3. d \in CursorType /\ d.pos = c.pos + n /\ d.line = IF full THEN c.line + n ELSE 0
    BY <1>0, <2>2 DEF CursorType, c
  <2> HIDE DEF d
  <2> QED BY <1>0, <2>1, <2>3 DEF RestTypes
<1>13. RestTypes'
  BY <1>0, <1>1, <1>12 DEF RestTypes
<1>14. CursorStep(r, s)
  <2>1. Source = "csv" => c.pos + n <= TableRows
    BY <1>0, <1>3, <1>4, <1>5 DEF CursorRight
  <2> QED BY <1>2, <1>9, <1>12, <2>1 DEF CursorStep, CursorRight
<1> QED BY <1>1, <1>8, <1>9, <1>10, <1>11, <1>13, <1>14, WriteStep

\* readPQ looks for its next file.
LEMMA OpenFileStep ==
  ASSUME PipelineInv, NEW r \in Readers, r \in Threads, OpenFile(r)
  PROVE  PipelineInv'
<1>0. /\ RestTypes /\ HoldsRight(r, pc[r], loc[r]) /\ RoomRight(r, pc[r], loc[r], content)
      /\ pc[r] \in ReaderPCs /\ CursorRight(pc[r], cursor[r]) /\ cursor[r] \in CursorType /\ Stage(r) = "read"
  BY StepFacts, ThreadFacts
<1> DEFINE more == cursor[r].line < EndOff(cursor[r].part)
           s == IF more THEN "popFree" ELSE "popPart"
<1>1. pc[r] = "openFile" /\ Parquet
  BY <1>0 DEF OpenFile, ReaderPCs
<1>2. CASE more /\ cursor[r].line >= NumFiles
  BY <1>2, ServeChange DEF OpenFile, Throw, ServeStates
<1>3. CASE ~(more /\ cursor[r].line >= NumFiles)
  <2>1. Goto(r, s) /\ UNCHANGED <<loc, queue, content>> /\ UNCHANGED <<finished, partPtr, cursor, sent, serve>>
    BY <1>3 DEF OpenFile
  <2>2. more => cursor[r].line < NumFiles
    BY <1>0, <1>3, PartArithmetic DEF CursorType
  <2>3. s \in PCs /\ s \in ReaderPCs /\ s \in {"popFree", "popPart"} /\ (s = "popFree" => more)
    BY <1>1 DEF PCs, ReaderPCs
  <2> HIDE DEF s, more
  <2>4. HoldsRight(r, s, loc[r])
    BY <1>0, <1>1, <2>3 DEF HoldsRight, InFull, InEmpty, OutFull, OutEmpty
  <2>5. RoomRight(r, s, loc[r], content)
    BY <1>0 DEF RoomRight
  <2>6. CursorStep(r, s)
    BY <1>1, <2>1, <2>2, <2>3 DEF CursorStep, CursorRight, Parquet
  <2> QED BY <2>1, <2>3, <2>4, <2>5, <2>6, RestSame, QuietStep
<1> QED BY <1>2, <1>3

\* readPQ reads a file into its buffer.
LEMMA ReadFileStep ==
  ASSUME PipelineInv, NEW r \in Readers, r \in Threads, ReadFile(r)
  PROVE  PipelineInv'
<1> DEFINE b == loc[r].out
           line == cursor[r].line
           rows == [i \in 1..LinesPerBuffer |-> line * LinesPerBuffer + i]
<1>0. /\ RestTypes /\ HoldsRight(r, pc[r], loc[r]) /\ RoomRight(r, pc[r], loc[r], content)
      /\ pc[r] \in ReaderPCs /\ CursorRight(pc[r], cursor[r]) /\ cursor[r] \in CursorType /\ Stage(r) = "read"
      /\ content \in [Buffers -> Seq(Rows)]
  BY StepFacts, ThreadFacts
<1>1. /\ pc[r] = "readFile" /\ Goto(r, "pushFile") /\ content' = [content EXCEPT ![b] = rows]
      /\ cursor' = [cursor EXCEPT ![r].line = @ + 1]
      /\ UNCHANGED <<loc, queue>> /\ UNCHANGED <<finished, partPtr, sent, serve>>
  BY DEF ReadFile
<1>2. Parquet /\ b \in Buffers
  BY <1>0, <1>1 DEF ReaderPCs, HoldsRight, OutFull
<1>3. line \in Nat /\ line < NumFiles /\ NumFiles \in Nat /\ LinesPerBuffer \in Nat
  BY <1>0, <1>1, <1>2, PartArithmetic, SizesAssumption DEF CursorRight, CursorType
<1>4. line * LinesPerBuffer \in Nat /\ line * LinesPerBuffer + LinesPerBuffer <= TableRows
  <2>1. NumFiles * LinesPerBuffer <= TableRows
    BY PartArithmetic
  <2> HIDE DEF line
  <2>2. (line + 1) * LinesPerBuffer <= NumFiles * LinesPerBuffer
    BY <1>3, ProductMonotone
  <2>3. (line + 1) * LinesPerBuffer = line * LinesPerBuffer + LinesPerBuffer
    BY <1>3
  <2>4. line * LinesPerBuffer \in Nat /\ NumFiles * LinesPerBuffer \in Nat
    BY <1>3, ProductNat
  <2> QED BY <1>3, <2>1, <2>2, <2>3, <2>4, SizesAssumption
<1>5. rows \in Seq(Rows) /\ Len(rows) = LinesPerBuffer
  BY <1>3, <1>4, NumberedRows
<1> HIDE DEF rows
<1>6. OwnBuffersOnly(r) /\ content'[b] = rows
  <2> HIDE DEF b
  <2>1. content' \in [Buffers -> Seq(Rows)] /\ content'[b] = rows
        /\ \A a \in Buffers : a # b => content'[a] = content[a]
    BY <1>0, <1>1, <1>2, <1>5
  <2> QED BY <2>1 DEF OwnBuffersOnly, b
<1>7. HoldsRight(r, "pushFile", loc[r])
  BY <1>0, <1>2 DEF HoldsRight, InFull, InEmpty, OutFull, OutEmpty
<1>8. RoomRight(r, "pushFile", loc[r], content')
  BY <1>0, <1>3, <1>5, <1>6 DEF RoomRight
<1>9. /\ cursor' \in [Readers -> CursorType] /\ \A q \in Readers : q # r => cursor'[q] = cursor[q]
      /\ cursor'[r].pos = cursor[r].pos
  <2> DEFINE d == [cursor[r] EXCEPT !.line = @ + 1]
  <2>1. cursor' = [cursor EXCEPT ![r] = d]
    BY <1>0, <1>1 DEF RestTypes, CursorType
  <2>2. d \in CursorType /\ d.pos = cursor[r].pos
    BY <1>0, <1>3 DEF CursorType
  <2> HIDE DEF d
  <2> QED BY <1>0, <2>1, <2>2 DEF RestTypes
<1>10. RestTypes'
  BY <1>0, <1>1, <1>9 DEF RestTypes
<1>11. CursorStep(r, "pushFile")
  BY <1>2, <1>9 DEF CursorStep, CursorRight, ReaderPCs, Parquet
<1> QED BY <1>1, <1>6, <1>7, <1>8, <1>10, <1>11, WriteStep DEF PCs

\* A step of a reader.
LEMMA ReadStep ==
  ASSUME PipelineInv, NEW r \in Threads, Stage(r) = "read", Read(r)
  PROVE  PipelineInv'
<1>0. /\ r \in Readers /\ loc[r] \in LocType /\ HoldsRight(r, pc[r], loc[r])
      /\ RoomRight(r, pc[r], loc[r], content)
      /\ pc[r] \in ReaderPCs /\ CursorRight(pc[r], cursor[r])
  BY StepFacts, ThreadFacts
<1> DEFINE first == IF Source = "parquet" THEN "readFile" ELSE "popPart"
           empty == [loc[r] EXCEPT !.out = NoBuffer]
           full == [loc[r] EXCEPT !.out = Front("free")]
<1>1. empty.out = NoBuffer /\ LinesPerBuffer \in Nat /\ NoBuffer \notin Buffers
  BY <1>0, LocUpdate, BufferFacts, SizesAssumption DEF LocType
<1> HIDE DEF empty
<1>3. \A s : RoomRight(r, s, empty, content)
  BY <1>0, <1>1 DEF RoomRight
<1>4. CASE PopFree(r, "popFree", first)
  <2>1. pc[r] = "popFree" /\ loc[r].out = NoBuffer /\ cursor' = cursor
    BY <1>0, <1>4 DEF PopFree, HoldsRight, OutEmpty
  <2>2. first \in PCs /\ first \in ReaderPCs /\ first \in {"readFile", "popPart"} /\ (first = "readFile" <=> Parquet)
    BY DEF PCs, ReaderPCs, Parquet
  <2> HIDE DEF first
  <2>3. CursorStep(r, first)
    BY <1>0, <2>1, <2>2 DEF CursorStep, CursorRight, Parquet
  <2>4. full.out \in Buffers /\ content[full.out] = <<>>
    BY <1>4, FreeTaken
  <2>5. HoldsRight(r, first, full) /\ RoomRight(r, first, full, content)
    <3> HIDE DEF full
    <3> QED BY <1>0, <1>1, <2>2, <2>4 DEF HoldsRight, RoomRight, InFull, InEmpty, OutFull, OutEmpty
  <2> QED BY <1>4, <2>1, <2>2, <2>3, <2>5, PopFreeStep
<1>5. CASE PopFree(r, "refill", "readLines")
  <2>1. pc[r] = "refill" /\ loc[r].out = NoBuffer /\ cursor' = cursor /\ ~Parquet
    BY <1>0, <1>5 DEF PopFree, HoldsRight, OutEmpty, ReaderPCs
  <2>2. CursorStep(r, "readLines")
    BY <2>1, CursorSame DEF ReaderPCs
  <2>3. full.out \in Buffers /\ content[full.out] = <<>>
    BY <1>5, FreeTaken
  <2>4. HoldsRight(r, "readLines", full) /\ RoomRight(r, "readLines", full, content)
    <3> HIDE DEF full
    <3> QED BY <1>0, <1>1, <2>3 DEF HoldsRight, RoomRight, InFull, InEmpty, OutFull, OutEmpty
  <2> QED BY <1>5, <2>1, <2>2, <2>4, PopFreeStep DEF PCs
<1>6. CASE PushOut(r, "pushFile", "openFile")
  <2>1. pc[r] = "pushFile" /\ loc[r].out \in Buffers /\ cursor' = cursor /\ Parquet
    BY <1>0, <1>6 DEF PushOut, HoldsRight, OutFull, ReaderPCs
  <2>2. CursorStep(r, "openFile")
    BY <2>1, CursorSame DEF ReaderPCs
  <2>3. HoldsRight(r, "openFile", empty)
    BY <1>0, <1>1 DEF HoldsRight, InFull, InEmpty, OutFull, OutEmpty
  <2> QED BY <1>0, <1>3, <1>6, <2>1, <2>2, <2>3, PushOutStep DEF PCs, empty
<1>7. CASE PushOut(r, "pushFull", "refill")
  <2>1. pc[r] = "pushFull" /\ loc[r].out \in Buffers /\ cursor' = cursor /\ ~Parquet
    BY <1>0, <1>7 DEF PushOut, HoldsRight, OutFull, ReaderPCs
  <2>2. CursorStep(r, "refill")
    BY <2>1, CursorSame DEF ReaderPCs
  <2>3. HoldsRight(r, "refill", empty)
    BY <1>0, <1>1 DEF HoldsRight, InFull, InEmpty, OutFull, OutEmpty
  <2> QED BY <1>0, <1>3, <1>7, <2>1, <2>2, <2>3, PushOutStep DEF PCs, empty
<1>8. CASE PushOut(r, "pushLast", "fetchAdd")
  <2>1. pc[r] = "pushLast" /\ loc[r].out \in Buffers /\ cursor' = cursor
    BY <1>0, <1>8 DEF PushOut, HoldsRight, OutFull, ReaderPCs
  <2>2. CursorStep(r, "fetchAdd")
    BY <2>1, CursorSame DEF ReaderPCs
  <2>3. HoldsRight(r, "fetchAdd", empty)
    BY PlainHolds DEF Plain
  <2> QED BY <1>0, <1>3, <1>8, <2>1, <2>2, <2>3, PushOutStep DEF PCs, empty
<1>9. CASE FileFails(r) \/ CountFails
  BY <1>9, ServeChange DEF FileFails, CountFails, Throw, ServeStates
<1> HIDE DEF first
<1>10. CASE OpenFails(r)
  BY <1>0, <1>10, OpenFailsStep
<1>11. CASE PopPart(r)
  BY <1>0, <1>11, PopPartStep
<1>12. CASE ReadLines(r)
  BY <1>0, <1>12, ReadLinesStep
<1>13. CASE OpenFile(r)
  BY <1>0, <1>13, OpenFileStep
<1>14. CASE ReadFile(r)
  BY <1>0, <1>14, ReadFileStep
<1>15. CASE Finish(r)
  BY <1>15, FinishStep
<1> QED
  BY <1>4, <1>5, <1>6, <1>7, <1>8, <1>9, <1>10, <1>11, <1>12, <1>13, <1>14, <1>15 DEF Read, first

-----------------------------------------------------------------------------
\* A deserializer pops the first id, and may use a sentinel.
LEMMA PopFirstStep ==
  ASSUME PipelineInv, NEW d \in Threads, Stage(d) = "deser", PopFirst(d)
  PROVE  PipelineInv'
<1> DEFINE front == Front("deser")
           b == IF front = Sentinel THEN NoBuffer ELSE front
           v == [loc[d] EXCEPT !.in = b]
           s == CASE Source = "parquet" -> "popFree"
                  [] Source # "parquet" /\ front = Sentinel -> "undefined"
                  [] OTHER -> "deserialize"
<1>0. /\ loc[d] \in LocType /\ loc \in [Threads -> LocType] /\ content \in [Buffers -> Seq(Rows)]
      /\ HoldsRight(d, pc[d], loc[d]) /\ RoomRight(d, pc[d], loc[d], content) /\ d \notin Readers
  BY StepFacts, ThreadFacts
<1>1. /\ pc[d] = "popFirst" /\ Take("deser") /\ pc' = [pc EXCEPT ![d] = s] /\ loc' = [loc EXCEPT ![d] = v]
      /\ content' = content /\ UNCHANGED <<finished, partPtr, cursor, sent, serve>>
  BY <1>0 DEF PopFirst, Goto
<1>2. front \in Buffers \cup {Sentinel}
  BY <1>1, FrontType DEF QueueNames
<1>3. b \in Buffers \cup {NoBuffer} /\ (front # Sentinel => b = front /\ b \in Buffers)
      /\ (front = Sentinel => b = NoBuffer)
  BY <1>2
<1>4. s \in PCs /\ \/ Parquet /\ s = "popFree"
                   \/ ~Parquet /\ s = "deserialize" /\ b \in Buffers
                   \/ ~Parquet /\ s = "undefined"
  BY <1>3 DEF PCs, Parquet
<1> HIDE DEF front, b, s
<1>5. v \in LocType /\ v.in = b /\ v.out = loc[d].out /\ v.off = loc[d].off
  BY <1>0, <1>3, LocUpdate
<1> HIDE DEF v
<1>6. /\ loc[d].in = NoBuffer /\ loc[d].off = 0 /\ (Parquet => loc[d].out = NoBuffer)
      /\ (~Parquet => loc[d].out \in Buffers)
  BY <1>0, <1>1 DEF HoldsRight, RoomRight, InEmpty, OutFull, OutEmpty
<1>7. PlaceInv' /\ QueueTypes'
  <2>1. v.in = Front("deser") \/ (Front("deser") = Sentinel /\ v.in = NoBuffer)
    BY <1>3, <1>5 DEF front
  <2> QED BY <1>1, <1>5, <1>6, <2>1, TakeIn DEF QueueNames
<1>8. OwnBuffersOnly(d) /\ RestTypes' /\ queue'["free"] = queue["free"]
  BY <1>0, <1>1, RestSame DEF OwnBuffersOnly, Take
<1>9. FreeEmpty'
  BY <1>7, <1>8, FreeStep
<1>10. ThreadStep(d, s, v)
  BY <1>1, <1>4, <1>5 DEF ThreadStep
<1>11. HoldsRight(d, s, v)
  BY <1>4, <1>5, <1>6 DEF HoldsRight, InFull, InEmpty, OutFull, OutEmpty
<1>12. RoomRight(d, s, v, content')
  <2>1. b \in Buffers => Len(content[b]) \in Nat
    BY <1>0
  <2> QED BY <1>0, <1>1, <1>4, <1>5, <1>6, <2>1 DEF RoomRight
<1>13. CursorStep(d, s)
  BY <1>0, <1>1, CursorSame
<1> QED BY <1>7, <1>8, <1>9, <1>10, <1>11, <1>12, <1>13, Combine

\* The next rows of a buffer.
LEMMA SubSeqRows ==
  ASSUME NEW S, NEW rows \in Seq(S), NEW k \in Nat, NEW n \in Nat, k + n <= Len(rows)
  PROVE  SubSeq(rows, k + 1, k + n) \in Seq(S) /\ Len(SubSeq(rows, k + 1, k + n)) = n
OBVIOUS

\* The smaller of what is left to read and the room to write.
LEMMA LeastFits ==
  ASSUME NEW i \in Nat, NEW j \in Nat, NEW k \in Nat, NEW m \in Nat, i <= k, j <= m
  PROVE  /\ Least(k - i, m - j) \in Nat
         /\ i + Least(k - i, m - j) <= k /\ j + Least(k - i, m - j) <= m
BY DEF Least

\* A deserializer moves tuples.
LEMMA DeserializeStep ==
  ASSUME PipelineInv, NEW d \in Threads, Stage(d) = "deser", Deserialize(d)
  PROVE  PipelineInv'
<1> DEFINE a == loc[d].in
           b == loc[d].out
           k == loc[d].off
           n == Least(Len(content[a]) - k, TuplesPerBuffer - Len(content[b]))
           rows == SubSeq(content[a], k + 1, k + n)
           v == [loc[d] EXCEPT !.off = @ + n]
           s == IF Len(content[b]) + n = TuplesPerBuffer THEN "pushFull" ELSE "release"
<1>0. /\ loc[d] \in LocType /\ loc \in [Threads -> LocType] /\ content \in [Buffers -> Seq(Rows)]
      /\ QueueTypes /\ PlaceInv /\ d \notin Readers
      /\ HoldsRight(d, pc[d], loc[d]) /\ RoomRight(d, pc[d], loc[d], content)
  BY StepFacts, ThreadFacts
<1>1. /\ pc[d] = "deserialize" /\ pc' = [pc EXCEPT ![d] = s] /\ loc' = [loc EXCEPT ![d] = v]
      /\ content' = [content EXCEPT ![b] = @ \o rows]
      /\ queue' = queue /\ UNCHANGED <<finished, partPtr, cursor, sent, serve>>
  BY <1>0 DEF Deserialize, Goto
<1>2. a \in Buffers /\ b \in Buffers /\ a # b /\ k \in Nat
  <2>1. a \in Buffers /\ b \in Buffers
    BY <1>0, <1>1 DEF HoldsRight, InFull, OutFull
  <2> QED BY <1>0, <2>1, HeldApart DEF LocType
<1>3. content[a] \in Seq(Rows) /\ content[b] \in Seq(Rows) /\ Len(content[a]) \in Nat /\ Len(content[b]) \in Nat
  BY <1>0, <1>2
<1>4. k <= Len(content[a]) /\ Len(content[b]) <= TuplesPerBuffer /\ TuplesPerBuffer \in Nat
  BY <1>0, <1>1, <1>2, SizesAssumption DEF RoomRight
<1>5. n \in Nat /\ k + n <= Len(content[a]) /\ Len(content[b]) + n <= TuplesPerBuffer
  BY <1>2, <1>3, <1>4, LeastFits
<1> HIDE DEF n
<1>6. rows \in Seq(Rows) /\ Len(rows) = n
  BY <1>2, <1>3, <1>5, SubSeqRows
<1> HIDE DEF rows
<1>7. content[b] \o rows \in Seq(Rows) /\ Len(content[b] \o rows) <= TuplesPerBuffer
  BY <1>3, <1>4, <1>5, <1>6, AppendRows
<1>8. OwnBuffersOnly(d) /\ content'[b] = content[b] \o rows /\ content'[a] = content[a]
  <2>1. content' \in [Buffers -> Seq(Rows)] /\ content'[b] = content[b] \o rows
        /\ \A c \in Buffers : c # b => content'[c] = content[c]
    <3> HIDE DEF b
    <3> QED BY <1>0, <1>1, <1>2, <1>7
  <2> QED BY <1>2, <2>1 DEF OwnBuffersOnly
<1>9. v \in LocType /\ v.in = a /\ v.out = b /\ v.off = k + n
  <2>1. k + n \in Nat /\ v = [loc[d] EXCEPT !.off = k + n]
    BY <1>0, <1>2, <1>5 DEF LocType
  <2> QED BY <1>0, <2>1, LocUpdate
<1>10. s \in PCs /\ s \in {"pushFull", "release"}
  BY DEF PCs
<1> HIDE DEF v, s
<1>11. PlaceInv' /\ QueueTypes' /\ queue'["free"] = queue["free"]
  <2>1. Held' = Held
    BY <1>1, <1>9, HeldSame
  <2> QED BY <1>0, <1>1, <2>1 DEF PlaceInv, QueueTypes
<1>12. FreeEmpty' /\ RestTypes'
  BY <1>1, <1>8, <1>11, FreeStep, RestSame
<1>13. ThreadStep(d, s, v)
  BY <1>1, <1>9, <1>10 DEF ThreadStep
<1>14. HoldsRight(d, s, v)
  BY <1>2, <1>9, <1>10 DEF HoldsRight, InFull, InEmpty, OutFull, OutEmpty
<1>15. RoomRight(d, s, v, content')
  BY <1>5, <1>7, <1>8, <1>9, <1>10 DEF RoomRight
<1>16. CursorStep(d, s)
  BY <1>0, <1>1, CursorSame
<1> QED BY <1>8, <1>11, <1>12, <1>13, <1>14, <1>15, <1>16, Combine

\* The next raw buffer, or the sentinel.
LEMMA PopNextStep ==
  ASSUME PipelineInv, NEW d \in Threads, Stage(d) = "deser", PopNext(d)
  PROVE  PipelineInv'
<1> DEFINE front == Front("deser")
           v == [loc[d] EXCEPT !.in = front]
           end == IF content[loc[d].out] = <<>> THEN "fetchAdd" ELSE "pushLast"
<1>0. /\ loc[d] \in LocType /\ loc \in [Threads -> LocType] /\ content \in [Buffers -> Seq(Rows)]
      /\ QueueTypes /\ PlaceInv /\ d \notin Readers
      /\ HoldsRight(d, pc[d], loc[d]) /\ RoomRight(d, pc[d], loc[d], content)
  BY StepFacts, ThreadFacts
<1>1. /\ pc[d] = "popNext" /\ Take("deser") /\ content' = content
      /\ UNCHANGED <<finished, partPtr, cursor, sent, serve>>
  BY DEF PopNext
<1>2. loc[d].in = NoBuffer /\ loc[d].out \in Buffers /\ loc[d].off = 0
  BY <1>0, <1>1 DEF HoldsRight, RoomRight, InEmpty, OutFull
<1>3. OwnBuffersOnly(d) /\ RestTypes' /\ queue'["free"] = queue["free"]
  BY <1>0, <1>1, RestSame DEF OwnBuffersOnly, Take
<1>4. CASE front = Sentinel
  <2>1. pc' = [pc EXCEPT ![d] = end] /\ loc' = loc
    BY <1>4 DEF PopNext, Goto
  <2>2. end \in {"fetchAdd", "pushLast"} /\ end \in PCs
    BY DEF PCs
  <2> HIDE DEF end
  <2>3. Held' = Held
    BY <2>1 DEF Held, ThreadSlots
  <2>4. PlaceInv' /\ QueueTypes'
    BY <1>0, <1>1, <1>4, <2>3, TakeStopKeeps DEF QueueNames
  <2>5. ThreadStep(d, end, loc[d])
    BY <1>0, <2>1, <2>2 DEF ThreadStep
  <2>6. HoldsRight(d, end, loc[d])
    BY <1>2, <2>2 DEF HoldsRight, InFull, InEmpty, OutFull, OutEmpty
  <2>7. RoomRight(d, end, loc[d], content')
    BY <1>0, <1>1, <2>2 DEF RoomRight
  <2>8. CursorStep(d, end)
    BY <1>0, <1>1, CursorSame
  <2>9. FreeEmpty'
    BY <1>3, <2>4, FreeStep
  <2> QED BY <1>3, <2>4, <2>5, <2>6, <2>7, <2>8, <2>9, Combine
<1>5. CASE front # Sentinel
  <2>1. pc' = [pc EXCEPT ![d] = "deserialize"] /\ loc' = [loc EXCEPT ![d] = v]
    BY <1>0, <1>5 DEF PopNext, Goto
  <2>2. front \in Buffers
    BY <1>1, <1>5, FrontType DEF QueueNames
  <2>3. v \in LocType /\ v.in = front /\ v.out = loc[d].out /\ v.off = loc[d].off
    BY <1>0, <2>2, LocUpdate
  <2>4. Len(content[front]) \in Nat
    BY <1>0, <2>2
  <2> HIDE DEF v
  <2>5. PlaceInv' /\ QueueTypes'
    BY <1>1, <1>2, <2>1, <2>3, TakeIn DEF QueueNames
  <2> HIDE DEF front
  <2>6. ThreadStep(d, "deserialize", v)
    BY <2>1, <2>3 DEF ThreadStep, PCs
  <2>7. HoldsRight(d, "deserialize", v)
    BY <1>2, <2>2, <2>3 DEF HoldsRight, InFull, InEmpty, OutFull, OutEmpty
  <2>8. RoomRight(d, "deserialize", v, content')
    BY <1>0, <1>1, <1>2, <2>2, <2>3, <2>4 DEF RoomRight
  <2>9. CursorStep(d, "deserialize")
    BY <1>0, <1>1, CursorSame
  <2>10. FreeEmpty'
    BY <1>3, <2>5, FreeStep
  <2> QED BY <1>3, <2>5, <2>6, <2>7, <2>8, <2>9, <2>10, Combine
<1> QED BY <1>4, <1>5

\* A step of a deserializer.
LEMMA DeserStep ==
  ASSUME PipelineInv, NEW d \in Threads, Stage(d) = "deser", Deser(d)
  PROVE  PipelineInv'
<1>0. /\ loc[d] \in LocType /\ HoldsRight(d, pc[d], loc[d]) /\ RoomRight(d, pc[d], loc[d], content)
      /\ d \notin Readers /\ content \in [Buffers -> Seq(Rows)]
  BY StepFacts, ThreadFacts
<1> DEFINE first == CASE Source # "parquet" -> "popFirst"
                      [] Source = "parquet" /\ loc[d].in = NoBuffer -> "undefined"
                      [] OTHER -> "deserialize"
           empty == [loc[d] EXCEPT !.out = NoBuffer]
           full == [loc[d] EXCEPT !.out = Front("free")]
<1>1. /\ empty.in = loc[d].in /\ empty.off = loc[d].off /\ empty.out = NoBuffer
      /\ NoBuffer \notin Buffers /\ TuplesPerBuffer \in Nat
      /\ loc[d].in \in Buffers \cup {NoBuffer} /\ loc[d].off \in Nat
  BY <1>0, LocUpdate, BufferFacts, SizesAssumption DEF LocType
<1>2. \A b \in Buffers : Len(content[b]) \in Nat
  BY <1>0
<1>3. CASE PopFree(d, "popFree", first)
  <2>1. /\ full.out \in Buffers /\ content[full.out] = <<>> /\ full.in = loc[d].in /\ full.off = loc[d].off
        /\ pc[d] = "popFree" /\ cursor' = cursor
    BY <1>3, FreeTaken
  <2>2. loc[d].out = NoBuffer /\ (~Parquet => loc[d].in = NoBuffer) /\ loc[d].off = 0
    BY <1>0, <2>1 DEF HoldsRight, RoomRight, OutEmpty, InEmpty
  <2>3. first \in PCs /\ \/ first = "popFirst" /\ ~Parquet
                         \/ first = "undefined"
                         \/ first = "deserialize" /\ loc[d].in \in Buffers
    BY <1>1 DEF PCs, Parquet
  <2> HIDE DEF first
  <2>4. CursorStep(d, first)
    BY <1>0, <2>1, CursorSame
  <2>5. HoldsRight(d, first, full)
    <3> HIDE DEF full
    <3> QED BY <2>1, <2>2, <2>3 DEF HoldsRight, InFull, InEmpty, OutFull, OutEmpty
  <2>6. RoomRight(d, first, full, content)
    <3> HIDE DEF full
    <3> QED BY <1>1, <1>2, <2>1, <2>2, <2>3 DEF RoomRight
  <2> QED BY <1>3, <2>2, <2>3, <2>4, <2>5, <2>6, PopFreeStep
<1>4. CASE PopFree(d, "refill", "deserialize")
  <2>1. /\ full.out \in Buffers /\ content[full.out] = <<>> /\ full.in = loc[d].in /\ full.off = loc[d].off
        /\ pc[d] = "refill" /\ cursor' = cursor
    BY <1>4, FreeTaken
  <2>2. loc[d].out = NoBuffer /\ loc[d].in \in Buffers /\ loc[d].off <= Len(content[loc[d].in])
    BY <1>0, <2>1 DEF HoldsRight, RoomRight, OutEmpty, InFull
  <2>3. CursorStep(d, "deserialize")
    BY <1>0, <2>1, CursorSame
  <2>4. HoldsRight(d, "deserialize", full) /\ RoomRight(d, "deserialize", full, content)
    <3> HIDE DEF full
    <3>1. HoldsRight(d, "deserialize", full)
      BY <2>1, <2>2 DEF HoldsRight, InFull, InEmpty, OutFull, OutEmpty
    <3>2. RoomRight(d, "deserialize", full, content)
      BY <1>1, <2>1, <2>2 DEF RoomRight
    <3> QED BY <3>1, <3>2
  <2> QED BY <1>4, <2>2, <2>3, <2>4, PopFreeStep DEF PCs
<1> HIDE DEF empty
<1>5. CASE PushOut(d, "pushFull", "refill")
  <2>1. pc[d] = "pushFull" /\ cursor' = cursor
    BY <1>5 DEF PushOut
  <2>2. loc[d].out \in Buffers /\ loc[d].in \in Buffers /\ loc[d].off <= Len(content[loc[d].in])
    BY <1>0, <2>1 DEF HoldsRight, RoomRight, OutFull, InFull
  <2>3. CursorStep(d, "refill")
    BY <1>0, <2>1, CursorSame
  <2>4. HoldsRight(d, "refill", empty)
    BY <1>1, <2>2 DEF HoldsRight, InFull, InEmpty, OutFull, OutEmpty
  <2>5. RoomRight(d, "refill", empty, content)
    BY <1>1, <2>2 DEF RoomRight
  <2> QED BY <1>5, <2>2, <2>3, <2>4, <2>5, PushOutStep DEF PCs, empty
<1>6. CASE PushOut(d, "pushLast", "fetchAdd")
  <2>1. pc[d] = "pushLast" /\ cursor' = cursor
    BY <1>6 DEF PushOut
  <2>2. loc[d].out \in Buffers
    BY <1>0, <2>1 DEF HoldsRight, OutFull
  <2>3. CursorStep(d, "fetchAdd")
    BY <1>0, <2>1, CursorSame
  <2>4. HoldsRight(d, "fetchAdd", empty)
    BY PlainHolds DEF Plain
  <2>5. RoomRight(d, "fetchAdd", empty, content)
    BY <1>1 DEF RoomRight
  <2> QED BY <1>6, <2>2, <2>3, <2>4, <2>5, PushOutStep DEF PCs, empty
<1>7. CASE PopIn(d, "forward", "fetchAdd")
  BY <1>7, PopInStep DEF PCs
<1>8. CASE ReleaseIn(d, "popNext")
  BY <1>8, ReleaseInStep
<1> HIDE DEF first, full
<1>9. CASE PopFirst(d)
  BY <1>9, PopFirstStep
<1>10. CASE Deserialize(d)
  BY <1>10, DeserializeStep
<1>11. CASE PopNext(d)
  BY <1>11, PopNextStep
<1>12. CASE Forward(d)
  BY <1>12, ForwardStep
<1>13. CASE Finish(d)
  BY <1>13, FinishStep
<1>14. CASE DeserFails(d)
  BY <1>14, ServeChange DEF DeserFails, Throw, ServeStates
<1> QED
  BY <1>3, <1>4, <1>5, <1>6, <1>7, <1>8, <1>9, <1>10, <1>11, <1>12, <1>13, <1>14 DEF Deser, first

-----------------------------------------------------------------------------
\* The encoded buffer goes to the senders, whatever it holds: the codec's result,
\* or what was in it before.
LEMMA PushEncodedStep ==
  ASSUME PipelineInv, NEW c \in Threads, Stage(c) = "comp", PushCompressed(c) \/ PushIneffective(c)
  PROVE  PipelineInv'
<1> DEFINE a == loc[c].in
           b == loc[c].out
           v == [loc[c] EXCEPT !.out = NoBuffer]
<1>0. /\ loc[c] \in LocType /\ loc \in [Threads -> LocType] /\ content \in [Buffers -> Seq(Rows)]
      /\ QueueTypes /\ PlaceInv /\ c \notin Readers
      /\ HoldsRight(c, pc[c], loc[c]) /\ RoomRight(c, pc[c], loc[c], content)
  BY StepFacts, ThreadFacts
<1>1. /\ pc[c] = "compress" /\ pc' = [pc EXCEPT ![c] = "release"] /\ loc' = [loc EXCEPT ![c] = v]
      /\ content' = content \/ content' = [content EXCEPT ![b] = content[a]]
      /\ Put("send", b) /\ UNCHANGED <<finished, partPtr, cursor, sent, serve>>
  BY <1>0 DEF PushCompressed, PushIneffective, Goto
<1>2. a \in Buffers /\ b \in Buffers
  BY <1>0, <1>1 DEF HoldsRight, InFull, OutFull
<1>3. v \in LocType /\ v.in = a /\ v.out = NoBuffer
  <2>1. loc[c] \in LocType /\ NoBuffer \in Buffers \cup {NoBuffer}
    BY <1>0
  <2> QED BY <2>1, LocUpdate
<1>4. OwnBuffersOnly(c)
  <2>1. content[a] \in Seq(Rows)
    BY <1>0, <1>2
  <2>2. CASE content' = content
    BY <1>0, <2>2 DEF OwnBuffersOnly
  <2>3. CASE content' = [content EXCEPT ![b] = content[a]]
    <3> HIDE DEF a, b
    <3>1. content' \in [Buffers -> Seq(Rows)] /\ \A u \in Buffers : u # b => content'[u] = content[u]
      BY <1>0, <1>2, <2>1, <2>3
    <3> QED BY <3>1 DEF OwnBuffersOnly, b
  <2> QED BY <1>1, <2>2, <2>3
<1> HIDE DEF v
<1>5. PlaceInv' /\ QueueTypes'
  BY <1>1, <1>2, <1>3, PutOut DEF QueueNames
<1>6. queue'["free"] = queue["free"]
  BY <1>1 DEF Put
<1>7. FreeEmpty' /\ RestTypes'
  BY <1>1, <1>4, <1>5, <1>6, FreeStep, RestSame
<1>8. ThreadStep(c, "release", v)
  BY <1>1, <1>3 DEF ThreadStep, PCs
<1>9. HoldsRight(c, "release", v)
  BY <1>2, <1>3 DEF HoldsRight, InFull, InEmpty, OutFull, OutEmpty
<1>10. RoomRight(c, "release", v, content')
  BY DEF RoomRight
<1>11. CursorStep(c, "release")
  BY <1>0, <1>1, CursorSame
<1> QED BY <1>4, <1>5, <1>7, <1>8, <1>9, <1>10, <1>11, Combine

\* The buffer read goes to the senders, and the one that was to be written takes
\* its place.
LEMMA PushUncompressedStep ==
  ASSUME PipelineInv, NEW c \in Threads, Stage(c) = "comp", PushUncompressed(c)
  PROVE  PipelineInv'
<1> DEFINE a == loc[c].in
           b == loc[c].out
           w == [loc[c] EXCEPT !.in = b]
           v == [w EXCEPT !.out = NoBuffer]
<1>0. /\ loc[c] \in LocType /\ loc \in [Threads -> LocType] /\ content \in [Buffers -> Seq(Rows)]
      /\ QueueTypes /\ PlaceInv /\ c \notin Readers
      /\ HoldsRight(c, pc[c], loc[c]) /\ RoomRight(c, pc[c], loc[c], content)
  BY StepFacts, ThreadFacts
<1>1. /\ pc[c] = "compress" /\ pc' = [pc EXCEPT ![c] = "release"] /\ loc' = [loc EXCEPT ![c] = v]
      /\ Put("send", a) /\ content' = content /\ UNCHANGED <<finished, partPtr, cursor, sent, serve>>
  BY <1>0 DEF PushUncompressed, Goto
<1>2. a \in Buffers /\ b \in Buffers
  BY <1>0, <1>1 DEF HoldsRight, InFull, OutFull
<1>3. v \in LocType /\ v.in = b /\ v.out = NoBuffer
  <2>1. w \in LocType /\ w.in = b
    BY <1>0, <1>2, LocUpdate
  <2> HIDE DEF w
  <2>2. NoBuffer \in Buffers \cup {NoBuffer}
    OBVIOUS
  <2> QED BY <2>1, <2>2, LocUpdate
<1> HIDE DEF v, w
<1>4. /\ Moved(Held, <<c, "out">>, <<c, "in">>, NoBuffer, Held') /\ Held[<<c, "in">>] = a
  <2>1. <<c, "out">> # <<c, "in">>
    OBVIOUS
  <2> QED BY <1>0, <1>1, <1>3, <2>1, HeldUpdate DEF Moved
<1>5. PlaceInv' /\ QueueTypes'
  BY <1>0, <1>1, <1>2, <1>4, SwapKeeps DEF QueueNames
<1>6. OwnBuffersOnly(c) /\ queue'["free"] = queue["free"]
  BY <1>0, <1>1 DEF OwnBuffersOnly, Put
<1>7. FreeEmpty' /\ RestTypes'
  BY <1>1, <1>5, <1>6, FreeStep, RestSame
<1>8. ThreadStep(c, "release", v)
  BY <1>1, <1>3 DEF ThreadStep, PCs
<1>9. HoldsRight(c, "release", v)
  BY <1>2, <1>3 DEF HoldsRight, InFull, InEmpty, OutFull, OutEmpty
<1>10. RoomRight(c, "release", v, content')
  BY DEF RoomRight
<1>11. CursorStep(c, "release")
  BY <1>0, <1>1, CursorSame
<1> QED BY <1>5, <1>6, <1>7, <1>8, <1>9, <1>10, <1>11, Combine

\* A step of a compressor.
LEMMA CompressStep ==
  ASSUME PipelineInv, NEW c \in Threads, Stage(c) = "comp", Compress(c)
  PROVE  PipelineInv'
<1> DEFINE to == IF Compression THEN "popFree" ELSE "forward"
           full == [loc[c] EXCEPT !.out = Front("free")]
<1>0. loc[c] \in LocType /\ HoldsRight(c, pc[c], loc[c]) /\ c \notin Readers
  BY StepFacts, ThreadFacts
<1>1. CASE PopIn(c, to, "fetchAdd")
  <2>1. to \in PCs /\ to \in {"popFree", "forward"}
    BY DEF PCs
  <2> HIDE DEF to
  <2> QED BY <1>1, <2>1, PopInStep
<1>2. CASE PopFree(c, "popFree", Encode)
  <2>1. full.out \in Buffers /\ full.in = loc[c].in /\ pc[c] = "popFree" /\ cursor' = cursor
    BY <1>2, FreeTaken
  <2>2. loc[c].out = NoBuffer /\ loc[c].in \in Buffers
    BY <1>0, <2>1 DEF HoldsRight, OutEmpty, InFull
  <2>3. CursorStep(c, Encode)
    BY <1>0, <2>1, CursorSame
  <2>4. Encode \in PCs /\ Encode \in {"compress", "undefined"}
    BY DEF Encode, PCs
  <2>5. HoldsRight(c, Encode, full) /\ RoomRight(c, Encode, full, content)
    <3> HIDE DEF full
    <3> QED BY <2>1, <2>2, <2>4 DEF HoldsRight, RoomRight, InFull, InEmpty, OutFull, OutEmpty
  <2> QED BY <1>2, <2>2, <2>3, <2>4, <2>5, PopFreeStep
<1> HIDE DEF to, full
<1>3. CASE PushCompressed(c) \/ PushIneffective(c)
  BY <1>3, PushEncodedStep
<1>4. CASE PushUncompressed(c)
  BY <1>4, PushUncompressedStep
<1>5. CASE ReleaseIn(c, "pop")
  BY <1>5, ReleaseInStep
<1>6. CASE Forward(c)
  BY <1>6, ForwardStep
<1>7. CASE Finish(c)
  BY <1>7, FinishStep
<1> QED BY <1>1, <1>2, <1>3, <1>4, <1>5, <1>6, <1>7 DEF Compress, to

-----------------------------------------------------------------------------
\* A row occurs in a buffer a natural number of times.
LEMMA OccurrencesNat ==
  ASSUME NEW rows \in Seq(Rows), NEW r
  PROVE  Occurrences(r, rows) \in Nat
<1>1. Len(rows) \in Nat
  OBVIOUS
<1>2. IsFiniteSet(1..Len(rows))
  BY <1>1, FS_Interval
<1>3. IsFiniteSet({i \in 1..Len(rows) : rows[i] = r})
  BY <1>2, FS_Subset
<1> QED BY <1>3, FS_CardinalityType DEF Occurrences

\* What is written of a buffer are its rows, or the first of them.
LEMMA WrittenRows ==
  ASSUME NEW rows \in Seq(Rows), NEW w \in Written(rows)
  PROVE  /\ w \in Seq(Rows) /\ Len(w) <= Len(rows)
         /\ \A i \in 1..Len(w) : w[i] = rows[i]
         /\ Source # "clickhouse" \/ "cut" \notin Faults => w = rows
<1>1. CASE w = rows
  BY <1>1
<1>2. CASE w # rows
  <2>1. Source = "clickhouse" /\ "cut" \in Faults
    BY <1>2 DEF Written
  <2>2. PICK n \in 0..Len(rows) : w = SubSeq(rows, 1, n)
    BY <1>2, <2>1 DEF Written
  <2>3. n \in Nat /\ n <= Len(rows) /\ Len(rows) \in Nat
    OBVIOUS
  <2>4. w \in Seq(Rows) /\ Len(w) = n /\ \A i \in 1..n : w[i] = rows[i]
    BY <2>2, <2>3, SubSeqRows
  <2> QED BY <2>1, <2>3, <2>4
<1> QED BY <1>1, <1>2

\* A step of a sender.
LEMMA SendStep ==
  ASSUME PipelineInv, NEW s \in Threads, Stage(s) = "send", Send(s)
  PROVE  PipelineInv'
<1>0. /\ loc[s] \in LocType /\ content \in [Buffers -> Seq(Rows)] /\ RestTypes
      /\ HoldsRight(s, pc[s], loc[s]) /\ s \notin Readers
  BY StepFacts, ThreadFacts
<1>1. \A to : RoomRight(s, to, loc[s], content)
  BY DEF RoomRight
<1>2. CASE Bind(s)
  <2>1. pc[s] = "bind" /\ Goto(s, "accept") /\ UNCHANGED <<loc, queue, content>>
        /\ UNCHANGED <<finished, partPtr, cursor, sent, serve>>
    BY <1>2 DEF Bind
  <2>2. HoldsRight(s, "accept", loc[s])
    BY <1>0, <2>1 DEF HoldsRight, InFull, InEmpty, OutFull, OutEmpty
  <2>3. CursorStep(s, "accept") /\ RestTypes'
    BY <1>0, <2>1, CursorSame, RestSame
  <2> QED BY <1>1, <2>1, <2>2, <2>3, QuietStep DEF PCs
<1>3. CASE Accept(s)
  <2>1. pc[s] = "accept" /\ Goto(s, "pop") /\ UNCHANGED <<loc, queue, content>>
        /\ UNCHANGED <<finished, partPtr, cursor, sent, serve>>
    BY <1>3 DEF Accept
  <2>2. HoldsRight(s, "pop", loc[s])
    BY <1>0, <2>1 DEF HoldsRight, InFull, InEmpty, OutFull, OutEmpty
  <2>3. CursorStep(s, "pop") /\ RestTypes'
    BY <1>0, <2>1, CursorSame, RestSame
  <2> QED BY <1>1, <2>1, <2>2, <2>3, QuietStep DEF PCs
<1>4. CASE Write(s)
  <2>0. PICK rows \in Written(content[loc[s].in]) : sent' = [r \in Rows |-> sent[r] + Occurrences(r, rows)]
    BY <1>4 DEF Write
  <2>1. /\ pc[s] = "write" /\ Goto(s, "release") /\ UNCHANGED <<loc, queue, content>>
        /\ UNCHANGED <<finished, partPtr, cursor, serve>>
    BY <1>4 DEF Write
  <2>2. loc[s].in \in Buffers
    BY <1>0, <2>1 DEF HoldsRight, InFull
  <2>3. HoldsRight(s, "release", loc[s])
    BY <2>2, <1>0 DEF HoldsRight, InFull, InEmpty, OutFull, OutEmpty
  <2>4. ASSUME NEW r \in Rows PROVE sent[r] + Occurrences(r, rows) \in Nat
    <3>1. content[loc[s].in] \in Seq(Rows)
      BY <1>0, <2>2
    <3>2. rows \in Seq(Rows)
      BY <3>1, WrittenRows
    <3>3. Occurrences(r, rows) \in Nat
      BY <3>2, OccurrencesNat
    <3>4. sent[r] \in Nat
      BY <1>0 DEF RestTypes
    <3> QED BY <3>3, <3>4
  <2>5. RestTypes'
    BY <1>0, <2>0, <2>1, <2>4 DEF RestTypes
  <2>6. CursorStep(s, "release")
    BY <1>0, <2>1, CursorSame
  <2> QED BY <1>1, <2>1, <2>3, <2>5, <2>6, QuietStep DEF PCs
<1>5. CASE WriteFails(s)
  <2>1. Goto(s, "failed") /\ UNCHANGED <<loc, queue, content>> /\ UNCHANGED <<finished, partPtr, cursor, sent, serve>>
    BY <1>5 DEF WriteFails
  <2>2. HoldsRight(s, "failed", loc[s])
    BY PlainHolds DEF Plain
  <2>3. CursorStep(s, "failed") /\ RestTypes'
    BY <1>0, <2>1, CursorSame, RestSame
  <2> QED BY <1>1, <2>1, <2>2, <2>3, QuietStep DEF PCs
<1>6. CASE PopIn(s, "write", "done")
  BY <1>6, PopInStep DEF PCs
<1>7. CASE ReleaseIn(s, "pop")
  BY <1>7, ReleaseInStep
<1> QED BY <1>2, <1>3, <1>4, <1>5, <1>6, <1>7 DEF Send

-----------------------------------------------------------------------------
\* Every step of the specification preserves the invariant.
LEMMA PipelineStep == PipelineInv /\ [Next]_vars => PipelineInv'
<1> SUFFICES ASSUME PipelineInv, [Next]_vars PROVE PipelineInv'
  OBVIOUS
<1>1. ASSUME NEW t \in Threads, Step(t) PROVE PipelineInv'
  <2>1. CASE Stage(t) = "read" /\ Read(t)
    BY <2>1, ReadStep
  <2>2. CASE Stage(t) = "deser" /\ Deser(t)
    BY <2>2, DeserStep
  <2>3. CASE Stage(t) = "comp" /\ Compress(t)
    BY <2>3, CompressStep
  <2>4. CASE Stage(t) = "send" /\ Send(t)
    BY <2>4, SendStep
  <2> QED BY <1>1, <2>1, <2>2, <2>3, <2>4 DEF Step
<1>2. CASE Serve
  BY <1>2, ServeChange DEF Serve, ServeStates
<1>3. CASE UNCHANGED vars
  BY <1>3, ServeChange DEF vars, PipelineInv, FullTypes
<1> QED BY <1>1, <1>2, <1>3 DEF Next, Terminated

\* The inductive invariant holds in every reachable state.
THEOREM PipelineInvariant == Spec => []PipelineInv
BY PipelineInit, PipelineStep, PTL DEF Spec

\* Every variable of the transfer keeps its type: in particular every id in a queue
\* or in a thread's variable is an index into the pool, a sentinel or nothing.
THEOREM ServerTypeCorrect == Spec => []TypeOK
<1>1. PipelineInv => TypeOK
  BY DEF PipelineInv, FullTypes
<1> QED BY <1>1, PipelineInvariant, PTL

\* Every buffer of the pool is always in exactly one place, a queue or a variable of
\* a thread: no interleaving, no fault and no size of the pool makes two threads
\* share a buffer, hands one on twice, or loses one.
THEOREM BuffersConserved == Spec => []BufferConservation
<1>1. ASSUME PipelineInv PROVE BufferConservation
  <2> DEFINE queued == {s \in QueueSlots : queue[s[1]][s[2]] # Sentinel}
             held == {s \in ThreadSlots : loc[s[1]][s[2]] # NoBuffer}
  <2>1. /\ loc \in [Threads -> LocType] /\ QueueTypes /\ content \in [Buffers -> Seq(Rows)]
        /\ OnePlace(Buffers, queue, Held) /\ SomePlace(Buffers, queue, Held)
    BY <1>1, TypeParts DEF PipelineInv, PlaceInv
  <2>2. IsFiniteSet(Buffers) /\ DOMAIN content = Buffers
    BY <2>1, BufferFacts
  <2>3. ASSUME NEW p
        PROVE  p \in queued <=> \E n \in DOMAIN queue : \E i \in 1..Len(queue[n]) :
                                  p = <<n, i>> /\ queue[n][i] \in Buffers
    <3>1. ASSUME p \in queued
          PROVE  \E n \in DOMAIN queue : \E i \in 1..Len(queue[n]) : p = <<n, i>> /\ queue[n][i] \in Buffers
      <4>1. PICK n \in DOMAIN queue : p \in {n} \X (1..Len(queue[n]))
        BY <3>1 DEF QueueSlots
      <4>2. p = <<n, p[2]>> /\ p[1] = n /\ p[2] \in 1..Len(queue[n])
        BY <4>1
      <4>3. queue[n][p[2]] # Sentinel /\ queue[n] \in Seq(Buffers \cup {Sentinel})
        BY <2>1, <3>1, <4>2, QueueElements DEF QueueTypes
      <4>4. queue[n][p[2]] \in Buffers
        BY <4>2, <4>3
      <4> QED BY <4>2, <4>4
    <3>2. ASSUME NEW n \in DOMAIN queue, NEW i \in 1..Len(queue[n]), p = <<n, i>>, queue[n][i] \in Buffers
          PROVE  p \in queued
      <4>1. p \in {n} \X (1..Len(queue[n])) /\ queue[p[1]][p[2]] # Sentinel
        BY <3>2, BufferFacts
      <4>2. p \in QueueSlots
        BY <4>1 DEF QueueSlots
      <4> QED BY <4>1, <4>2
    <3> QED BY <3>1, <3>2
  <2>4. ASSUME NEW s
        PROVE  s \in held <=> s \in DOMAIN Held /\ Held[s] \in Buffers
    <3>1. s \in ThreadSlots => Held[s] = loc[s[1]][s[2]] /\ Held[s] \in Buffers \cup {NoBuffer}
      <4> SUFFICES ASSUME s \in ThreadSlots
                   PROVE  Held[s] = loc[s[1]][s[2]] /\ Held[s] \in Buffers \cup {NoBuffer}
        OBVIOUS
      <4>1. s[1] \in Threads /\ s[2] \in {"in", "out"} /\ Held[s] = loc[s[1]][s[2]]
        BY <2>1 DEF ThreadSlots, Held
      <4>2. loc[s[1]].in \in Buffers \cup {NoBuffer} /\ loc[s[1]].out \in Buffers \cup {NoBuffer}
        BY <2>1, <4>1 DEF LocType
      <4>3. loc[s[1]]["in"] \in Buffers \cup {NoBuffer} /\ loc[s[1]]["out"] \in Buffers \cup {NoBuffer}
        BY <4>2
      <4> QED BY <4>1, <4>3
    <3>2. DOMAIN Held = ThreadSlots
      BY DEF Held
    <3> QED BY <3>1, <3>2, BufferFacts
  <2> HIDE DEF queued, held
  <2>5. QueuePlaces(Buffers, queue, queued) /\ HeldPlaces(Buffers, Held, held)
    BY <2>3, <2>4 DEF QueuePlaces, HeldPlaces
  <2>7. PlacesSuffice(Buffers, queue, Held, queued, held)
    BY <2>1, <2>2, <2>5, PlacesCount
  <2>6. {Held[s] : s \in held} = {loc[s[1]][s[2]] : s \in held}
    BY DEF Held, held
  <2> QED BY <2>2, <2>6, <2>7 DEF BufferConservation, PlacesSuffice, queued, held
<1> QED BY <1>1, PipelineInvariant, PTL

-----------------------------------------------------------------------------
\* A file that is asked for but not there belongs to a partition before the last,
\* and the last one then starts after the last file.
LEMMA MissingFile ==
  ASSUME PipelineInv, NEW r \in Readers, Parquet,
         cursor[r].line < EndOff(cursor[r].part), cursor[r].line >= NumFiles
  PROVE  StartOff(PartNum - 1) > NumFiles
<1> DEFINE p == cursor[r].part
           line == cursor[r].line
<1>1. p \in (0..(PartNum - 1)) \cup {Sentinel} /\ line \in Nat
  BY DEF PipelineInv, FullTypes, CursorType
<1>2. PartNum \in Nat \ {0} /\ PartSize \in Nat /\ NumFiles \in Nat
  BY PartArithmetic
<1>3. p # PartNum - 1
  BY <1>1, <1>2 DEF EndOff, LastOff, MaxRowNum, Parquet
<1>4. line < (p + 1) * PartSize
  BY <1>3 DEF EndOff
<1> HIDE DEF p, line
<1>5. p # Sentinel
  BY <1>1, <1>2, <1>4 DEF Sentinel
<1>6. p \in Nat /\ p < PartNum - 1 /\ PartNum - 1 \in Nat
  BY <1>1, <1>2, <1>3, <1>5
<1>7. (p + 1) * PartSize <= (PartNum - 1) * PartSize
  BY <1>2, <1>6, ProductMonotone
<1>8. (p + 1) * PartSize \in Int /\ (PartNum - 1) * PartSize \in Int
  BY <1>2, <1>6, ProductInt
<1> QED BY <1>1, <1>2, <1>4, <1>7, <1>8 DEF StartOff, line

\* The process is ended by wc() or by an exception of readPQ or deserializePQ, and
\* only if a file cannot be read or the rounding of the partitions lets the last one
\* start after the last file.
THEOREM AbortsExplained == Spec => []AbortsOnlyWithoutFile
<1>1. Init => AbortsOnlyWithoutFile
  BY DEF Init, AbortsOnlyWithoutFile
<1>2. ASSUME PipelineInv, AbortsOnlyWithoutFile, [Next]_vars PROVE AbortsOnlyWithoutFile'
  <2> SUFFICES serve' # serve /\ serve' = "aborted" => "open" \in Faults \/ StartOff(PartNum - 1) > NumFiles
    BY <1>2 DEF AbortsOnlyWithoutFile
  <2>1. ASSUME NEW t \in Threads, Stage(t) = "read", Read(t), serve' # serve
        PROVE  "open" \in Faults \/ StartOff(PartNum - 1) > NumFiles
    <3>1. t \in Readers /\ pc[t] \in ReaderPCs
      BY <1>2, <2>1, ThreadFacts, StepFacts
    <3>2. FileFails(t) \/ CountFails \/ OpenFile(t)
      BY <2>1 DEF Read, OpenFails, PopFree, PopPart, ReadLines, ReadFile, PushOut, Finish, FetchAdd, LoadFinished, PushSentinel
    <3>3. CASE FileFails(t) \/ CountFails
      BY <3>3 DEF FileFails, CountFails
    <3>4. CASE OpenFile(t)
      <4>1. Parquet /\ cursor[t].line < EndOff(cursor[t].part) /\ cursor[t].line >= NumFiles
        BY <2>1, <3>1, <3>4 DEF OpenFile, ReaderPCs
      <4> QED BY <1>2, <3>1, <4>1, MissingFile
    <3> QED BY <3>2, <3>3, <3>4
  <2>2. ASSUME NEW t \in Threads, Deser(t) PROVE serve' = serve \/ "open" \in Faults
    BY <2>2 DEF Deser, PopFree, PopFirst, Deserialize, DeserFails, PushOut, ReleaseIn, PopNext, PopIn, Forward,
                Finish, FetchAdd, LoadFinished, PushSentinel
  <2>3. ASSUME NEW t \in Threads, Compress(t) PROVE serve' = serve
    BY <2>3 DEF Compress, PopIn, Forward, PopFree, PushCompressed, PushUncompressed, PushIneffective, ReleaseIn,
                Finish, FetchAdd, LoadFinished, PushSentinel
  <2>4. ASSUME NEW t \in Threads, Send(t) PROVE serve' = serve
    BY <2>4 DEF Send, Bind, Accept, PopIn, Write, WriteFails, ReleaseIn
  <2>5. ASSUME Serve PROVE serve' # "aborted"
    BY <2>5 DEF Serve
  <2>6. CASE UNCHANGED vars
    BY <2>6 DEF vars
  <2> QED BY <1>2, <2>1, <2>2, <2>3, <2>4, <2>5, <2>6 DEF Next, Step, Terminated
<1> QED BY <1>1, <1>2, PipelineInvariant, PTL DEF Spec

-----------------------------------------------------------------------------
(* The hand-offs between the stages implement StageQueue.  A step of a thread is *)
(* first described by what it does to the queues and to the thread's part as a   *)
(* producer and as a consumer; that is then read as a step of StageQueue.        *)

ProducerAt(s) == IF s \in {"load", "signal", "done"} THEN s ELSE "produce"

StoppedAt(s) == s \in {"pushLast", "fetchAdd", "load", "signal", "done"}

Between == {"deser", "comp", "send"}

OnlyMoves(t) == \A u \in Threads : u # t => pc'[u] = pc[u] /\ loc'[u] = loc[u]

SameProducer(t) ==
  /\ finished' = finished
  /\ Stage(t) # "send" => ProducerAt(pc'[t]) = ProducerAt(pc[t]) /\ loc'[t].left = loc[t].left

SameConsumer(t) == Stage(t) # "read" => (StoppedAt(pc'[t]) <=> StoppedAt(pc[t]))

\* Whether t pushes a buffer, pops one, pops its sentinel, counts itself, looks at
\* the counter, pushes a sentinel, or does none of these.
Quiet(t) == SameProducer(t) /\ SameConsumer(t) /\ \A n \in Between : queue'[n] = queue[n]

Pushes(t) ==
  /\ Stage(t) \in {"read", "deser", "comp"} /\ SameProducer(t) /\ SameConsumer(t)
  /\ ProducerAt(pc[t]) = "produce"
  /\ \E b \in Buffers : Put(NextStage[Stage(t)], b)

PopsBuffer(t) ==
  /\ Stage(t) \in Between /\ SameProducer(t) /\ SameConsumer(t) /\ ~StoppedAt(pc[t])
  /\ Take(Stage(t)) /\ (Front(Stage(t)) # Sentinel \/ Stage(t) = "deser")

PopsStop(t) ==
  /\ Stage(t) \in Between /\ SameProducer(t) /\ ~StoppedAt(pc[t]) /\ StoppedAt(pc'[t])
  /\ Take(Stage(t)) /\ Front(Stage(t)) = Sentinel

Counts(t) ==
  /\ Stage(t) \in {"read", "deser", "comp"} /\ pc[t] = "fetchAdd" /\ pc'[t] = "load"
  /\ finished' = [finished EXCEPT ![Stage(t)] = @ + 1]
  /\ queue' = queue /\ loc'[t].left = loc[t].left

Looks(t) ==
  /\ Stage(t) \in {"read", "deser", "comp"} /\ pc[t] = "load" /\ finished' = finished /\ queue' = queue
  /\ IF finished[Stage(t)] = Parallelism[Stage(t)]
     THEN pc'[t] = "signal" /\ loc'[t].left = Parallelism[NextStage[Stage(t)]]
     ELSE pc'[t] = "done" /\ loc'[t].left = loc[t].left

Signals(t) ==
  /\ Stage(t) \in {"read", "deser", "comp"} /\ pc[t] = "signal" /\ finished' = finished
  /\ Put(NextStage[Stage(t)], Sentinel) /\ loc'[t].left = loc[t].left - 1
  /\ pc'[t] = IF loc[t].left = 1 THEN "done" ELSE "signal"

Effect(t) ==
  /\ OnlyMoves(t)
  /\ Quiet(t) \/ Pushes(t) \/ PopsBuffer(t) \/ PopsStop(t) \/ Counts(t) \/ Looks(t) \/ Signals(t)

\* fetch_add, the second look and the sentinels.
LEMMA FinishEffect ==
  ASSUME PipelineInv, NEW t \in Threads, Stage(t) \in {"read", "deser", "comp"}, Finish(t)
  PROVE  Effect(t)
<1>0. loc \in [Threads -> LocType] /\ loc[t] \in LocType /\ pc \in [Threads -> PCs]
  BY StepFacts
<1>1. CASE FetchAdd(t)
  <2>1. pc[t] = "fetchAdd" /\ pc' = [pc EXCEPT ![t] = "load"] /\ loc' = loc /\ queue' = queue
        /\ finished' = [finished EXCEPT ![Stage(t)] = @ + 1]
    BY <1>1 DEF FetchAdd, Goto
  <2> QED BY <1>0, <2>1 DEF Effect, OnlyMoves, Counts
<1>2. CASE LoadFinished(t)
  <2>1. pc[t] = "load" /\ queue' = queue /\ finished' = finished
    BY <1>2 DEF LoadFinished
  <2>2. CASE finished[Stage(t)] = Parallelism[Stage(t)]
    <3>1. pc' = [pc EXCEPT ![t] = "signal"] /\ loc' = [loc EXCEPT ![t].left = Parallelism[NextStage[Stage(t)]]]
      BY <1>2, <2>2 DEF LoadFinished, Goto
    <3>2. OnlyMoves(t) /\ pc'[t] = "signal" /\ loc'[t].left = Parallelism[NextStage[Stage(t)]]
      BY <1>0, <3>1 DEF OnlyMoves, LocType
    <3> QED BY <2>1, <2>2, <3>2 DEF Effect, Looks
  <2>3. CASE finished[Stage(t)] # Parallelism[Stage(t)]
    <3>1. pc' = [pc EXCEPT ![t] = "done"] /\ loc' = loc
      BY <1>2, <2>3 DEF LoadFinished, Goto
    <3> QED BY <1>0, <2>1, <2>3, <3>1 DEF Effect, Looks, OnlyMoves
  <2> QED BY <2>2, <2>3
<1>3. CASE PushSentinel(t)
  <2>1. /\ pc[t] = "signal" /\ pc' = [pc EXCEPT ![t] = IF loc[t].left = 1 THEN "done" ELSE "signal"]
        /\ loc' = [loc EXCEPT ![t].left = @ - 1] /\ Put(NextStage[Stage(t)], Sentinel) /\ finished' = finished
    BY <1>3 DEF PushSentinel, Goto
  <2>2. /\ OnlyMoves(t) /\ pc'[t] = IF loc[t].left = 1 THEN "done" ELSE "signal"
        /\ loc'[t].left = loc[t].left - 1
    BY <1>0, <2>1 DEF OnlyMoves, LocType
  <2> QED BY <2>1, <2>2 DEF Effect, Signals
<1> QED BY <1>1, <1>2, <1>3 DEF Finish

\* A free buffer taken, and one handed on.
LEMMA PopFreeEffect ==
  ASSUME PipelineInv, NEW t \in Threads, NEW from, NEW to, PopFree(t, from, to),
         from \in {"popFree", "refill"}, to \notin {"pushLast", "fetchAdd", "load", "signal", "done"}
  PROVE  Effect(t)
<1>0. loc \in [Threads -> LocType] /\ loc[t] \in LocType /\ pc \in [Threads -> PCs] /\ QueueTypes
  BY StepFacts
<1>1. /\ pc[t] = from /\ pc' = [pc EXCEPT ![t] = to] /\ loc' = [loc EXCEPT ![t].out = Front("free")]
      /\ finished' = finished /\ queue' = [queue EXCEPT !["free"] = Tail(@)]
  BY DEF PopFree, Goto, Take
<1>2. OnlyMoves(t) /\ pc'[t] = to /\ loc'[t].left = loc[t].left
  BY <1>0, <1>1 DEF OnlyMoves, LocType
<1>3. \A n \in Between : queue'[n] = queue[n]
  BY <1>0, <1>1 DEF QueueTypes, QueueNames, Between
<1> QED BY <1>1, <1>2, <1>3 DEF Effect, Quiet, SameProducer, SameConsumer, ProducerAt, StoppedAt

\* A buffer handed on.
LEMMA PushOutEffect ==
  ASSUME PipelineInv, NEW t \in Threads, Stage(t) \in {"read", "deser", "comp"},
         NEW from, NEW to, PushOut(t, from, to), loc[t].out \in Buffers,
         \/ from \in {"pushFile", "pushFull"} /\ to \in {"openFile", "refill"}
         \/ from = "pushLast" /\ to = "fetchAdd"
  PROVE  Effect(t)
<1>0. loc \in [Threads -> LocType] /\ loc[t] \in LocType /\ pc \in [Threads -> PCs]
  BY StepFacts
<1>1. /\ pc[t] = from /\ pc' = [pc EXCEPT ![t] = to] /\ loc' = [loc EXCEPT ![t].out = NoBuffer]
      /\ finished' = finished /\ Put(NextStage[Stage(t)], loc[t].out)
  BY DEF PushOut, Goto
<1>2. OnlyMoves(t) /\ pc'[t] = to /\ loc'[t].left = loc[t].left
  BY <1>0, <1>1 DEF OnlyMoves, LocType
<1>3. SameProducer(t) /\ SameConsumer(t) /\ ProducerAt(pc[t]) = "produce"
  BY <1>1, <1>2 DEF SameProducer, SameConsumer, ProducerAt, StoppedAt
<1> QED BY <1>1, <1>2, <1>3 DEF Effect, Pushes

\* A buffer returned to the free queue.
LEMMA ReleaseInEffect ==
  ASSUME PipelineInv, NEW t \in Threads, NEW to, ReleaseIn(t, to), to \in {"pop", "popNext"}
  PROVE  Effect(t)
<1>0. loc \in [Threads -> LocType] /\ loc[t] \in LocType /\ pc \in [Threads -> PCs] /\ QueueTypes
  BY StepFacts
<1>1. /\ pc[t] = "release" /\ pc' = [pc EXCEPT ![t] = to]
      /\ loc' = [loc EXCEPT ![t].in = NoBuffer, ![t].off = 0]
      /\ finished' = finished /\ queue' = [queue EXCEPT !["free"] = Append(@, loc[t].in)]
  BY DEF ReleaseIn, Goto, Put
<1>2. OnlyMoves(t) /\ pc'[t] = to /\ loc'[t].left = loc[t].left
  BY <1>0, <1>1 DEF OnlyMoves, LocType
<1>3. \A n \in Between : queue'[n] = queue[n]
  BY <1>0, <1>1 DEF QueueTypes, QueueNames, Between
<1> QED BY <1>1, <1>2, <1>3 DEF Effect, Quiet, SameProducer, SameConsumer, ProducerAt, StoppedAt

\* A buffer or the sentinel popped.
LEMMA PopInEffect ==
  ASSUME PipelineInv, NEW t \in Threads, Stage(t) \in Between, NEW to, NEW end, PopIn(t, to, end),
         to \in {"forward", "popFree", "write"},
         IF Stage(t) = "send" THEN end = "done" ELSE end = "fetchAdd"
  PROVE  Effect(t)
<1>0. loc \in [Threads -> LocType] /\ loc[t] \in LocType /\ pc \in [Threads -> PCs]
  BY StepFacts
<1>1. pc[t] = "pop" /\ Take(Stage(t)) /\ finished' = finished
  BY DEF PopIn
<1>2. CASE Front(Stage(t)) = Sentinel
  <2>1. pc' = [pc EXCEPT ![t] = end] /\ loc' = loc
    BY <1>2 DEF PopIn, Goto
  <2>2. OnlyMoves(t) /\ pc'[t] = end /\ loc'[t].left = loc[t].left
    BY <1>0, <2>1 DEF OnlyMoves
  <2>3. SameProducer(t) /\ ~StoppedAt(pc[t]) /\ StoppedAt(pc'[t])
    BY <1>1, <2>2 DEF SameProducer, ProducerAt, StoppedAt
  <2> QED BY <1>1, <1>2, <2>2, <2>3 DEF Effect, PopsStop
<1>3. CASE Front(Stage(t)) # Sentinel
  <2>1. pc' = [pc EXCEPT ![t] = to] /\ loc' = [loc EXCEPT ![t].in = Front(Stage(t))]
    BY <1>3 DEF PopIn, Goto
  <2>2. OnlyMoves(t) /\ pc'[t] = to /\ loc'[t].left = loc[t].left
    BY <1>0, <2>1 DEF OnlyMoves, LocType
  <2>3. SameProducer(t) /\ SameConsumer(t) /\ ~StoppedAt(pc[t])
    BY <1>1, <2>2 DEF SameProducer, SameConsumer, ProducerAt, StoppedAt
  <2> QED BY <1>1, <1>3, <2>2, <2>3 DEF Effect, PopsBuffer
<1> QED BY <1>2, <1>3

\* A buffer forwarded.
LEMMA ForwardEffect ==
  ASSUME PipelineInv, NEW t \in Threads, Stage(t) \in {"deser", "comp"}, Forward(t)
  PROVE  Effect(t)
<1>0. loc \in [Threads -> LocType] /\ loc[t] \in LocType /\ pc \in [Threads -> PCs] /\ HoldsRight(t, pc[t], loc[t])
  BY StepFacts
<1>1. /\ pc[t] = "forward" /\ pc' = [pc EXCEPT ![t] = "pop"] /\ loc' = [loc EXCEPT ![t].in = NoBuffer]
      /\ finished' = finished /\ Put(NextStage[Stage(t)], loc[t].in)
  BY DEF Forward, Goto
<1>2. OnlyMoves(t) /\ pc'[t] = "pop" /\ loc'[t].left = loc[t].left
  BY <1>0, <1>1 DEF OnlyMoves, LocType
<1>3. SameProducer(t) /\ SameConsumer(t) /\ ProducerAt(pc[t]) = "produce"
  BY <1>1, <1>2 DEF SameProducer, SameConsumer, ProducerAt, StoppedAt
<1>4. loc[t].in \in Buffers
  BY <1>0, <1>1 DEF HoldsRight, InFull
<1> QED BY <1>1, <1>2, <1>3, <1>4 DEF Effect, Pushes

\* A step that leaves queues and counters alone.
LEMMA QuietEffect ==
  ASSUME PipelineInv, NEW t \in Threads, NEW s, pc' = [pc EXCEPT ![t] = s], UNCHANGED <<queue, finished>>,
         OnlyMoves(t), loc'[t].left = loc[t].left,
         ProducerAt(pc[t]) = ProducerAt(s) \/ Stage(t) = "send",
         (StoppedAt(pc[t]) <=> StoppedAt(s)) \/ Stage(t) = "read"
  PROVE  Effect(t)
<1>1. pc'[t] = s
  BY StepFacts
<1> QED BY <1>1 DEF Effect, Quiet, SameProducer, SameConsumer

\* The steps of a reader.
LEMMA ReadEffect ==
  ASSUME PipelineInv, NEW t \in Threads, Stage(t) = "read", Read(t)
  PROVE  Effect(t)
<1>0. loc \in [Threads -> LocType] /\ loc[t] \in LocType /\ pc \in [Threads -> PCs] /\ HoldsRight(t, pc[t], loc[t])
  BY StepFacts
<1>1. CASE OpenFails(t)
  <2>1. pc' = [pc EXCEPT ![t] = "failed"] /\ UNCHANGED <<queue, finished, loc>> /\ pc[t] = "popFree"
    BY <1>1 DEF OpenFails, Goto
  <2> QED BY <1>0, <2>1, QuietEffect DEF OnlyMoves, ProducerAt
<1>2. CASE PopFree(t, "popFree", IF Source = "parquet" THEN "readFile" ELSE "popPart")
  BY <1>2, PopFreeEffect
<1>3. CASE PopPart(t)
  <2>1. PICK s \in {"pushLast", "fetchAdd", "openFile", "readLines"} : pc' = [pc EXCEPT ![t] = s]
    BY <1>3 DEF PopPart, Goto
  <2>2. UNCHANGED <<queue, finished, loc>> /\ pc[t] = "popPart"
    BY <1>3 DEF PopPart
  <2> QED BY <1>0, <2>1, <2>2, QuietEffect DEF OnlyMoves, ProducerAt
<1>4. CASE ReadLines(t)
  <2>1. PICK s \in {"pushFull", "popPart"} : pc' = [pc EXCEPT ![t] = s]
    BY <1>4 DEF ReadLines, Goto
  <2>2. UNCHANGED <<queue, finished, loc>> /\ pc[t] = "readLines"
    BY <1>4 DEF ReadLines
  <2> QED BY <1>0, <2>1, <2>2, QuietEffect DEF OnlyMoves, ProducerAt
<1>5. CASE pc' = pc /\ loc' = loc /\ queue' = queue /\ finished' = finished
  BY <1>5 DEF Effect, OnlyMoves, Quiet, SameProducer, SameConsumer
<1>6. CASE OpenFile(t)
  <2>1. CASE Throw
    BY <1>5, <2>1 DEF Throw
  <2>2. CASE ~Throw
    <3>1. PICK s \in {"popFree", "popPart"} : pc' = [pc EXCEPT ![t] = s]
      BY <1>6, <2>2 DEF OpenFile, Goto
    <3>2. UNCHANGED <<queue, finished, loc>> /\ pc[t] = "openFile"
      BY <1>6, <2>2 DEF OpenFile
    <3> QED BY <1>0, <3>1, <3>2, QuietEffect DEF OnlyMoves, ProducerAt
  <2> QED BY <2>1, <2>2
<1>7. CASE FileFails(t) \/ CountFails
  BY <1>5, <1>7 DEF FileFails, CountFails, Throw
<1>8. CASE ReadFile(t)
  <2>1. pc' = [pc EXCEPT ![t] = "pushFile"] /\ UNCHANGED <<queue, finished, loc>> /\ pc[t] = "readFile"
    BY <1>8 DEF ReadFile, Goto
  <2> QED BY <1>0, <2>1, QuietEffect DEF OnlyMoves, ProducerAt
<1>9. ASSUME NEW from, NEW to, PushOut(t, from, to),
             \/ from = "pushFile" /\ to = "openFile"
             \/ from = "pushFull" /\ to = "refill"
             \/ from = "pushLast" /\ to = "fetchAdd"
      PROVE  Effect(t)
  <2>1. loc[t].out \in Buffers
    BY <1>0, <1>9 DEF PushOut, HoldsRight, OutFull
  <2> QED BY <1>9, <2>1, PushOutEffect
<1>10. CASE PopFree(t, "refill", "readLines")
  BY <1>10, PopFreeEffect
<1>11. CASE Finish(t)
  BY <1>11, FinishEffect
<1> QED BY <1>1, <1>2, <1>3, <1>4, <1>6, <1>7, <1>8, <1>9, <1>10, <1>11 DEF Read

\* The steps of a deserializer.
LEMMA DeserEffect ==
  ASSUME PipelineInv, NEW t \in Threads, Stage(t) = "deser", Deser(t)
  PROVE  Effect(t)
<1>0. loc \in [Threads -> LocType] /\ loc[t] \in LocType /\ pc \in [Threads -> PCs] /\ HoldsRight(t, pc[t], loc[t])
  BY StepFacts
<1>1. CASE PopFree(t, "popFree", CASE Source # "parquet" -> "popFirst"
                                   [] Source = "parquet" /\ loc[t].in = NoBuffer -> "undefined"
                                   [] OTHER -> "deserialize")
  BY <1>1, PopFreeEffect
<1>2. CASE PopFirst(t)
  <2>1. pc[t] = "popFirst" /\ Take(Stage(t)) /\ finished' = finished
    BY <1>2 DEF PopFirst
  <2>2. PICK s \in {"popFree", "undefined", "deserialize"} : pc' = [pc EXCEPT ![t] = s]
    BY <1>2 DEF PopFirst, Goto
  <2>3. OnlyMoves(t) /\ pc'[t] = s /\ loc'[t].left = loc[t].left
    BY <1>0, <1>2, <2>2 DEF PopFirst, OnlyMoves, LocType
  <2>4. SameProducer(t) /\ SameConsumer(t) /\ ~StoppedAt(pc[t])
    BY <2>1, <2>3 DEF SameProducer, SameConsumer, ProducerAt, StoppedAt
  <2> QED BY <2>1, <2>3, <2>4 DEF Effect, PopsBuffer, Between
<1>3. CASE Deserialize(t)
  <2>1. PICK s \in {"pushFull", "release"} : pc' = [pc EXCEPT ![t] = s]
    BY <1>3 DEF Deserialize, Goto
  <2> DEFINE n == Least(Len(content[loc[t].in]) - loc[t].off, TuplesPerBuffer - Len(content[loc[t].out]))
             k == loc[t].off + n
  <2>3. UNCHANGED <<queue, finished>> /\ pc[t] = "deserialize" /\ loc' = [loc EXCEPT ![t].off = k]
    BY <1>0, <1>3 DEF Deserialize
  <2> HIDE DEF k, n
  <2>4. OnlyMoves(t)
    BY <1>0, <2>1, <2>3 DEF OnlyMoves
  <2>5. loc'[t] = [loc[t] EXCEPT !.off = k]
    BY <1>0, <2>3
  <2>2. UNCHANGED <<queue, finished>> /\ pc[t] = "deserialize" /\ OnlyMoves(t) /\ loc'[t].left = loc[t].left
    BY <1>0, <2>3, <2>4, <2>5 DEF LocType
  <2> QED BY <1>0, <2>1, <2>2, QuietEffect DEF ProducerAt, StoppedAt
<1>4. ASSUME NEW from, NEW to, PushOut(t, from, to),
             \/ from = "pushFull" /\ to = "refill"
             \/ from = "pushLast" /\ to = "fetchAdd"
      PROVE  Effect(t)
  <2>1. loc[t].out \in Buffers
    BY <1>0, <1>4 DEF PushOut, HoldsRight, OutFull
  <2> QED BY <1>4, <2>1, PushOutEffect
<1>5. CASE PopFree(t, "refill", "deserialize")
  BY <1>5, PopFreeEffect
<1>6. CASE ReleaseIn(t, "popNext")
  BY <1>6, ReleaseInEffect
<1>7. CASE PopNext(t)
  <2>1. pc[t] = "popNext" /\ Take(Stage(t)) /\ finished' = finished
    BY <1>7 DEF PopNext
  <2>2. CASE Front("deser") = Sentinel
    <3>1. PICK s \in {"fetchAdd", "pushLast"} : pc' = [pc EXCEPT ![t] = s]
      BY <1>7, <2>2 DEF PopNext, Goto
    <3>2. OnlyMoves(t) /\ pc'[t] = s /\ loc'[t].left = loc[t].left
      BY <1>0, <1>7, <2>2, <3>1 DEF PopNext, OnlyMoves
    <3>3. SameProducer(t) /\ ~StoppedAt(pc[t]) /\ StoppedAt(pc'[t])
      BY <2>1, <3>2 DEF SameProducer, ProducerAt, StoppedAt
    <3> QED BY <2>1, <2>2, <3>2, <3>3 DEF Effect, PopsStop, Between
  <2>3. CASE Front("deser") # Sentinel
    <3>1. OnlyMoves(t) /\ pc'[t] = "deserialize" /\ loc'[t].left = loc[t].left
      BY <1>0, <1>7, <2>3 DEF PopNext, Goto, OnlyMoves, LocType
    <3>2. SameProducer(t) /\ SameConsumer(t) /\ ~StoppedAt(pc[t])
      BY <2>1, <3>1 DEF SameProducer, SameConsumer, ProducerAt, StoppedAt
    <3> QED BY <2>1, <2>3, <3>1, <3>2 DEF Effect, PopsBuffer, Between
  <2> QED BY <2>2, <2>3
<1>8. CASE PopIn(t, "forward", "fetchAdd")
  BY <1>8, PopInEffect DEF Between
<1>9. CASE Forward(t)
  BY <1>9, ForwardEffect
<1>10. CASE Finish(t)
  BY <1>10, FinishEffect
<1>11. CASE DeserFails(t)
  BY <1>11 DEF DeserFails, Throw, Effect, OnlyMoves, Quiet, SameProducer, SameConsumer
<1> QED BY <1>1, <1>2, <1>3, <1>4, <1>5, <1>6, <1>7, <1>8, <1>9, <1>10, <1>11 DEF Deser

\* The steps of a compressor.
LEMMA CompressEffect ==
  ASSUME PipelineInv, NEW t \in Threads, Stage(t) = "comp", Compress(t)
  PROVE  Effect(t)
<1>0. loc \in [Threads -> LocType] /\ loc[t] \in LocType /\ pc \in [Threads -> PCs] /\ HoldsRight(t, pc[t], loc[t])
  BY StepFacts
<1>1. CASE PopIn(t, IF Compression THEN "popFree" ELSE "forward", "fetchAdd")
  BY <1>1, PopInEffect DEF Between
<1>2. CASE Forward(t)
  BY <1>2, ForwardEffect
<1>3. CASE PopFree(t, "popFree", Encode)
  <2>1. Encode \in {"compress", "undefined"}
    BY DEF Encode
  <2> QED BY <1>3, <2>1, PopFreeEffect
<1>4. CASE PushCompressed(t) \/ PushUncompressed(t) \/ PushIneffective(t)
  <2>1. pc[t] = "compress" /\ finished' = finished /\ pc' = [pc EXCEPT ![t] = "release"]
    BY <1>4 DEF PushCompressed, PushUncompressed, PushIneffective, Goto
  <2>2. loc[t].in \in Buffers /\ loc[t].out \in Buffers
    BY <1>0, <2>1 DEF HoldsRight, InFull, OutFull
  <2>3. PICK b \in Buffers : Put("send", b)
    BY <1>4, <2>2 DEF PushCompressed, PushUncompressed, PushIneffective
  <2>4. OnlyMoves(t) /\ pc'[t] = "release" /\ loc'[t].left = loc[t].left
    BY <1>0, <1>4, <2>1 DEF PushCompressed, PushUncompressed, PushIneffective, OnlyMoves, LocType
  <2>5. SameProducer(t) /\ SameConsumer(t) /\ ProducerAt(pc[t]) = "produce"
    BY <2>1, <2>4 DEF SameProducer, SameConsumer, ProducerAt, StoppedAt
  <2>6. NextStage[Stage(t)] = "send"
    BY DEF NextStage
  <2> QED BY <2>3, <2>4, <2>5, <2>6 DEF Effect, Pushes
<1>5. CASE ReleaseIn(t, "pop")
  BY <1>5, ReleaseInEffect
<1>6. CASE Finish(t)
  BY <1>6, FinishEffect
<1> QED BY <1>1, <1>2, <1>3, <1>4, <1>5, <1>6 DEF Compress

\* The steps of a sender.
LEMMA SendEffect ==
  ASSUME PipelineInv, NEW t \in Threads, Stage(t) = "send", Send(t)
  PROVE  Effect(t)
<1>0. loc \in [Threads -> LocType] /\ loc[t] \in LocType /\ pc \in [Threads -> PCs]
  BY StepFacts
<1>1. CASE Bind(t) \/ Accept(t) \/ Write(t) \/ WriteFails(t)
  <2>1. PICK s \in {"accept", "pop", "release", "failed"} : pc' = [pc EXCEPT ![t] = s]
    BY <1>1 DEF Bind, Accept, Write, WriteFails, Goto
  <2>2. UNCHANGED <<queue, finished, loc>> /\ pc[t] \in {"bind", "accept", "write"}
    BY <1>1 DEF Bind, Accept, Write, WriteFails
  <2> QED BY <1>0, <2>1, <2>2, QuietEffect DEF OnlyMoves, StoppedAt
<1>2. CASE PopIn(t, "write", "done")
  BY <1>2, PopInEffect DEF Between
<1>3. CASE ReleaseIn(t, "pop")
  BY <1>3, ReleaseInEffect
<1> QED BY <1>1, <1>2, <1>3 DEF Send

\* Every step of a thread, and of the main thread.
LEMMA StepEffect ==
  ASSUME PipelineInv, [Next]_vars
  PROVE  (\E t \in Threads : Effect(t)) \/ UNCHANGED <<pc, loc, queue, finished>>
<1>1. ASSUME NEW t \in Threads, Step(t) PROVE Effect(t)
  BY <1>1, ReadEffect, DeserEffect, CompressEffect, SendEffect DEF Step
<1>2. CASE Serve
  BY <1>2 DEF Serve
<1>3. CASE UNCHANGED vars
  BY <1>3 DEF vars
<1> QED BY <1>1, <1>2, <1>3 DEF Next, Terminated

\* What StageQueue sees of the producers and of the consumers.
Producing(P) == [p \in P |-> ProducerState(p)]
Sentinels(P) == [p \in P |-> loc[p].left]
Consuming(C) == [c \in C |-> ConsumerState(c)]

\* Threads that are no part of a stage, or do not change their part in it, leave it
\* as it is.
LEMMA ProducersSame ==
  ASSUME NEW P, P \subseteq Threads, NEW t \in Threads, OnlyMoves(t),
         t \in P => ProducerAt(pc'[t]) = ProducerAt(pc[t]) /\ loc'[t].left = loc[t].left
  PROVE  Producing(P)' = Producing(P) /\ Sentinels(P)' = Sentinels(P)
<1>1. ASSUME NEW p \in P PROVE ProducerState(p)' = ProducerState(p) /\ loc'[p].left = loc[p].left
  BY DEF OnlyMoves, ProducerState, ProducerAt
<1> QED BY <1>1 DEF Producing, Sentinels

\* Likewise for the consumers.
LEMMA ConsumersSame ==
  ASSUME NEW C, C \subseteq Threads, NEW t \in Threads, OnlyMoves(t),
         t \in C => (StoppedAt(pc'[t]) <=> StoppedAt(pc[t]))
  PROVE  Consuming(C)' = Consuming(C)
<1>1. ASSUME NEW c \in C PROVE ConsumerState(c)' = ConsumerState(c)
  BY DEF OnlyMoves, ConsumerState, StoppedAt
<1> QED BY <1>1 DEF Consuming

\* One thread of a stage changes its part.
LEMMA ProducerMoves ==
  ASSUME NEW P, P \subseteq Threads, NEW t \in P, OnlyMoves(t)
  PROVE  /\ Producing(P)' = [Producing(P) EXCEPT ![t] = ProducerAt(pc'[t])]
         /\ Sentinels(P)' = [Sentinels(P) EXCEPT ![t] = loc'[t].left]
         /\ Producing(P)[t] = ProducerAt(pc[t]) /\ Sentinels(P)[t] = loc[t].left
<1>1. ProducerState(t)' = ProducerAt(pc'[t]) /\ ProducerState(t) = ProducerAt(pc[t])
  BY DEF ProducerState, ProducerAt
<1>2. ASSUME NEW p \in P, p # t PROVE ProducerState(p)' = ProducerState(p) /\ loc'[p].left = loc[p].left
  BY <1>2 DEF OnlyMoves, ProducerState
<1> QED BY <1>1, <1>2 DEF Producing, Sentinels

\* One consumer stops.
LEMMA ConsumerMoves ==
  ASSUME NEW C, C \subseteq Threads, NEW t \in C, OnlyMoves(t)
  PROVE  /\ StoppedAt(pc'[t]) => Consuming(C)' = [Consuming(C) EXCEPT ![t] = "stopped"]
         /\ ~StoppedAt(pc[t]) => Consuming(C)[t] = "running"
<1>1. ConsumerState(t)' = IF StoppedAt(pc'[t]) THEN "stopped" ELSE "running"
  BY DEF ConsumerState, StoppedAt
<1>2. ConsumerState(t) = IF StoppedAt(pc[t]) THEN "stopped" ELSE "running"
  BY DEF ConsumerState, StoppedAt
<1>3. ASSUME NEW c \in C, c # t PROVE ConsumerState(c)' = ConsumerState(c)
  BY <1>3 DEF OnlyMoves, ConsumerState
<1> QED BY <1>1, <1>2, <1>3 DEF Consuming

\* The stages and their sizes.
LEMMA StageFacts ==
  /\ Readers \subseteq Threads /\ Desers \subseteq Threads /\ Comps \subseteq Threads /\ Senders \subseteq Threads
  /\ \A t \in Threads : /\ t \in Readers <=> Stage(t) = "read"
                        /\ t \in Desers <=> Stage(t) = "deser"
                        /\ t \in Comps <=> Stage(t) = "comp"
                        /\ t \in Senders <=> Stage(t) = "send"
  /\ Cardinality(Readers) = Parallelism["read"] /\ Cardinality(Comps) = Parallelism["comp"]
  /\ Cardinality(Senders) = Parallelism["send"]
  /\ Source # "clickhouse" => Cardinality(Desers) = Parallelism["deser"]
<1>1. ASSUME NEW n \in Nat, NEW s PROVE Cardinality({s} \X (1..n)) = n
  <2> DEFINE f == [i \in 1..n |-> <<s, i>>]
  <2>1. f \in Bijection(1..n, {s} \X (1..n))
    <3>1. f \in Injection(1..n, {s} \X (1..n))
      BY DEF Injection, IsInjective
    <3>2. f \in Surjection(1..n, {s} \X (1..n))
      <4>1. \A p \in {s} \X (1..n) : p[2] \in 1..n /\ f[p[2]] = p
        OBVIOUS
      <4>2. f \in [1..n -> {s} \X (1..n)]
        OBVIOUS
      <4> QED BY <4>1, <4>2 DEF Surjection
    <3> QED BY <3>1, <3>2 DEF Bijection
  <2>2. ExistsBijection(1..n, {s} \X (1..n))
    BY <2>1 DEF ExistsBijection
  <2>3. IsFiniteSet(1..n) /\ Cardinality(1..n) = n
    BY FS_Interval
  <2> QED BY <2>2, <2>3, FS_Bijection
<1>2. /\ Cardinality(Readers) = Parallelism["read"] /\ Cardinality(Comps) = Parallelism["comp"]
      /\ Cardinality(Senders) = Parallelism["send"]
      /\ Source # "clickhouse" => Cardinality(Desers) = Parallelism["deser"]
  BY <1>1, ParallelismAssumption DEF Readers, Comps, Senders, Desers, Parallelism
<1> QED BY <1>2 DEF Threads, Readers, Desers, Comps, Senders, Stage

\* A step at queue n, between the producers P of stage f and the consumers C.
SameProducers(f, P) ==
  finished'[f] = finished[f] /\ Producing(P)' = Producing(P) /\ Sentinels(P)' = Sentinels(P)

SameConsumers(C) == Consuming(C)' = Consuming(C)

HandOffPush(n, f, P, C) ==
  \E p \in P : \E b \in Buffers :
    /\ Producing(P)[p] = "produce" /\ HasSpace(queue[n], Capacity[n]) /\ queue'[n] = Append(queue[n], b)
    /\ SameProducers(f, P) /\ SameConsumers(C)

HandOffPop(n, f, P, C) ==
  \E c \in C :
    /\ Consuming(C)[c] = "running" /\ queue[n] # <<>> /\ queue'[n] = Tail(queue[n]) /\ SameProducers(f, P)
    /\ \/ Head(queue[n]) # Sentinel /\ SameConsumers(C)
       \/ Head(queue[n]) = Sentinel /\ Consuming(C)' = [Consuming(C) EXCEPT ![c] = "stopped"]

HandOffCount(n, f, P, C) ==
  \E p \in P :
    /\ Producing(P)[p] = "produce" /\ Producing(P)' = [Producing(P) EXCEPT ![p] = "load"]
    /\ finished'[f] = finished[f] + 1 /\ Sentinels(P)' = Sentinels(P)
    /\ queue'[n] = queue[n] /\ SameConsumers(C)

HandOffLook(n, f, P, C) ==
  \E p \in P :
    /\ Producing(P)[p] = "load" /\ finished'[f] = finished[f] /\ queue'[n] = queue[n] /\ SameConsumers(C)
    /\ IF finished[f] = Cardinality(P)
       THEN /\ Producing(P)' = [Producing(P) EXCEPT ![p] = "signal"]
            /\ Sentinels(P)' = [Sentinels(P) EXCEPT ![p] = Cardinality(C)]
       ELSE /\ Producing(P)' = [Producing(P) EXCEPT ![p] = "done"]
            /\ Sentinels(P)' = Sentinels(P)

HandOffSignal(n, f, P, C) ==
  \E p \in P :
    /\ Producing(P)[p] = "signal" /\ HasSpace(queue[n], Capacity[n]) /\ queue'[n] = Append(queue[n], Sentinel)
    /\ Producing(P)' = [Producing(P) EXCEPT ![p] = IF Sentinels(P)[p] = 1 THEN "done" ELSE "signal"]
    /\ Sentinels(P)' = [Sentinels(P) EXCEPT ![p] = Sentinels(P)[p] - 1]
    /\ finished'[f] = finished[f] /\ SameConsumers(C)

HandOffStutter(n, f, P, C) == queue'[n] = queue[n] /\ SameProducers(f, P) /\ SameConsumers(C)

HandOffStep(n, f, P, C) ==
  \/ HandOffPush(n, f, P, C) \/ HandOffPop(n, f, P, C) \/ HandOffCount(n, f, P, C)
  \/ HandOffLook(n, f, P, C) \/ HandOffSignal(n, f, P, C) \/ HandOffStutter(n, f, P, C)

\* P and C are the threads before and after queue n, and nobody else pushes there.
HandOffAt(n, f, P, C) ==
  /\ n \in {"comp", "send"} /\ f \in {"read", "deser", "comp"} /\ NextStage[f] = n /\ f # n
  /\ P \subseteq Threads /\ C \subseteq Threads
  /\ \A t \in Threads : (t \in P <=> Stage(t) = f) /\ (t \in C <=> Stage(t) = n)
  /\ Cardinality(P) = Parallelism[f] /\ Cardinality(C) = Parallelism[n]
  /\ \A t \in Threads : Stage(t) \in {"read", "deser", "comp"} /\ NextStage[Stage(t)] = n => Stage(t) = f

\* What a step of a thread is at queue n.
LEMMA EffectHandOff ==
  ASSUME PipelineInv, NEW t \in Threads, Effect(t), NEW n, NEW f, NEW P, NEW C, HandOffAt(n, f, P, C)
  PROVE  HandOffStep(n, f, P, C)
<1>0. /\ QueueTypes /\ n \in DOMAIN queue /\ f \in DOMAIN finished /\ finished \in [{"read", "deser", "comp"} -> Nat]
      /\ loc[t] \in LocType
  BY StepFacts DEF HandOffAt, QueueTypes, QueueNames, RestTypes
<1>1. OnlyMoves(t) /\ P \subseteq Threads /\ C \subseteq Threads /\ (t \in P <=> Stage(t) = f) /\ (t \in C <=> Stage(t) = n)
      /\ f # n /\ n \in Between /\ f # "send" /\ n # "read" /\ n # "deser"
  BY DEF Effect, HandOffAt, Between
<1>2. SameProducer(t) => SameProducers(f, P)
  BY <1>1, ProducersSame DEF SameProducer, SameProducers
<1>3. SameConsumer(t) => SameConsumers(C)
  BY <1>1, ConsumersSame DEF SameConsumer, SameConsumers
<1>4. t \notin P /\ finished'[f] = finished[f] => SameProducers(f, P)
  BY <1>1, ProducersSame DEF SameProducers
<1>5. t \notin C => SameConsumers(C)
  BY <1>1, ConsumersSame DEF SameConsumers
<1>6. CASE Quiet(t)
  BY <1>1, <1>2, <1>3, <1>6 DEF Quiet, HandOffStep, HandOffStutter
<1>7. CASE Pushes(t)
  <2>1. PICK b \in Buffers : Put(NextStage[Stage(t)], b)
    BY <1>7 DEF Pushes
  <2>2. SameProducers(f, P) /\ SameConsumers(C) /\ ProducerAt(pc[t]) = "produce"
    BY <1>2, <1>3, <1>7 DEF Pushes
  <2>3. CASE Stage(t) = f
    <3>1. HasSpace(queue[n], Capacity[n]) /\ queue'[n] = Append(queue[n], b) /\ t \in P
      BY <1>0, <1>1, <2>1, <2>3 DEF Put, HandOffAt
    <3>2. Producing(P)[t] = "produce"
      BY <1>1, <2>2, <3>1, ProducerMoves
    <3> QED BY <2>2, <3>1, <3>2 DEF HandOffStep, HandOffPush
  <2>4. CASE Stage(t) # f
    <3>1. NextStage[Stage(t)] # n
      BY <1>7, <2>4 DEF HandOffAt, Pushes
    <3>2. queue'[n] = queue[n]
      BY <1>0, <2>1, <3>1 DEF Put
    <3> QED BY <2>2, <3>2 DEF HandOffStep, HandOffStutter
  <2> QED BY <2>3, <2>4
<1>8. CASE PopsBuffer(t) \/ PopsStop(t)
  <2>1. SameProducers(f, P) /\ Take(Stage(t)) /\ ~StoppedAt(pc[t])
    BY <1>2, <1>8 DEF PopsBuffer, PopsStop
  <2>2. CASE Stage(t) = n
    <3>1. t \in C /\ queue[n] # <<>> /\ queue'[n] = Tail(queue[n]) /\ Consuming(C)[t] = "running"
      BY <1>0, <1>1, <2>1, <2>2, ConsumerMoves DEF Take
    <3>2. CASE PopsBuffer(t)
      <4>1. Head(queue[n]) # Sentinel /\ SameConsumers(C)
        BY <1>1, <1>3, <2>2, <3>2 DEF PopsBuffer, Front
      <4> QED BY <2>1, <3>1, <4>1 DEF HandOffStep, HandOffPop
    <3>3. CASE PopsStop(t)
      <4>1. Head(queue[n]) = Sentinel /\ Consuming(C)' = [Consuming(C) EXCEPT ![t] = "stopped"]
        BY <1>1, <2>2, <3>1, <3>3, ConsumerMoves DEF PopsStop, Front
      <4> QED BY <2>1, <3>1, <4>1 DEF HandOffStep, HandOffPop
    <3> QED BY <1>8, <3>2, <3>3
  <2>3. CASE Stage(t) # n
    <3>1. queue'[n] = queue[n]
      BY <1>0, <2>1, <2>3 DEF Take
    <3> QED BY <1>1, <1>5, <2>1, <2>3, <3>1 DEF HandOffStep, HandOffStutter
  <2> QED BY <2>2, <2>3
<1>9. CASE Counts(t)
  <2>1. pc[t] = "fetchAdd" /\ pc'[t] = "load" /\ loc'[t].left = loc[t].left /\ queue' = queue
        /\ finished' = [finished EXCEPT ![Stage(t)] = @ + 1]
    BY <1>9 DEF Counts
  <2>2. SameConsumers(C)
    <3>1. StoppedAt(pc'[t]) <=> StoppedAt(pc[t])
      BY <2>1 DEF StoppedAt
    <3> QED BY <1>3, <3>1, <1>1, ConsumersSame DEF SameConsumers
  <2>3. CASE Stage(t) = f
    <3>1. t \in P /\ finished'[f] = finished[f] + 1
      BY <1>0, <1>1, <2>1, <2>3
    <3>2. Producing(P)[t] = "produce" /\ Producing(P)' = [Producing(P) EXCEPT ![t] = "load"]
          /\ Sentinels(P)' = [Sentinels(P) EXCEPT ![t] = loc'[t].left] /\ Sentinels(P)[t] = loc[t].left
      BY <1>1, <2>1, <3>1, ProducerMoves DEF ProducerAt
    <3>3. Sentinels(P)' = Sentinels(P)
      BY <2>1, <3>1, <3>2 DEF Sentinels
    <3> QED BY <2>1, <2>2, <3>1, <3>2, <3>3 DEF HandOffStep, HandOffCount
  <2>4. CASE Stage(t) # f
    <3>1. finished'[f] = finished[f]
      BY <1>0, <2>1, <2>4
    <3> QED BY <1>1, <1>4, <2>1, <2>2, <2>4, <3>1 DEF HandOffStep, HandOffStutter
  <2> QED BY <2>3, <2>4
<1>10. CASE Looks(t)
  <2>1. pc[t] = "load" /\ pc'[t] \in {"signal", "done"} /\ queue' = queue /\ finished' = finished
    BY <1>10 DEF Looks
  <2>2. SameConsumers(C)
    <3>1. StoppedAt(pc'[t]) <=> StoppedAt(pc[t])
      BY <2>1 DEF StoppedAt
    <3> QED BY <3>1, <1>1, ConsumersSame DEF SameConsumers
  <2>3. CASE Stage(t) = f
    <3>1. t \in P /\ Cardinality(P) = Parallelism[f] /\ Cardinality(C) = Parallelism[NextStage[f]]
      BY <1>1, <2>3 DEF HandOffAt
    <3>2. /\ Producing(P)[t] = "load" /\ Producing(P)' = [Producing(P) EXCEPT ![t] = pc'[t]]
          /\ Sentinels(P)' = [Sentinels(P) EXCEPT ![t] = loc'[t].left] /\ Sentinels(P)[t] = loc[t].left
      BY <1>1, <2>1, <3>1, ProducerMoves DEF ProducerAt
    <3>3. loc'[t].left = loc[t].left => Sentinels(P)' = Sentinels(P)
      BY <3>1, <3>2 DEF Sentinels
    <3>4. IF finished[f] = Cardinality(P)
          THEN pc'[t] = "signal" /\ loc'[t].left = Cardinality(C)
          ELSE pc'[t] = "done" /\ loc'[t].left = loc[t].left
      BY <1>10, <2>3, <3>1 DEF Looks
    <3> QED BY <2>1, <2>2, <3>1, <3>2, <3>3, <3>4 DEF HandOffStep, HandOffLook
  <2>4. CASE Stage(t) # f
    BY <1>1, <1>4, <2>1, <2>2, <2>4 DEF HandOffStep, HandOffStutter
  <2> QED BY <2>3, <2>4
<1>11. CASE Signals(t)
  <2>1. /\ pc[t] = "signal" /\ pc'[t] = (IF loc[t].left = 1 THEN "done" ELSE "signal") /\ finished' = finished
        /\ Put(NextStage[Stage(t)], Sentinel) /\ loc'[t].left = loc[t].left - 1
    BY <1>11 DEF Signals
  <2>2. SameConsumers(C)
    <3>1. StoppedAt(pc'[t]) <=> StoppedAt(pc[t])
      BY <2>1 DEF StoppedAt
    <3> QED BY <3>1, <1>1, ConsumersSame DEF SameConsumers
  <2>3. CASE Stage(t) = f
    <3>1. t \in P /\ HasSpace(queue[n], Capacity[n]) /\ queue'[n] = Append(queue[n], Sentinel)
      BY <1>0, <1>1, <2>1, <2>3 DEF HandOffAt, Put
    <3>2. /\ Producing(P)[t] = "signal" /\ Producing(P)' = [Producing(P) EXCEPT ![t] = pc'[t]]
          /\ Sentinels(P)' = [Sentinels(P) EXCEPT ![t] = loc'[t].left] /\ Sentinels(P)[t] = loc[t].left
      BY <1>1, <2>1, <3>1, ProducerMoves DEF ProducerAt
    <3> QED BY <2>1, <2>2, <3>1, <3>2 DEF HandOffStep, HandOffSignal
  <2>4. CASE Stage(t) # f
    <3>1. NextStage[Stage(t)] # n
      BY <1>11, <2>4 DEF HandOffAt, Signals
    <3>2. queue'[n] = queue[n]
      BY <1>0, <2>1, <3>1 DEF Put
    <3> QED BY <1>1, <1>4, <2>1, <2>2, <2>4, <3>2 DEF HandOffStep, HandOffStutter
  <2> QED BY <2>3, <2>4
<1> QED BY <1>6, <1>7, <1>8, <1>9, <1>10, <1>11 DEF Effect

\* A step of the specification is a step, or no step, of every hand-off.
LEMMA HandOffNext ==
  ASSUME PipelineInv, [Next]_vars, NEW n, NEW f, NEW P, NEW C, HandOffAt(n, f, P, C)
  PROVE  HandOffStep(n, f, P, C)
<1>1. CASE UNCHANGED <<pc, loc, queue, finished>>
  <2>1. SameProducers(f, P) /\ SameConsumers(C)
    BY <1>1 DEF SameProducers, SameConsumers, Producing, Sentinels, Consuming, ProducerState, ConsumerState
  <2> QED BY <1>1, <2>1 DEF HandOffStep, HandOffStutter
<1> QED BY <1>1, StepEffect, EffectHandOff

\* The hand-off to the senders implements StageQueue: compressors push sentinels
\* only after their stage's last buffer, and every sender stops at its first one,
\* for every number of threads, also when sockets fail or a source throws.
THEOREM SendersImplement == Spec => SendHandOff
<1>1. Init => SendQueue!Init
  <2> SUFFICES ASSUME Init PROVE SendQueue!Init
    OBVIOUS
  <2>1. /\ queue.send = <<>> /\ finished.comp = 0
        /\ \A t \in Threads : pc[t] = StartPC[Stage(t)] /\ loc[t].left = 0
    BY DEF Init
  <2>2. \A t \in Threads : ~StoppedAt(pc[t]) /\ ProducerState(t) = "produce" /\ ConsumerState(t) = "running"
    BY <2>1, ThreadFacts DEF StartPC, StoppedAt, ProducerState, ConsumerState
  <2> QED BY <2>1, <2>2, StageFacts DEF SendQueue!Init
<1>2. ASSUME PipelineInv, [Next]_vars PROVE [SendQueue!Next]_(SendQueue!vars)
  <2>1. HandOffAt("send", "comp", Comps, Senders)
    BY StageFacts, ThreadFacts DEF HandOffAt, NextStage
  <2>2. HandOffStep("send", "comp", Comps, Senders)
    BY <1>2, <2>1, HandOffNext
  <2>0. SendQueue!Cardinality(Comps) = Cardinality(Comps) /\ SendQueue!Cardinality(Senders) = Cardinality(Senders)
    BY Zenon DEF SendQueue!Cardinality, Cardinality
  <2> USE DEF Producing, Sentinels, Consuming, SameProducers, SameConsumers
  <2>3. CASE HandOffPush("send", "comp", Comps, Senders)
    BY <2>3 DEF HandOffPush, SendQueue!Next, SendQueue!PushBuffer, SendQueue!HasSpace, HasSpace
  <2>4. CASE HandOffPop("send", "comp", Comps, Senders)
    BY <2>4 DEF HandOffPop, SendQueue!Next, SendQueue!Consume, SendQueue!PopBuffer, SendQueue!PopSentinel,
                SendQueue!Sentinel, Sentinel
  <2>5. CASE HandOffCount("send", "comp", Comps, Senders)
    BY <2>5 DEF HandOffCount, SendQueue!Next, SendQueue!Finish, SendQueue!FetchAdd
  <2>6. CASE HandOffLook("send", "comp", Comps, Senders)
    BY <2>0, <2>6 DEF HandOffLook, SendQueue!Next, SendQueue!Finish, SendQueue!LoadFinished
  <2>7. CASE HandOffSignal("send", "comp", Comps, Senders)
    BY <2>7 DEF HandOffSignal, SendQueue!Next, SendQueue!Finish, SendQueue!PushSentinel,
                SendQueue!Sentinel, Sentinel, SendQueue!HasSpace, HasSpace
  <2>8. CASE HandOffStutter("send", "comp", Comps, Senders)
    BY <2>8 DEF HandOffStutter, SendQueue!vars
  <2> QED BY <2>2, <2>3, <2>4, <2>5, <2>6, <2>7, <2>8 DEF HandOffStep
<1> QED BY <1>1, <1>2, PipelineInvariant, PTL DEF Spec, SendHandOff, SendQueue!Spec

\* The hand-off to the compressors implements StageQueue as well, from the
\* deserializers or from the ClickHouse readers: no buffer is queued behind the
\* sentinels, whatever happened to the first ids the deserializers popped.
THEOREM CompressorsImplement == Spec => CompHandOff
<1> DEFINE f == IF Source = "clickhouse" THEN "read" ELSE "deser"
<1>0. f \in {"read", "deser"} /\ NextStage[f] = "comp"
  BY DEF NextStage
<1>1. Init => CompQueue!Init
  <2> SUFFICES ASSUME Init PROVE CompQueue!Init
    OBVIOUS
  <2>1. /\ queue.comp = <<>> /\ finished.read = 0 /\ finished.deser = 0
        /\ \A t \in Threads : pc[t] = StartPC[Stage(t)] /\ loc[t].left = 0
    BY DEF Init
  <2>2. \A t \in Threads : ~StoppedAt(pc[t]) /\ ProducerState(t) = "produce" /\ ConsumerState(t) = "running"
    BY <2>1, ThreadFacts DEF StartPC, StoppedAt, ProducerState, ConsumerState
  <2>3. Feeders \subseteq Threads /\ Comps \subseteq Threads
    BY StageFacts DEF Feeders
  <2> QED BY <2>1, <2>2, <2>3 DEF CompQueue!Init
<1>2. ASSUME PipelineInv, [Next]_vars PROVE [CompQueue!Next]_(CompQueue!vars)
  <2> DEFINE done == IF Source = "clickhouse" THEN finished.read ELSE finished.deser
  <2>1. HandOffAt("comp", f, Feeders, Comps)
    <3>1. \A t \in Threads : Stage(t) \in {"read", "deser", "comp"} /\ NextStage[Stage(t)] = "comp" => Stage(t) = f
      BY StageFacts DEF NextStage, Desers
    <3> QED BY <1>0, <3>1, StageFacts DEF HandOffAt, Feeders
  <2>2. HandOffStep("comp", f, Feeders, Comps)
    BY <1>2, <2>1, HandOffNext
  <2>0. CompQueue!Cardinality(Feeders) = Cardinality(Feeders) /\ CompQueue!Cardinality(Comps) = Cardinality(Comps)
    BY Zenon DEF CompQueue!Cardinality, Cardinality
  <2>9. finished[f] = done /\ finished'[f] = done'
    OBVIOUS
  <2> HIDE DEF f, done
  <2> USE DEF Producing, Sentinels, Consuming, SameProducers, SameConsumers
  <2>3. CASE HandOffPush("comp", f, Feeders, Comps)
    BY <2>3, <2>9 DEF HandOffPush, CompQueue!Next, CompQueue!PushBuffer, CompQueue!HasSpace, HasSpace, done
  <2>4. CASE HandOffPop("comp", f, Feeders, Comps)
    BY <2>4, <2>9 DEF HandOffPop, CompQueue!Next, CompQueue!Consume, CompQueue!PopBuffer, CompQueue!PopSentinel,
                CompQueue!Sentinel, Sentinel, done
  <2>5. CASE HandOffCount("comp", f, Feeders, Comps)
    BY <2>5, <2>9 DEF HandOffCount, CompQueue!Next, CompQueue!Finish, CompQueue!FetchAdd, done
  <2>6. CASE HandOffLook("comp", f, Feeders, Comps)
    BY <2>0, <2>6, <2>9 DEF HandOffLook, CompQueue!Next, CompQueue!Finish, CompQueue!LoadFinished, done
  <2>7. CASE HandOffSignal("comp", f, Feeders, Comps)
    BY <2>7, <2>9 DEF HandOffSignal, CompQueue!Next, CompQueue!Finish, CompQueue!PushSentinel,
                CompQueue!Sentinel, Sentinel, CompQueue!HasSpace, HasSpace, done
  <2>8. CASE HandOffStutter("comp", f, Feeders, Comps)
    BY <2>8, <2>9 DEF HandOffStutter, CompQueue!vars, done
  <2> QED BY <2>2, <2>3, <2>4, <2>5, <2>6, <2>7, <2>8 DEF HandOffStep
<1> QED BY <1>1, <1>2, PipelineInvariant, PTL DEF Spec, CompHandOff, CompQueue!Spec

-----------------------------------------------------------------------------
(* The hand-off to the deserializers, which do not all stop at their sentinel. *)

\* Whether a deserializer at s with variables v has taken its last id.
TakenAt(s, v) == StoppedAt(s) \/ s = "undefined" \/ (Parquet /\ s = "popFree" /\ v.in = NoBuffer)

\* What a step of a deserializer is at its queue: nothing, a buffer popped, or the
\* sentinel popped.
KeepsTaking(t) ==
  queue'.deser = queue.deser /\ (TakenAt(pc'[t], loc'[t]) <=> TakenAt(pc[t], loc[t]))

TakesBuffer(t) ==
  /\ Take("deser") /\ Front("deser") # Sentinel
  /\ ~TakenAt(pc[t], loc[t]) /\ ~TakenAt(pc'[t], loc'[t])

TakesLast(t) ==
  /\ Take("deser") /\ Front("deser") = Sentinel
  /\ ~TakenAt(pc[t], loc[t]) /\ TakenAt(pc'[t], loc'[t])

\* Every step of a deserializer is one of these.
LEMMA DeserTakes ==
  ASSUME PipelineInv, NEW t \in Threads, Stage(t) = "deser", Deser(t)
  PROVE  KeepsTaking(t) \/ TakesBuffer(t) \/ TakesLast(t)
<1>0. /\ loc \in [Threads -> LocType] /\ loc[t] \in LocType /\ pc \in [Threads -> PCs]
      /\ HoldsRight(t, pc[t], loc[t]) /\ QueueTypes
  BY StepFacts
<1>q. DOMAIN queue = QueueNames /\ QueueNames = {"free", "deser", "comp", "send"} /\ NextStage["deser"] = "comp"
  BY <1>0 DEF QueueTypes, QueueNames, NextStage
<1>1. ASSUME NEW from, NEW to, PopFree(t, from, to),
             \/ from = "refill" /\ to = "deserialize"
             \/ /\ from = "popFree"
                /\ to = CASE Source # "parquet" -> "popFirst"
                          [] Source = "parquet" /\ loc[t].in = NoBuffer -> "undefined"
                          [] OTHER -> "deserialize"
      PROVE  KeepsTaking(t)
  <2>1. /\ pc[t] = from /\ pc' = [pc EXCEPT ![t] = to] /\ loc' = [loc EXCEPT ![t].out = Front("free")]
        /\ queue' = [queue EXCEPT !["free"] = Tail(@)]
    BY <1>1 DEF PopFree, Goto, Take
  <2>2. pc'[t] = to /\ loc'[t].in = loc[t].in /\ queue'.deser = queue.deser
    BY <1>0, <1>q, <2>1 DEF LocType
  <2> QED BY <1>1, <2>1, <2>2 DEF KeepsTaking, TakenAt, StoppedAt, Parquet
<1>2. CASE PopFirst(t)
  <2>1. /\ pc[t] = "popFirst" /\ Take("deser")
        /\ pc' = [pc EXCEPT ![t] = CASE Source = "parquet" -> "popFree"
                                     [] Source # "parquet" /\ Front("deser") = Sentinel -> "undefined"
                                     [] OTHER -> "deserialize"]
        /\ loc' = [loc EXCEPT ![t].in = IF Front("deser") = Sentinel THEN NoBuffer ELSE Front("deser")]
    BY <1>2 DEF PopFirst, Goto
  <2>2. Front("deser") \in Buffers \cup {Sentinel}
    BY <2>1, FrontType DEF QueueNames
  <2>3. loc'[t].in = IF Front("deser") = Sentinel THEN NoBuffer ELSE Front("deser")
    BY <1>0, <2>1 DEF LocType
  <2>4. CASE Front("deser") = Sentinel
    <3>1. pc'[t] = IF Source = "parquet" THEN "popFree" ELSE "undefined"
      BY <1>0, <2>1, <2>4
    <3> QED BY <2>1, <2>3, <2>4, <3>1 DEF TakesLast, TakenAt, StoppedAt, Parquet
  <2>5. CASE Front("deser") # Sentinel
    <3>1. pc'[t] = IF Source = "parquet" THEN "popFree" ELSE "deserialize"
      BY <1>0, <2>1, <2>5
    <3>2. loc'[t].in # NoBuffer
      BY <2>2, <2>3, <2>5, BufferFacts
    <3> QED BY <2>1, <2>5, <3>1, <3>2 DEF TakesBuffer, TakenAt, StoppedAt
  <2> QED BY <2>4, <2>5
<1>3. CASE Deserialize(t)
  <2>1. PICK s \in {"pushFull", "release"} : pc' = [pc EXCEPT ![t] = s]
    BY <1>3 DEF Deserialize, Goto
  <2>2. pc'[t] = s /\ pc[t] = "deserialize" /\ queue' = queue
    BY <1>0, <1>3, <2>1 DEF Deserialize
  <2> QED BY <2>2 DEF KeepsTaking, TakenAt, StoppedAt
<1>4. ASSUME NEW from, NEW to, PushOut(t, from, to),
             \/ from = "pushFull" /\ to = "refill"
             \/ from = "pushLast" /\ to = "fetchAdd"
      PROVE  KeepsTaking(t)
  <2>1. pc[t] = from /\ pc' = [pc EXCEPT ![t] = to] /\ queue' = [queue EXCEPT !["comp"] = Append(@, loc[t].out)]
    BY <1>q, <1>4 DEF PushOut, Goto, Put
  <2>2. pc'[t] = to /\ queue'.deser = queue.deser
    BY <1>0, <1>q, <2>1
  <2> QED BY <1>4, <2>1, <2>2 DEF KeepsTaking, TakenAt, StoppedAt
<1>5. CASE ReleaseIn(t, "popNext")
  <2>1. pc[t] = "release" /\ pc' = [pc EXCEPT ![t] = "popNext"] /\ queue' = [queue EXCEPT !["free"] = Append(@, loc[t].in)]
    BY <1>5 DEF ReleaseIn, Goto, Put
  <2>2. pc'[t] = "popNext" /\ queue'.deser = queue.deser
    BY <1>0, <1>q, <2>1
  <2> QED BY <2>1, <2>2 DEF KeepsTaking, TakenAt, StoppedAt
<1>6. CASE PopNext(t)
  <2>1. pc[t] = "popNext" /\ Take("deser")
    BY <1>6 DEF PopNext
  <2>2. CASE Front("deser") = Sentinel
    <3>1. pc'[t] \in {"fetchAdd", "pushLast"}
      BY <1>0, <1>6, <2>2 DEF PopNext, Goto
    <3> QED BY <2>1, <2>2, <3>1 DEF TakesLast, TakenAt, StoppedAt
  <2>3. CASE Front("deser") # Sentinel
    <3>1. pc'[t] = "deserialize"
      BY <1>0, <1>6, <2>3 DEF PopNext, Goto
    <3> QED BY <2>1, <2>3, <3>1 DEF TakesBuffer, TakenAt, StoppedAt
  <2> QED BY <2>2, <2>3
<1>7. CASE PopIn(t, "forward", "fetchAdd")
  <2>1. pc[t] = "pop" /\ Take("deser")
    BY <1>7 DEF PopIn
  <2>2. CASE Front("deser") = Sentinel
    <3>1. pc'[t] = "fetchAdd"
      BY <1>0, <1>7, <2>2 DEF PopIn, Goto
    <3> QED BY <2>1, <2>2, <3>1 DEF TakesLast, TakenAt, StoppedAt
  <2>3. CASE Front("deser") # Sentinel
    <3>1. pc'[t] = "forward"
      BY <1>0, <1>7, <2>3 DEF PopIn, Goto
    <3> QED BY <2>1, <2>3, <3>1 DEF TakesBuffer, TakenAt, StoppedAt
  <2> QED BY <2>2, <2>3
<1>8. CASE Forward(t)
  <2>1. pc[t] = "forward" /\ pc' = [pc EXCEPT ![t] = "pop"] /\ queue' = [queue EXCEPT !["comp"] = Append(@, loc[t].in)]
    BY <1>q, <1>8 DEF Forward, Goto, Put
  <2>2. pc'[t] = "pop" /\ queue'.deser = queue.deser
    BY <1>0, <1>q, <2>1
  <2> QED BY <2>1, <2>2 DEF KeepsTaking, TakenAt, StoppedAt
<1>9. CASE Finish(t)
  <2>1. pc[t] \in {"fetchAdd", "load", "signal"} /\ pc'[t] \in {"load", "signal", "done"}
    BY <1>0, <1>9 DEF Finish, FetchAdd, LoadFinished, PushSentinel, Goto
  <2>2. queue' = queue \/ queue' = [queue EXCEPT !["comp"] = Append(@, Sentinel)]
    BY <1>q, <1>9 DEF Finish, FetchAdd, LoadFinished, PushSentinel, Put
  <2>3. queue'.deser = queue.deser
    BY <1>q, <2>2
  <2> QED BY <2>1, <2>3 DEF KeepsTaking, TakenAt, StoppedAt
<1>10. CASE DeserFails(t)
  BY <1>10 DEF DeserFails, Throw, KeepsTaking
<1> QED BY <1>1, <1>2, <1>3, <1>4, <1>5, <1>6, <1>7, <1>8, <1>9, <1>10 DEF Deser

\* What StageQueue sees of the deserializers.
Taking == [d \in Desers |-> TakerState(d)]

LEMMA TakerAt ==
  ASSUME NEW d
  PROVE  /\ TakerState(d) = IF TakenAt(pc[d], loc[d]) THEN "stopped" ELSE "running"
         /\ TakerState(d)' = IF TakenAt(pc'[d], loc'[d]) THEN "stopped" ELSE "running"
BY DEF TakerState, ConsumerState, TakenAt, StoppedAt, Parquet

\* A step of a thread at the deserializers' queue.
DeserHandOffStep ==
  \/ \E p \in Readers : \E b \in Buffers :
       /\ Producing(Readers)[p] = "produce" /\ HasSpace(queue.deser, Capacity.deser)
       /\ queue'.deser = Append(queue.deser, b) /\ SameProducers("read", Readers) /\ Taking' = Taking
  \/ \E d \in Desers :
       /\ Taking[d] = "running" /\ queue.deser # <<>> /\ queue'.deser = Tail(queue.deser)
       /\ SameProducers("read", Readers)
       /\ \/ Head(queue.deser) # Sentinel /\ Taking' = Taking
          \/ Head(queue.deser) = Sentinel /\ Taking' = [Taking EXCEPT ![d] = "stopped"]
  \/ \E p \in Readers :
       /\ Producing(Readers)[p] = "produce" /\ Producing(Readers)' = [Producing(Readers) EXCEPT ![p] = "load"]
       /\ finished'.read = finished.read + 1 /\ Sentinels(Readers)' = Sentinels(Readers)
       /\ queue'.deser = queue.deser /\ Taking' = Taking
  \/ \E p \in Readers :
       /\ Producing(Readers)[p] = "load" /\ finished'.read = finished.read
       /\ queue'.deser = queue.deser /\ Taking' = Taking
       /\ IF finished.read = Cardinality(Readers)
          THEN /\ Producing(Readers)' = [Producing(Readers) EXCEPT ![p] = "signal"]
               /\ Sentinels(Readers)' = [Sentinels(Readers) EXCEPT ![p] = Cardinality(Desers)]
          ELSE /\ Producing(Readers)' = [Producing(Readers) EXCEPT ![p] = "done"]
               /\ Sentinels(Readers)' = Sentinels(Readers)
  \/ \E p \in Readers :
       /\ Producing(Readers)[p] = "signal" /\ HasSpace(queue.deser, Capacity.deser)
       /\ queue'.deser = Append(queue.deser, Sentinel)
       /\ Producing(Readers)' = [Producing(Readers) EXCEPT ![p] = IF Sentinels(Readers)[p] = 1 THEN "done" ELSE "signal"]
       /\ Sentinels(Readers)' = [Sentinels(Readers) EXCEPT ![p] = Sentinels(Readers)[p] - 1]
       /\ finished'.read = finished.read /\ Taking' = Taking
  \/ queue'.deser = queue.deser /\ SameProducers("read", Readers) /\ Taking' = Taking

\* Threads of other stages, and deserializers that keep taking, leave the
\* consumers of the queue as they are.
LEMMA TakersSame ==
  ASSUME NEW t \in Threads, OnlyMoves(t),
         t \in Desers => (TakenAt(pc'[t], loc'[t]) <=> TakenAt(pc[t], loc[t]))
  PROVE  Taking' = Taking
<1>1. ASSUME NEW d \in Desers PROVE TakerState(d)' = TakerState(d)
  <2>1. TakenAt(pc'[d], loc'[d]) <=> TakenAt(pc[d], loc[d])
    BY StageFacts DEF OnlyMoves
  <2> QED BY <2>1, TakerAt
<1> QED BY <1>1 DEF Taking

\* One deserializer takes its last id.
LEMMA TakerMoves ==
  ASSUME NEW t \in Desers, OnlyMoves(t), ~TakenAt(pc[t], loc[t]), TakenAt(pc'[t], loc'[t])
  PROVE  Taking[t] = "running" /\ Taking' = [Taking EXCEPT ![t] = "stopped"]
<1>1. TakerState(t) = "running" /\ TakerState(t)' = "stopped"
  BY TakerAt
<1>2. ASSUME NEW d \in Desers, d # t PROVE TakerState(d)' = TakerState(d)
  BY <1>2, StageFacts, TakerAt DEF OnlyMoves
<1> QED BY <1>1, <1>2 DEF Taking

\* A step of a reader at the deserializers' queue.
LEMMA ReadHandOff ==
  ASSUME PipelineInv, Source # "clickhouse", NEW t \in Readers, Read(t)
  PROVE  DeserHandOffStep
<1>0. /\ t \in Threads /\ Stage(t) = "read" /\ t \notin Desers /\ Readers \subseteq Threads
      /\ Cardinality(Readers) = Parallelism["read"] /\ Cardinality(Desers) = Parallelism["deser"]
      /\ NextStage["read"] = "deser"
  BY StageFacts DEF NextStage
<1>1. /\ DOMAIN queue = QueueNames /\ QueueNames = {"free", "deser", "comp", "send"}
      /\ finished \in [{"read", "deser", "comp"} -> Nat] /\ loc[t] \in LocType
  BY <1>0, StepFacts DEF QueueTypes, QueueNames, RestTypes
<1>2. Effect(t) /\ OnlyMoves(t)
  BY <1>0, ReadEffect DEF Effect
<1>3. Taking' = Taking
  BY <1>0, <1>2, TakersSame
<1>4. SameProducer(t) => SameProducers("read", Readers)
  BY <1>0, <1>2, ProducersSame DEF SameProducer, SameProducers
<1>5. CASE Quiet(t)
  BY <1>3, <1>4, <1>5 DEF Quiet, Between, DeserHandOffStep
<1>6. CASE Pushes(t)
  <2>1. PICK b \in Buffers : Put("deser", b)
    BY <1>0, <1>6 DEF Pushes
  <2>2. HasSpace(queue.deser, Capacity.deser) /\ queue'.deser = Append(queue.deser, b)
    BY <1>1, <2>1 DEF Put
  <2>3. SameProducers("read", Readers) /\ ProducerAt(pc[t]) = "produce"
    BY <1>4, <1>6 DEF Pushes
  <2>4. Producing(Readers)[t] = "produce"
    BY <1>0, <1>2, <2>3, ProducerMoves
  <2> QED BY <1>3, <2>2, <2>3, <2>4 DEF DeserHandOffStep
<1>7. CASE Counts(t)
  <2>1. /\ pc[t] = "fetchAdd" /\ pc'[t] = "load" /\ finished'.read = finished.read + 1
        /\ queue' = queue /\ loc'[t].left = loc[t].left
    BY <1>0, <1>1, <1>7 DEF Counts
  <2>2. Producing(Readers)[t] = "produce" /\ Producing(Readers)' = [Producing(Readers) EXCEPT ![t] = "load"]
    BY <1>0, <1>2, <2>1, ProducerMoves DEF ProducerAt
  <2>3. Sentinels(Readers)' = Sentinels(Readers)
    <3>1. Sentinels(Readers)' = [Sentinels(Readers) EXCEPT ![t] = Sentinels(Readers)[t]]
      BY <1>0, <1>2, <2>1, ProducerMoves
    <3> QED BY <3>1 DEF Sentinels
  <2> QED BY <1>3, <2>1, <2>2, <2>3 DEF DeserHandOffStep
<1>8. CASE Looks(t)
  <2>1. pc[t] = "load" /\ finished' = finished /\ queue' = queue
    BY <1>8 DEF Looks
  <2>2. Producing(Readers)[t] = "load" /\ Producing(Readers)' = [Producing(Readers) EXCEPT ![t] = ProducerAt(pc'[t])]
        /\ Sentinels(Readers)' = [Sentinels(Readers) EXCEPT ![t] = loc'[t].left] /\ Sentinels(Readers)[t] = loc[t].left
    BY <1>0, <1>2, <2>1, ProducerMoves DEF ProducerAt
  <2>3. CASE finished.read = Cardinality(Readers)
    <3>1. pc'[t] = "signal" /\ loc'[t].left = Cardinality(Desers)
      BY <1>0, <1>8, <2>3 DEF Looks
    <3> QED BY <1>3, <2>1, <2>2, <2>3, <3>1 DEF DeserHandOffStep, ProducerAt
  <2>4. CASE finished.read # Cardinality(Readers)
    <3>1. pc'[t] = "done" /\ loc'[t].left = loc[t].left
      BY <1>0, <1>8, <2>4 DEF Looks
    <3>2. Sentinels(Readers)' = Sentinels(Readers)
      BY <2>2, <3>1 DEF Sentinels
    <3> QED BY <1>3, <2>1, <2>2, <2>4, <3>1, <3>2 DEF DeserHandOffStep, ProducerAt
  <2> QED BY <2>3, <2>4
<1>9. CASE Signals(t)
  <2>1. /\ pc[t] = "signal" /\ finished' = finished /\ Put("deser", Sentinel)
        /\ loc'[t].left = loc[t].left - 1 /\ pc'[t] = IF loc[t].left = 1 THEN "done" ELSE "signal"
    BY <1>0, <1>9 DEF Signals
  <2>2. HasSpace(queue.deser, Capacity.deser) /\ queue'.deser = Append(queue.deser, Sentinel)
    BY <1>1, <2>1 DEF Put
  <2>3. /\ Producing(Readers)[t] = "signal" /\ Producing(Readers)' = [Producing(Readers) EXCEPT ![t] = pc'[t]]
        /\ Sentinels(Readers)' = [Sentinels(Readers) EXCEPT ![t] = loc'[t].left] /\ Sentinels(Readers)[t] = loc[t].left
    BY <1>0, <1>2, <2>1, ProducerMoves DEF ProducerAt
  <2> QED BY <1>3, <2>1, <2>2, <2>3 DEF DeserHandOffStep
<1>10. ~PopsBuffer(t) /\ ~PopsStop(t)
  BY <1>0 DEF PopsBuffer, PopsStop, Between
<1> QED BY <1>2, <1>5, <1>6, <1>7, <1>8, <1>9, <1>10 DEF Effect

\* A step of a deserializer at its queue.
LEMMA DeserAtQueue ==
  ASSUME PipelineInv, NEW t \in Desers, Deser(t)
  PROVE  DeserHandOffStep
<1>0. t \in Threads /\ Stage(t) = "deser" /\ t \notin Readers /\ Readers \subseteq Threads
  BY StageFacts
<1>1. "deser" \in DOMAIN queue /\ finished \in [{"read", "deser", "comp"} -> Nat]
  BY <1>0, StepFacts DEF QueueTypes, QueueNames, RestTypes
<1>2. Effect(t) /\ OnlyMoves(t)
  BY <1>0, DeserEffect DEF Effect
<1>3. finished'.read = finished.read
  BY <1>0, <1>1, <1>2 DEF Effect, Quiet, Pushes, PopsBuffer, PopsStop, Counts, Looks, Signals, SameProducer
<1>4. SameProducers("read", Readers)
  BY <1>0, <1>2, <1>3, ProducersSame DEF SameProducers
<1>5. CASE KeepsTaking(t)
  BY <1>0, <1>2, <1>4, <1>5, TakersSame DEF KeepsTaking, DeserHandOffStep
<1>6. CASE TakesBuffer(t)
  <2>1. queue.deser # <<>> /\ queue'.deser = Tail(queue.deser) /\ Head(queue.deser) # Sentinel
    BY <1>1, <1>6 DEF TakesBuffer, Take, Front
  <2>2. Taking' = Taking
    BY <1>0, <1>2, <1>6, TakersSame DEF TakesBuffer
  <2>3. Taking[t] = "running"
    BY <1>6, TakerAt DEF TakesBuffer, Taking
  <2> QED BY <1>4, <2>1, <2>2, <2>3 DEF DeserHandOffStep
<1>7. CASE TakesLast(t)
  <2>1. queue.deser # <<>> /\ queue'.deser = Tail(queue.deser) /\ Head(queue.deser) = Sentinel
    BY <1>1, <1>7 DEF TakesLast, Take, Front
  <2>2. Taking[t] = "running" /\ Taking' = [Taking EXCEPT ![t] = "stopped"]
    BY <1>2, <1>7, TakerMoves DEF TakesLast
  <2> QED BY <1>4, <2>1, <2>2 DEF DeserHandOffStep
<1> QED BY <1>0, <1>5, <1>6, <1>7, DeserTakes

\* Compressors and senders do nothing at the deserializers' queue.
LEMMA OthersAtQueue ==
  ASSUME PipelineInv, NEW t \in Threads, Stage(t) \in {"comp", "send"}, Effect(t)
  PROVE  DeserHandOffStep
<1>0. t \notin Desers /\ t \notin Readers /\ Readers \subseteq Threads /\ OnlyMoves(t)
  BY StageFacts DEF Effect
<1>1. /\ DOMAIN queue = QueueNames /\ QueueNames = {"free", "deser", "comp", "send"}
      /\ finished \in [{"read", "deser", "comp"} -> Nat] /\ NextStage["comp"] = "send"
  BY StepFacts DEF QueueTypes, QueueNames, RestTypes, NextStage
<1>2. finished'.read = finished.read
  BY <1>1 DEF Effect, Quiet, Pushes, PopsBuffer, PopsStop, Counts, Looks, Signals, SameProducer
<1>3. queue'.deser = queue.deser
  BY <1>1 DEF Effect, Quiet, Between, Pushes, PopsBuffer, PopsStop, Counts, Looks, Signals, Put, Take
<1>4. SameProducers("read", Readers)
  BY <1>0, <1>2, ProducersSame DEF SameProducers
<1>5. Taking' = Taking
  BY <1>0, TakersSame
<1> QED BY <1>3, <1>4, <1>5 DEF DeserHandOffStep

\* The hand-off to the deserializers implements StageQueue, too: no reader pushes a
\* buffer behind a sentinel, and a deserializer takes nothing after its sentinel,
\* whether it stops there or uses it as its first buffer.
THEOREM DeserializersImplement ==
  ASSUME Source # "clickhouse"
  PROVE  Spec => DeserHandOff
<1>1. Init => DeserQueue!Init
  <2> SUFFICES ASSUME Init PROVE DeserQueue!Init
    OBVIOUS
  <2>1. /\ queue.deser = <<>> /\ finished.read = 0
        /\ \A t \in Threads : pc[t] = StartPC[Stage(t)] /\ loc[t].left = 0
    BY DEF Init
  <2>2. \A t \in Readers : ProducerState(t) = "produce"
    BY <2>1, StageFacts DEF StartPC, ProducerState
  <2>3. \A d \in Desers : TakerState(d) = "running"
    <3> SUFFICES ASSUME NEW d \in Desers PROVE TakerState(d) = "running"
      OBVIOUS
    <3>1. d \in Threads /\ Stage(d) = "deser"
      BY StageFacts
    <3>2. pc[d] = IF Skipping THEN "pop" ELSE IF Source = "parquet" THEN "popFirst" ELSE "popFree"
      BY <2>1, <3>1 DEF StartPC
    <3> QED BY <3>2, TakerAt DEF TakenAt, StoppedAt, Parquet
  <2> QED BY <2>1, <2>2, <2>3, StageFacts DEF DeserQueue!Init
<1>2. ASSUME PipelineInv, [Next]_vars PROVE [DeserQueue!Next]_(DeserQueue!vars)
  <2>1. DeserHandOffStep
    <3>1. ASSUME NEW t \in Threads, Step(t) PROVE DeserHandOffStep
      <4>1. CASE Stage(t) = "read"
        BY <1>2, <3>1, <4>1, ReadHandOff, StageFacts DEF Step
      <4>2. CASE Stage(t) = "deser"
        BY <1>2, <3>1, <4>2, DeserAtQueue, StageFacts DEF Step
      <4>3. CASE Stage(t) \in {"comp", "send"}
        BY <1>2, <3>1, <4>3, OthersAtQueue, CompressEffect, SendEffect DEF Step
      <4> QED BY <4>1, <4>2, <4>3, ThreadFacts
    <3>2. CASE UNCHANGED <<pc, loc, queue, finished>>
      BY <3>2 DEF DeserHandOffStep, SameProducers, Producing, Sentinels, ProducerState, Taking, TakerState, ConsumerState
    <3>3. CASE Serve
      BY <3>2, <3>3 DEF Serve
    <3>4. CASE UNCHANGED vars
      BY <3>2, <3>4 DEF vars
    <3> QED BY <1>2, <3>1, <3>3, <3>4 DEF Next, Terminated
  <2>0. DeserQueue!Cardinality(Readers) = Cardinality(Readers) /\ DeserQueue!Cardinality(Desers) = Cardinality(Desers)
    BY Zenon DEF DeserQueue!Cardinality, Cardinality
  <2> USE DEF Producing, Sentinels, Taking, SameProducers
  <2> QED BY <2>0, <2>1 DEF DeserHandOffStep, DeserQueue!Next, DeserQueue!PushBuffer, DeserQueue!HasSpace, HasSpace,
        DeserQueue!Consume, DeserQueue!PopBuffer, DeserQueue!PopSentinel, DeserQueue!Sentinel, Sentinel,
        DeserQueue!Finish, DeserQueue!FetchAdd, DeserQueue!LoadFinished, DeserQueue!PushSentinel, DeserQueue!vars
<1> QED BY <1>1, <1>2, PipelineInvariant, PTL DEF Spec, DeserHandOff, DeserQueue!Spec

-----------------------------------------------------------------------------
(* What StageQueueProofs shows of a hand-off holds for the server's queues. *)

SendStage == INSTANCE StageQueueProofs WITH
  Producers <- Comps, Consumers <- Senders, Capacity <- Capacity.send,
  queue <- queue.send, finished <- finished.comp,
  ppc <- [p \in Comps |-> ProducerState(p)],
  left <- [p \in Comps |-> loc[p].left],
  cpc <- [c \in Senders |-> ConsumerState(c)]

CompStage == INSTANCE StageQueueProofs WITH
  Producers <- Feeders, Consumers <- Comps, Capacity <- Capacity.comp,
  queue <- queue.comp,
  finished <- IF Source = "clickhouse" THEN finished.read ELSE finished.deser,
  ppc <- [p \in Feeders |-> ProducerState(p)],
  left <- [p \in Feeders |-> loc[p].left],
  cpc <- [c \in Comps |-> ConsumerState(c)]

DeserStage == INSTANCE StageQueueProofs WITH
  Producers <- Readers, Consumers <- Desers, Capacity <- Capacity.deser,
  queue <- queue.deser, finished <- finished.read,
  ppc <- [p \in Readers |-> ProducerState(p)],
  left <- [p \in Readers |-> loc[p].left],
  cpc <- [c \in Desers |-> TakerState(c)]

\* The assumptions of StageQueue hold.
LEMMA StageAssumptions ==
  /\ Capacity.send \in Nat /\ Capacity.comp \in Nat /\ Capacity.deser \in Nat /\ Buffers \subseteq Nat
  /\ IsFiniteSet(Readers) /\ Readers # {}
  /\ Source # "clickhouse" => IsFiniteSet(Desers) /\ Desers # {}
  /\ IsFiniteSet(Comps) /\ Comps # {} /\ IsFiniteSet(Senders) /\ Senders # {}
  /\ IsFiniteSet(Feeders) /\ Feeders # {}
<1>1. Capacity.send \in Nat /\ Capacity.comp \in Nat /\ Capacity.deser \in Nat
  <2>1. TotalWorkers \in Int /\ BuffersInBufferpool \in Int
    BY ParallelismAssumption, SizesAssumption DEF TotalWorkers
  <2>2. BuffersInBufferpool - TotalWorkers \in Int
    BY <2>1
  <2>3. \A n \in Int : AsCapacity(QuarterOf(n)) \in Nat
    BY DEF AsCapacity, QuarterOf
  <2>4. \A n \in Int : AsCapacity(QuarterOf(n) + RestOfQuarter(n)) \in Nat
    BY DEF AsCapacity, QuarterOf, RestOfQuarter
  <2> QED BY <2>2, <2>3, <2>4 DEF Capacity, QueueCapacityPerComp, RemainderQueueCapacity
<1>2. ASSUME NEW n \in Nat \ {0}, NEW s PROVE IsFiniteSet({s} \X (1..n)) /\ {s} \X (1..n) # {}
  <2>4. IsFiniteSet({s})
    BY FS_Singleton, Zenon
  <2>1. IsFiniteSet({s}) /\ IsFiniteSet(1..n)
    BY <2>4, FS_Interval
  <2>3. IsFiniteSet({s} \X (1..n))
    BY <2>1, FS_Product
  <2>2. <<s, 1>> \in {s} \X (1..n)
    OBVIOUS
  <2> QED BY <2>2, <2>3
<1> QED BY <1>1, <1>2, BufferFacts, ParallelismAssumption DEF Comps, Senders, Feeders, Readers, Desers

\* The same specification, by its other name.
LEMMA SendStageSpec == SendHandOff => SendStage!Spec
<1>1. SendQueue!Init => SendStage!Init
  BY DEF SendQueue!Init, SendStage!Init
<1>2. [SendQueue!Next]_(SendQueue!vars) => [SendStage!Next]_(SendStage!vars)
  <2>1. ASSUME NEW p, NEW b, SendQueue!PushBuffer(p, b) PROVE SendStage!PushBuffer(p, b)
    BY <2>1 DEF SendQueue!PushBuffer, SendStage!PushBuffer, SendQueue!HasSpace, SendStage!HasSpace
  <2>2. ASSUME NEW p, SendQueue!Finish(p) PROVE SendStage!Finish(p)
    <3>1. SendQueue!FetchAdd(p) => SendStage!FetchAdd(p)
      BY Zenon DEF SendQueue!FetchAdd, SendStage!FetchAdd
    <3>2. SendQueue!LoadFinished(p) => SendStage!LoadFinished(p)
      BY Zenon DEF SendQueue!LoadFinished, SendStage!LoadFinished, SendQueue!Cardinality, SendStage!Cardinality
    <3>3. SendQueue!PushSentinel(p) => SendStage!PushSentinel(p)
      BY Zenon DEF SendQueue!PushSentinel, SendStage!PushSentinel, SendQueue!HasSpace, SendStage!HasSpace,
                   SendQueue!Sentinel, SendStage!Sentinel
    <3> QED BY <2>2, <3>1, <3>2, <3>3 DEF SendQueue!Finish, SendStage!Finish
  <2>3. ASSUME NEW c, SendQueue!Consume(c) PROVE SendStage!Consume(c)
    BY <2>3, Zenon DEF SendQueue!Consume, SendStage!Consume, SendQueue!PopBuffer, SendStage!PopBuffer,
                SendQueue!PopSentinel, SendStage!PopSentinel, SendQueue!Sentinel, SendStage!Sentinel
  <2>4. SendQueue!vars = SendStage!vars /\ SendQueue!vars' = SendStage!vars'
    BY DEF SendQueue!vars, SendStage!vars
  <2> QED BY <2>1, <2>2, <2>3, <2>4 DEF SendQueue!Next, SendStage!Next
<1> QED BY <1>1, <1>2, PTL DEF SendHandOff, SendQueue!Spec, SendStage!Spec

\* Likewise for the queue of the compressors.
LEMMA CompStageSpec == CompHandOff => CompStage!Spec
<1>1. CompQueue!Init => CompStage!Init
  BY DEF CompQueue!Init, CompStage!Init
<1>2. [CompQueue!Next]_(CompQueue!vars) => [CompStage!Next]_(CompStage!vars)
  <2>1. ASSUME NEW p, NEW b, CompQueue!PushBuffer(p, b) PROVE CompStage!PushBuffer(p, b)
    BY <2>1 DEF CompQueue!PushBuffer, CompStage!PushBuffer, CompQueue!HasSpace, CompStage!HasSpace
  <2>2. ASSUME NEW p, CompQueue!Finish(p) PROVE CompStage!Finish(p)
    <3>1. CompQueue!FetchAdd(p) => CompStage!FetchAdd(p)
      BY Zenon DEF CompQueue!FetchAdd, CompStage!FetchAdd
    <3>2. CompQueue!LoadFinished(p) => CompStage!LoadFinished(p)
      BY Zenon DEF CompQueue!LoadFinished, CompStage!LoadFinished, CompQueue!Cardinality, CompStage!Cardinality
    <3>3. CompQueue!PushSentinel(p) => CompStage!PushSentinel(p)
      BY Zenon DEF CompQueue!PushSentinel, CompStage!PushSentinel, CompQueue!HasSpace, CompStage!HasSpace,
                   CompQueue!Sentinel, CompStage!Sentinel
    <3> QED BY <2>2, <3>1, <3>2, <3>3 DEF CompQueue!Finish, CompStage!Finish
  <2>3. ASSUME NEW c, CompQueue!Consume(c) PROVE CompStage!Consume(c)
    BY <2>3, Zenon DEF CompQueue!Consume, CompStage!Consume, CompQueue!PopBuffer, CompStage!PopBuffer,
                CompQueue!PopSentinel, CompStage!PopSentinel, CompQueue!Sentinel, CompStage!Sentinel
  <2>4. CompQueue!vars = CompStage!vars /\ CompQueue!vars' = CompStage!vars'
    BY DEF CompQueue!vars, CompStage!vars
  <2> QED BY <2>1, <2>2, <2>3, <2>4 DEF CompQueue!Next, CompStage!Next
<1> QED BY <1>1, <1>2, PTL DEF CompHandOff, CompQueue!Spec, CompStage!Spec

\* Likewise for the queue of the deserializers.
LEMMA DeserStageSpec == DeserHandOff => DeserStage!Spec
<1>1. DeserQueue!Init => DeserStage!Init
  BY DEF DeserQueue!Init, DeserStage!Init
<1>2. [DeserQueue!Next]_(DeserQueue!vars) => [DeserStage!Next]_(DeserStage!vars)
  <2>1. ASSUME NEW p, NEW b, DeserQueue!PushBuffer(p, b) PROVE DeserStage!PushBuffer(p, b)
    BY <2>1 DEF DeserQueue!PushBuffer, DeserStage!PushBuffer, DeserQueue!HasSpace, DeserStage!HasSpace
  <2>2. ASSUME NEW p, DeserQueue!Finish(p) PROVE DeserStage!Finish(p)
    <3>1. DeserQueue!FetchAdd(p) => DeserStage!FetchAdd(p)
      BY Zenon DEF DeserQueue!FetchAdd, DeserStage!FetchAdd
    <3>2. DeserQueue!LoadFinished(p) => DeserStage!LoadFinished(p)
      BY Zenon DEF DeserQueue!LoadFinished, DeserStage!LoadFinished, DeserQueue!Cardinality, DeserStage!Cardinality
    <3>3. DeserQueue!PushSentinel(p) => DeserStage!PushSentinel(p)
      BY Zenon DEF DeserQueue!PushSentinel, DeserStage!PushSentinel, DeserQueue!HasSpace, DeserStage!HasSpace,
                   DeserQueue!Sentinel, DeserStage!Sentinel
    <3> QED BY <2>2, <3>1, <3>2, <3>3 DEF DeserQueue!Finish, DeserStage!Finish
  <2>3. ASSUME NEW c, DeserQueue!Consume(c) PROVE DeserStage!Consume(c)
    BY <2>3, Zenon DEF DeserQueue!Consume, DeserStage!Consume, DeserQueue!PopBuffer, DeserStage!PopBuffer,
                DeserQueue!PopSentinel, DeserStage!PopSentinel, DeserQueue!Sentinel, DeserStage!Sentinel
  <2>4. DeserQueue!vars = DeserStage!vars /\ DeserQueue!vars' = DeserStage!vars'
    BY DEF DeserQueue!vars, DeserStage!vars
  <2> QED BY <2>1, <2>2, <2>3, <2>4 DEF DeserQueue!Next, DeserStage!Next
<1> QED BY <1>1, <1>2, PTL DEF DeserHandOff, DeserQueue!Spec, DeserStage!Spec

\* No sender returns before its whole input has been taken, and everything before
\* it: no buffer is left in the queues of the deserializers, of the compressors and
\* of the senders, and every thread that could push one there has pushed its last.
SendersEndLast ==
  (\E s \in Senders : pc[s] = "done") =>
    /\ \A i \in 1..Len(queue.send) : queue.send[i] = Sentinel
    /\ \A i \in 1..Len(queue.comp) : queue.comp[i] = Sentinel
    /\ Source # "clickhouse" => \A i \in 1..Len(queue.deser) : queue.deser[i] = Sentinel
    /\ \A t \in Comps \cup Desers \cup Readers : pc[t] \in {"load", "signal", "done"}

\* serve() joins the senders after the compressors; neither has returned before the
\* table, as far as it was read, has been handed on: the server loses no buffer
\* at the end of a transfer, in any interleaving of the fetch_adds, loads and
\* sentinels of its stages.
THEOREM NothingLeftBehind == Spec => []SendersEndLast
<1>1. SendStage!Spec => []SendStage!StopsOnlyWhenDrained
  <2>1. SendStage!IsFiniteSet(Comps) /\ SendStage!IsFiniteSet(Senders)
    <3>1. IsFiniteSet(Comps) /\ IsFiniteSet(Senders)
      BY StageAssumptions
    <3> QED BY <3>1, Zenon DEF IsFiniteSet, SendStage!IsFiniteSet
  <2> QED BY <2>1, StageAssumptions, SendStage!NoEarlyStop
<1>2. CompStage!Spec => []CompStage!StopsOnlyWhenDrained
  <2>1. CompStage!IsFiniteSet(Feeders) /\ CompStage!IsFiniteSet(Comps)
    <3>1. IsFiniteSet(Feeders) /\ IsFiniteSet(Comps)
      BY StageAssumptions
    <3> QED BY <3>1, Zenon DEF IsFiniteSet, CompStage!IsFiniteSet
  <2> QED BY <2>1, StageAssumptions, CompStage!NoEarlyStop
<1>3. Source # "clickhouse" /\ DeserStage!Spec => []DeserStage!StopsOnlyWhenDrained
  <2> SUFFICES ASSUME Source # "clickhouse" PROVE DeserStage!Spec => []DeserStage!StopsOnlyWhenDrained
    OBVIOUS
  <2>1. DeserStage!IsFiniteSet(Readers) /\ DeserStage!IsFiniteSet(Desers)
    <3>1. IsFiniteSet(Readers) /\ IsFiniteSet(Desers)
      BY StageAssumptions
    <3> QED BY <3>1, Zenon DEF IsFiniteSet, DeserStage!IsFiniteSet
  <2> QED BY <2>1, StageAssumptions, DeserStage!NoEarlyStop
<1>4. ASSUME SendStage!StopsOnlyWhenDrained, CompStage!StopsOnlyWhenDrained,
             Source # "clickhouse" => DeserStage!StopsOnlyWhenDrained
      PROVE  SendersEndLast
  <2> SUFFICES ASSUME NEW s \in Senders, pc[s] = "done"
               PROVE  /\ \A i \in 1..Len(queue.send) : queue.send[i] = Sentinel
                      /\ \A i \in 1..Len(queue.comp) : queue.comp[i] = Sentinel
                      /\ Source # "clickhouse" => \A i \in 1..Len(queue.deser) : queue.deser[i] = Sentinel
                      /\ \A t \in Comps \cup Desers \cup Readers : pc[t] \in {"load", "signal", "done"}
    BY DEF SendersEndLast
  <2>1. ConsumerState(s) = "stopped"
    BY DEF ConsumerState
  <2>2. /\ \A i \in 1..Len(queue.send) : queue.send[i] = Sentinel
        /\ \A c \in Comps : ProducerState(c) # "produce"
    BY <1>4, <2>1 DEF SendStage!StopsOnlyWhenDrained, SendStage!Counted, SendStage!Sentinel, Sentinel
  <2>3. \A c \in Comps : pc[c] \in {"load", "signal", "done"} /\ ConsumerState(c) = "stopped"
    BY <2>2 DEF ProducerState, ConsumerState
  <2>4. \E c \in Comps : ConsumerState(c) = "stopped"
    BY <2>3, StageAssumptions
  <2>5. /\ \A i \in 1..Len(queue.comp) : queue.comp[i] = Sentinel
        /\ \A c \in Feeders : ProducerState(c) # "produce"
    BY <1>4, <2>4 DEF CompStage!StopsOnlyWhenDrained, CompStage!Counted, CompStage!Sentinel, Sentinel
  <2>6. \A c \in Feeders : pc[c] \in {"load", "signal", "done"}
    BY <2>5 DEF ProducerState
  <2>7. CASE Source = "clickhouse"
    BY <2>2, <2>3, <2>5, <2>6, <2>7 DEF Feeders, Desers
  <2>8. CASE Source # "clickhouse"
    <3>1. \E d \in Desers : TakerState(d) = "stopped"
      BY <2>6, <2>8, StageAssumptions DEF Feeders, TakerState, ConsumerState
    <3>2. /\ \A i \in 1..Len(queue.deser) : queue.deser[i] = Sentinel
          /\ \A c \in Readers : ProducerState(c) # "produce"
      BY <1>4, <2>8, <3>1 DEF DeserStage!StopsOnlyWhenDrained, DeserStage!Counted, DeserStage!Sentinel, Sentinel
    <3>3. \A c \in Readers : pc[c] \in {"load", "signal", "done"}
      BY <3>2 DEF ProducerState
    <3> QED BY <2>2, <2>3, <2>5, <2>6, <2>8, <3>2, <3>3 DEF Feeders
  <2> QED BY <2>7, <2>8
<1>5. Source # "clickhouse" /\ Spec => DeserStage!Spec
  <2>1. CASE Source # "clickhouse"
    BY <2>1, DeserializersImplement, DeserStageSpec, PTL
  <2>2. CASE Source = "clickhouse"
    BY <2>2
  <2> QED BY <2>1, <2>2
<1>6. CASE Source = "clickhouse"
  <2>1. ASSUME SendStage!StopsOnlyWhenDrained, CompStage!StopsOnlyWhenDrained PROVE SendersEndLast
    BY <1>4, <1>6, <2>1
  <2> QED BY <1>1, <1>2, <2>1, SendStageSpec, CompStageSpec, SendersImplement, CompressorsImplement, PTL
<1>7. CASE Source # "clickhouse"
  <2>1. ASSUME SendStage!StopsOnlyWhenDrained, CompStage!StopsOnlyWhenDrained, DeserStage!StopsOnlyWhenDrained
        PROVE  SendersEndLast
    BY <1>4, <2>1
  <2>2. Spec => []DeserStage!StopsOnlyWhenDrained
    BY <1>3, <1>5, <1>7
  <2> QED BY <1>1, <1>2, <2>1, <2>2, SendStageSpec, CompStageSpec, SendersImplement, CompressorsImplement, PTL
<1> QED BY <1>6, <1>7
=============================================================================
