------------------------- MODULE ClientPipelineProofs -------------------------
(***************************************************************************)
(* Proofs about ClientPipeline, for every number of threads, every size of *)
(* the pool, either sink and every choice of faults.                       *)
(*                                                                         *)
(* ClientInv is the inductive invariant: what each thread holds where it   *)
(* is (HoldInv), that no buffer is in two places and, unless the text of a *)
(* buffer overflows (TextFits), that none is lost (PlaceInv), and what     *)
(* the buffers on their way to the serializers carry (TextInv).  Types and *)
(* the conservation of buffers follow from it.  The second part shows that *)
(* the hand-offs implement StageQueue, and with the theorems of            *)
(* StageQueueProofs what that means for the threads that end.  The third   *)
(* follows the rows: RowsInv says at which place of which buffer each row  *)
(* is, and with the end of the hand-offs that CsvSink writes each row it   *)
(* is given once.  The last part counts what is left of the pool.          *)
(***************************************************************************)
EXTENDS ClientPipeline, PoolLemmas, TLAPS

\* The text of a buffer fits the buffers it is written to: for tuples into one;
\* for parquet the last one is neither full nor empty.  Otherwise serialize
\* keeps or overwrites buffers (the run client_overflow).
TextFits ==
  Sink = "csv" /\ ~SkipSerializer =>
    IF IFormat = 4 THEN RowsPerBuffer % TextRowsPerBuffer # 0
                   ELSE RowsPerBuffer <= TextRowsPerBuffer

LocType == [in : Buffers \cup {NoBuffer}, out : Buffers \cup {NoBuffer},
            tgt : Buffers \cup {NoBuffer}, off : Nat, left : Nat, suffix : Nat]

Contents == [Buffers -> Seq(Rows \cup {Placeholder})]

-----------------------------------------------------------------------------
\* Where a thread of each stage has a buffer to read, none to read, one to write
\* into, and none to write into.
InFull ==
  [rcv |-> {},
   decomp |-> {"forward", "popFree", "decompress", "push", "release", "dropIn"},
   ser |-> {"forward", "serialize", "convert", "pushFull", "refill", "pushLast", "release"}
             \cup (IF Arrow THEN {} ELSE {"popFree"}),
   write |-> {"write", "openFile", "writeFile", "release"}]

InEmpty ==
  [rcv |-> {},
   decomp |-> {"pop", "dropOut"},
   ser |-> {"pop"},
   write |-> {"open", "pop", "hasNext"}]

OutFull ==
  [rcv |-> {"read", "push"},
   decomp |-> {"decompress", "push", "dropIn", "dropOut"},
   ser |-> {"serialize", "convert", "pushFull", "pushLast"},
   write |-> {}]

OutEmpty ==
  [rcv |-> {"connect", "popFree"},
   decomp |-> {"pop", "popFree", "forward", "release"},
   ser |-> {"refill"} \cup (IF TextFits THEN {"pop", "popFree", "forward", "release"} ELSE {}),
   write |-> {}]

\* What a thread t at s holds in its variables v.
HoldsRight(t, s, v) ==
  /\ s \in InFull[Stage(t)] => v.in \in Buffers
  /\ s \in InEmpty[Stage(t)] => v.in = NoBuffer
  /\ s \in OutFull[Stage(t)] => v.out \in Buffers
  /\ s \in OutEmpty[Stage(t)] => v.out = NoBuffer
  /\ s = "signal" => v.left > 0
  /\ s = "convert" => Sink # "csv"
  /\ s \in {"hasNext", "invalid"} => Sink = "pull"

HoldInv == \A t \in Threads : HoldsRight(t, pc[t], loc[t])

\* The ids that the variables of the threads hold.
Held == [s \in ThreadSlots |-> loc[s[1]][s[2]]]

\* No buffer is in two places, and none is lost.
PlaceInv == OnePlace(Buffers, queue, Held) /\ (TextFits => SomePlace(Buffers, queue, Held))

\* A buffer as it was received.
Whole(rows) == rows \in Seq(Rows) /\ Len(rows) = RowsPerBuffer

\* The buffers in a queue are whole.
AllWhole(q, c) == \A i \in 1..Len(q) : q[i] \in Buffers => Whole(c[q[i]])

\* What thread t at s works on: decompressors and serializers read whole buffers,
\* and a serializer writes only into the buffer it holds and has tuples left.
TextRight(t, s, v, c) ==
  /\ Stage(t) = "rcv" /\ s = "push" => Whole(c[v.out])
  /\ Stage(t) \in {"decomp", "ser"} /\ s \in InFull[Stage(t)] => Whole(c[v.in])
  /\ Stage(t) = "decomp" /\ s = "push" => Whole(c[v.out])
  /\ Stage(t) = "ser" =>
       /\ s \in {"popFree", "serialize", "pushFull", "refill"} => ~SkipSerializer
       /\ s = "popFree" /\ v.in \in Buffers => Whole(c[v.in])
       /\ s = "popFree" /\ Sink = "csv" => v.off = 0
       /\ s \in {"serialize", "pushFull", "refill"} =>
            /\ Sink = "csv" /\ v.off < RowsPerBuffer
            /\ IF IFormat = 4 THEN v.off % TextRowsPerBuffer = 0 ELSE v.off = 0
       /\ s = "serialize" => v.tgt = v.out
       /\ s \in {"pushFull", "refill"} => IFormat = 4

TextInv ==
  /\ Sink = "csv" => content \in [Buffers -> Seq(Rows)]
  /\ TextFits => /\ AllWhole(queue["decomp"], content) /\ AllWhole(queue["ser"], content)
                 /\ \A t \in Threads : TextRight(t, pc[t], loc[t], content)

ClientInv == TypeOK /\ HoldInv /\ PlaceInv /\ TextInv

-----------------------------------------------------------------------------
\* Products of natural numbers are natural numbers.
LEMMA ProductNat == \A a, b \in Nat : a * b \in Nat
OBVIOUS

\* Sentinel and NoBuffer are no buffers; the pool is finite.
LEMMA BufferFacts ==
  /\ Sentinel \notin Buffers /\ NoBuffer \notin Buffers /\ Buffers \subseteq Nat
  /\ IsFiniteSet(Buffers) /\ Cardinality(Buffers) = BuffersInBufferpool
<1>1. IsFiniteSet(Buffers) /\ Cardinality(Buffers) = BuffersInBufferpool
  BY FS_Interval, SizesAssumption DEF Buffers
<1> QED BY <1>1, SizesAssumption DEF Buffers, Sentinel, NoBuffer

\* Threads carry the name of their stage.
LEMMA ThreadFacts ==
  ASSUME NEW t \in Threads
  PROVE  /\ Stage(t) \in {"rcv", "decomp", "ser", "write"}
         /\ Stage(t) = "ser" => Sink \in {"csv", "parquet"}
         /\ From(t) \in {"rcv", "decomp", "ser", "write"} /\ (Stage(t) # "rcv" => From(t) # "rcv")
         /\ Stage(t) \in {"rcv", "decomp", "ser"} =>
              /\ NextStage[Stage(t)] \in {"decomp", "ser", "write"}
              /\ Parallelism[NextStage[Stage(t)]] \in Nat \ {0}
<1>1. /\ Stage(t) \in {"rcv", "decomp", "ser", "write"}
      /\ Stage(t) = "ser" => Sink \in {"csv", "parquet"}
  BY OptionsAssumption DEF Threads, Receivers, Decomps, Serializers, Writers, Stage
<1>2. NextStage["rcv"] = "decomp" /\ NextStage["decomp"] = "ser" /\ NextStage["ser"] = "write"
  BY DEF NextStage
<1>3. \A s \in {"decomp", "ser", "write"} : Parallelism[s] \in Nat \ {0}
  BY ParallelismAssumption DEF Parallelism
<1>4. From(t) \in {"rcv", "decomp", "ser", "write"} /\ (Stage(t) # "rcv" => From(t) # "rcv")
  BY <1>1 DEF From
<1> QED BY <1>1, <1>2, <1>3, <1>4

\* The free queue at the start.
LEMMA FirstQueue ==
  ASSUME NEW N \in Nat, NEW f, f = [i \in 1..N |-> i - 1]
  PROVE  /\ f \in Seq(0..(N - 1)) /\ Len(f) = N
         /\ \A i \in 1..N : f[i] = i - 1
OBVIOUS

\* Where the threads of each stage start.
LEMMA Starts ==
  /\ StartPC["rcv"] = "connect" /\ StartPC["decomp"] = "pop"
  /\ StartPC["ser"] \in {"fetchAdd", "pop"} /\ StartPC["write"] \in {"open", "pop", "hasNext"}
  /\ StartPC["write"] = "hasNext" => Sink = "pull"
<1>1. StartPC["write"] = CASE Sink = "csv" -> "open" [] Sink = "parquet" -> "pop" [] Sink = "pull" -> "hasNext"
  BY Zenon DEF StartPC
<1>2. /\ Sink = "csv" => StartPC["write"] = "open"
      /\ Sink = "parquet" => StartPC["write"] = "pop"
      /\ Sink = "pull" => StartPC["write"] = "hasNext"
  BY <1>1, Zenon
<1>3. StartPC["rcv"] = "connect" /\ StartPC["decomp"] = "pop" /\ StartPC["ser"] \in {"fetchAdd", "pop"}
  BY DEF StartPC
<1> QED BY <1>2, <1>3, OptionsAssumption

\* The invariant holds at the start: all buffers are free.
LEMMA ClientInit == Init => ClientInv
<1> SUFFICES ASSUME Init PROVE ClientInv
  OBVIOUS
<1>1. \A t \in Threads : StartPC[Stage(t)] \in PCs
  BY ThreadFacts, Starts DEF PCs
<1>2. /\ queue.free \in Seq(Buffers) /\ Len(queue.free) = BuffersInBufferpool
      /\ \A i \in 1..BuffersInBufferpool : queue.free[i] = i - 1
      /\ queue.decomp = <<>> /\ queue.ser = <<>> /\ queue.write = <<>>
      /\ DOMAIN queue = {"free", "decomp", "ser", "write"}
  BY FirstQueue, SizesAssumption DEF Init, Buffers
<1>3. TypeOK
  <2>1. pc \in [Threads -> PCs]
    BY <1>1 DEF Init
  <2>2. loc \in [Threads -> LocType]
    BY DEF Init, LocType
  <2>3. \A name \in {"decomp", "ser", "write"} : queue[name] \in Seq(Buffers \cup {Sentinel})
    <3>1. \A name \in {"decomp", "ser", "write"} : queue[name] = <<>>
      BY <1>2
    <3>2. <<>> \in Seq(Buffers \cup {Sentinel})
      OBVIOUS
    <3> QED BY <3>1, <3>2
  <2>4. <<>> \in Seq(Rows \cup {Placeholder})
    OBVIOUS
  <2>5. /\ content \in Contents /\ finished \in [{"rcv", "decomp", "ser", "empty"} -> Nat]
        /\ files \in [0..(IncomingBuffers - 1) -> Seq(Rows \cup {Placeholder})]
    BY <2>4 DEF Init, Contents
  <2>6. written \in [Rows -> Nat] /\ dropped \subseteq Rows /\ inFlight \in 0..IncomingBuffers
    BY SizesAssumption DEF Init
  <2> QED BY <1>2, <2>1, <2>2, <2>3, <2>5, <2>6 DEF TypeOK, LocType, Contents
<1>4. \A t \in Threads : /\ loc[t].in = NoBuffer /\ loc[t].out = NoBuffer
                         /\ pc[t] = StartPC[Stage(t)]
  BY DEF Init
<1>5. HoldInv
  <2> SUFFICES ASSUME NEW t \in Threads PROVE HoldsRight(t, pc[t], loc[t])
    BY DEF HoldInv
  <2>1. CASE Stage(t) = "rcv"
    BY <1>4, <2>1, Starts DEF HoldsRight, InFull, InEmpty, OutFull, OutEmpty
  <2>2. CASE Stage(t) = "decomp"
    BY <1>4, <2>2, Starts DEF HoldsRight, InFull, InEmpty, OutFull, OutEmpty
  <2>3. CASE Stage(t) = "ser"
    BY <1>4, <2>3, Starts DEF HoldsRight, InFull, InEmpty, OutFull, OutEmpty
  <2>4. CASE Stage(t) = "write"
    BY <1>4, <2>4, Starts DEF HoldsRight, InFull, InEmpty, OutFull, OutEmpty
  <2> QED BY <2>1, <2>2, <2>3, <2>4, ThreadFacts
<1>6. /\ DOMAIN Held = ThreadSlots
      /\ \A s \in ThreadSlots : Held[s] = NoBuffer
  <2>1. ASSUME NEW s \in ThreadSlots PROVE Held[s] = NoBuffer
    <3>1. s[1] \in Threads /\ s[2] \in {"in", "out"}
      BY DEF ThreadSlots, Init
    <3> QED BY <3>1, <1>4 DEF Held
  <2> QED BY <2>1 DEF Held
<1>7. PlaceInv
  <2>1. \A n \in DOMAIN queue : \A i \in 1..Len(queue[n]) : n = "free" /\ i \in 1..BuffersInBufferpool
    BY <1>2
  <2>2. OnePlace(Buffers, queue, Held)
    BY <1>2, <1>6, <2>1, BufferFacts, SizesAssumption DEF OnePlace
  <2>3. ASSUME NEW b \in Buffers PROVE \E n \in DOMAIN queue : \E i \in 1..Len(queue[n]) : queue[n][i] = b
    <3>1. b + 1 \in 1..Len(queue["free"]) /\ queue["free"][b + 1] = b
      BY <1>2, SizesAssumption DEF Buffers
    <3> QED BY <1>2, <3>1
  <2> QED BY <2>2, <2>3 DEF PlaceInv, SomePlace
<1>8. TextInv
  <2>1. ASSUME NEW t \in Threads PROVE TextRight(t, pc[t], loc[t], content)
    <3>1. pc[t] \in {"connect", "pop", "fetchAdd", "open", "hasNext"}
      BY <1>4, ThreadFacts, Starts
    <3>2. Stage(t) \in {"decomp", "ser"} => pc[t] \notin InFull[Stage(t)]
      BY <3>1 DEF InFull
    <3> QED BY <3>1, <3>2 DEF TextRight
  <2>2. content \in [Buffers -> Seq(Rows)]
    BY DEF Init
  <2>3. AllWhole(queue["decomp"], content) /\ AllWhole(queue["ser"], content)
    BY <1>2 DEF AllWhole
  <2> QED BY <2>1, <2>2, <2>3 DEF TextInv
<1> QED BY <1>3, <1>5, <1>7, <1>8 DEF ClientInv

-----------------------------------------------------------------------------
QueueNames == {"free", "decomp", "ser", "write"}

QueueTypes ==
  /\ DOMAIN queue = QueueNames
  /\ queue.free \in Seq(Buffers)
  /\ \A name \in {"decomp", "ser", "write"} : queue[name] \in Seq(Buffers \cup {Sentinel})

\* What the queues hold.
LEMMA QueueElements ==
  ASSUME QueueTypes
  PROVE  /\ \A name \in QueueNames : queue[name] \in Seq(Int)
         /\ \A name \in QueueNames : name \in DOMAIN queue /\ queue[name] \in Seq(Buffers \cup {Sentinel})
         /\ queue["free"] \in Seq(Buffers) /\ queue["free"] = queue.free
<1>1. queue["free"] \in Seq(Buffers) /\ queue["free"] = queue.free
  BY DEF QueueTypes
<1>2. queue["free"] \in Seq(Buffers \cup {Sentinel})
  BY <1>1
<1>3. \A name \in QueueNames : name \in DOMAIN queue /\ queue[name] \in Seq(Buffers \cup {Sentinel})
  BY <1>1, <1>2 DEF QueueTypes, QueueNames
<1>4. Buffers \cup {Sentinel} \subseteq Int
  BY BufferFacts DEF Sentinel
<1>5. \A f \in Seq(Buffers \cup {Sentinel}) : f \in Seq(Int)
  BY <1>4
<1> QED BY <1>1, <1>3, <1>5

\* The variables of one thread are replaced by v.
LEMMA HeldUpdate ==
  ASSUME loc \in [Threads -> LocType], NEW t \in Threads, NEW v \in LocType,
         loc' = [loc EXCEPT ![t] = v]
  PROVE  /\ DOMAIN Held' = DOMAIN Held
         /\ <<t, "in">> \in DOMAIN Held /\ <<t, "out">> \in DOMAIN Held
         /\ Held[<<t, "in">>] = loc[t].in /\ Held[<<t, "out">>] = loc[t].out
         /\ \A s \in DOMAIN Held :
              Held'[s] = IF s = <<t, "in">> THEN v.in
                         ELSE IF s = <<t, "out">> THEN v.out ELSE Held[s]
<1>1. DOMAIN Held = Threads \X {"in", "out"} /\ DOMAIN Held' = Threads \X {"in", "out"}
  BY DEF Held, ThreadSlots
<1>2. <<t, "in">> \in Threads \X {"in", "out"} /\ <<t, "out">> \in Threads \X {"in", "out"}
  OBVIOUS
<1>3. \A s \in Threads \X {"in", "out"} : Held[s] = loc[s[1]][s[2]] /\ Held'[s] = loc'[s[1]][s[2]]
  BY DEF Held, ThreadSlots
<1>4. ASSUME NEW s \in Threads \X {"in", "out"}
      PROVE  Held'[s] = IF s = <<t, "in">> THEN v.in
                        ELSE IF s = <<t, "out">> THEN v.out ELSE Held[s]
  <2>1. s[1] \in Threads /\ s[2] \in {"in", "out"} /\ s = <<s[1], s[2]>>
    OBVIOUS
  <2>2. CASE s[1] = t
    <3>1. loc'[s[1]] = v
      BY <2>2
    <3>2. CASE s[2] = "in"
      BY <1>3, <2>1, <2>2, <3>1, <3>2
    <3>3. CASE s[2] = "out"
      BY <1>3, <2>1, <2>2, <3>1, <3>3
    <3> QED BY <2>1, <3>2, <3>3
  <2>3. CASE s[1] # t
    BY <1>3, <2>1, <2>3
  <2> QED BY <2>2, <2>3
<1> QED BY <1>1, <1>2, <1>3, <1>4

\* A pop into a variable, which holds nothing before if no buffer is to be lost.
LEMMA TakeKeeps ==
  ASSUME QueueTypes, PlaceInv, NEW name \in QueueNames, Take(name), NEW s, NEW x,
         x = Front(name) \/ (Front(name) = Sentinel /\ x = NoBuffer), TextFits => Held[s] = NoBuffer,
         Assigned(Held, s, x, Held')
  PROVE  PlaceInv' /\ QueueTypes'
<1>1. /\ name \in DOMAIN queue /\ queue[name] \in Seq(Buffers \cup {Sentinel})
      /\ queue[name] # <<>> /\ queue' = [queue EXCEPT ![name] = Tail(@)]
      /\ Popped(queue, name, queue')
  BY QueueElements DEF Take, Popped
<1>2. QueueTypes'
  <2>1. CASE name = "free"
    BY <2>1, <1>1, QueueElements, TailElements DEF QueueTypes, QueueNames
  <2>2. CASE name # "free"
    BY <2>2, <1>1, QueueElements, TailElements DEF QueueTypes, QueueNames
  <2> QED BY <2>1, <2>2
<1>3. OnePlace(Buffers, queue, Held) /\ (TextFits => SomePlace(Buffers, queue, Held))
  BY DEF PlaceInv
<1>4. (x = Head(queue[name]) \/ x \notin Buffers) /\ (x = Head(queue[name]) \/ Head(queue[name]) \notin Buffers)
      /\ (TextFits => Held[s] \notin Buffers)
  BY BufferFacts DEF Front
<1>5. OnePlace(Buffers, queue', Held')
  BY <1>1, <1>3, <1>4, PopKeepsOne
<1>6. TextFits => SomePlace(Buffers, queue', Held')
  BY <1>1, <1>3, <1>4, PopKeepsSome
<1> QED BY <1>2, <1>5, <1>6 DEF PlaceInv

\* A sentinel popped.
LEMMA TakeStopKeeps ==
  ASSUME QueueTypes, PlaceInv, NEW name \in QueueNames, Take(name), Front(name) = Sentinel, Held' = Held
  PROVE  PlaceInv' /\ QueueTypes'
<1>1. /\ name \in DOMAIN queue /\ queue[name] \in Seq(Buffers \cup {Sentinel})
      /\ queue[name] # <<>> /\ queue' = [queue EXCEPT ![name] = Tail(@)]
      /\ Popped(queue, name, queue')
  BY QueueElements DEF Take, Popped
<1>2. QueueTypes'
  <2>1. CASE name = "free"
    BY <2>1, <1>1, QueueElements, TailElements DEF QueueTypes, QueueNames
  <2>2. CASE name # "free"
    BY <2>2, <1>1, QueueElements, TailElements DEF QueueTypes, QueueNames
  <2> QED BY <2>1, <2>2
<1>3. OnePlace(Buffers, queue, Held) /\ (TextFits => SomePlace(Buffers, queue, Held))
      /\ Head(queue[name]) \notin Buffers
  BY BufferFacts DEF PlaceInv, Front
<1>4. OnePlace(Buffers, queue', Held) /\ (TextFits => SomePlace(Buffers, queue', Held))
  BY <1>1, <1>3, PopSentinelKeeps
<1> QED BY <1>2, <1>4 DEF PlaceInv

\* The queues after a push of b, a sentinel only into a queue between stages.
LEMMA PutTypes ==
  ASSUME QueueTypes, NEW name \in QueueNames, NEW b \in Buffers \cup {Sentinel},
         b \in Buffers \/ name # "free", Put(name, b)
  PROVE  QueueTypes' /\ Pushed(queue, name, b, queue')
<1>1. /\ name \in DOMAIN queue /\ queue[name] \in Seq(Buffers \cup {Sentinel})
      /\ queue' = [queue EXCEPT ![name] = Append(@, b)]
  BY QueueElements DEF Put
<1>2. ASSUME name = "free" PROVE QueueTypes'
  BY <1>1, <1>2, QueueElements, AppendElements DEF QueueTypes, QueueNames
<1>3. ASSUME name # "free" PROVE QueueTypes'
  BY <1>1, <1>3, QueueElements, AppendElements DEF QueueTypes, QueueNames
<1>4. Pushed(queue, name, b, queue')
  BY <1>1, QueueElements, BufferFacts DEF Pushed, Sentinel
<1> QED BY <1>2, <1>3, <1>4

\* A push from a variable that holds nothing afterwards.
LEMMA PutKeeps ==
  ASSUME QueueTypes, PlaceInv, NEW name \in QueueNames, NEW s, Held[s] \in Buffers,
         Put(name, Held[s]), Assigned(Held, s, NoBuffer, Held')
  PROVE  PlaceInv' /\ QueueTypes'
<1>1. QueueTypes' /\ Pushed(queue, name, Held[s], queue')
  BY PutTypes
<1>2. OnePlace(Buffers, queue, Held) /\ (TextFits => SomePlace(Buffers, queue, Held)) /\ NoBuffer \notin Buffers
  BY BufferFacts DEF PlaceInv
<1>3. OnePlace(Buffers, queue', Held')
  BY <1>1, <1>2, PushKeepsOne
<1>4. TextFits => SomePlace(Buffers, queue', Held')
  BY <1>1, <1>2, PushKeepsSome
<1> QED BY <1>1, <1>3, <1>4 DEF PlaceInv

\* A sentinel pushed.
LEMMA PutStopKeeps ==
  ASSUME QueueTypes, PlaceInv, NEW name \in QueueNames, name # "free", Put(name, Sentinel), Held' = Held
  PROVE  PlaceInv' /\ QueueTypes'
<1>1. QueueTypes' /\ Pushed(queue, name, Sentinel, queue')
  BY PutTypes
<1>2. OnePlace(Buffers, queue, Held) /\ (TextFits => SomePlace(Buffers, queue, Held)) /\ Sentinel \notin Buffers
  BY BufferFacts DEF PlaceInv
<1>3. OnePlace(Buffers, queue', Held) /\ (TextFits => SomePlace(Buffers, queue', Held))
  BY <1>1, <1>2, PushSentinelKeeps
<1> QED BY <1>1, <1>3 DEF PlaceInv

-----------------------------------------------------------------------------
\* What threads hold, they hold alone; it is in no queue.
LEMMA HeldApart ==
  ASSUME loc \in [Threads -> LocType], QueueTypes, PlaceInv, NEW t \in Threads
  PROVE  /\ loc[t].in \in Buffers => loc[t].in # loc[t].out
         /\ \A u \in Threads : u # t =>
              /\ loc[u].in \in Buffers => loc[u].in # loc[t].out
              /\ loc[u].out \in Buffers => loc[u].out # loc[t].out
         /\ \A n \in QueueNames : \A i \in 1..Len(queue[n]) :
              queue[n][i] \in Buffers => queue[n][i] # loc[t].out
<1>1. \A u \in Threads : /\ <<u, "in">> \in DOMAIN Held /\ <<u, "out">> \in DOMAIN Held
                         /\ Held[<<u, "in">>] = loc[u].in /\ Held[<<u, "out">>] = loc[u].out
  BY DEF Held, ThreadSlots
<1>2. \A r, s \in DOMAIN Held : Held[r] \in Buffers /\ Held[r] = Held[s] => r = s
  BY DEF PlaceInv, OnePlace
<1>3. loc[t].in \in Buffers => loc[t].in # loc[t].out
  BY <1>1, <1>2
<1>4. ASSUME NEW u \in Threads, u # t
      PROVE  /\ loc[u].in \in Buffers => loc[u].in # loc[t].out
             /\ loc[u].out \in Buffers => loc[u].out # loc[t].out
  BY <1>1, <1>2, <1>4
<1>5. ASSUME NEW n \in QueueNames, NEW i \in 1..Len(queue[n]), queue[n][i] \in Buffers
      PROVE  queue[n][i] # loc[t].out
  <2>1. n \in DOMAIN queue
    BY DEF QueueTypes
  <2>2. \A s \in DOMAIN Held : queue[n][i] # Held[s]
    BY <1>5, <2>1 DEF PlaceInv, OnePlace
  <2> QED BY <1>1, <2>2
<1> QED BY <1>3, <1>4, <1>5

\* Thread t goes to s and its variables become v.
ThreadStep(t, s, v) ==
  /\ s \in PCs /\ v \in LocType
  /\ pc' = [pc EXCEPT ![t] = s] /\ loc' = [loc EXCEPT ![t] = v]

\* Thread t changes, if text fits, no buffer but the one it writes.
ContentStep(t) ==
  /\ content' \in Contents
  /\ Sink = "csv" => content' \in [Buffers -> Seq(Rows)]
  /\ TextFits => \A b \in Buffers : b # loc[t].out => content'[b] = content[b]

\* Queue n has lost its head, or has been given a sentinel or a whole buffer.
QueueMoves(n) ==
  \/ queue'[n] = queue[n]
  \/ queue[n] # <<>> /\ queue'[n] = Tail(queue[n])
  \/ \E e \in Buffers \cup {Sentinel} :
       queue'[n] = Append(queue[n], e) /\ (TextFits /\ e \in Buffers => Whole(content'[e]))

RestTypes ==
  /\ finished \in [{"rcv", "decomp", "ser", "empty"} -> Nat]
  /\ inFlight \in 0..IncomingBuffers
  /\ dropped \subseteq Rows
  /\ written \in [Rows -> Nat]
  /\ files \in [0..(IncomingBuffers - 1) -> Seq(Rows \cup {Placeholder})]

\* The type invariant, in the parts that the proofs use.
LEMMA TypeParts ==
  ASSUME TypeOK
  PROVE  /\ pc \in [Threads -> PCs] /\ loc \in [Threads -> LocType]
         /\ QueueTypes /\ content \in Contents /\ RestTypes
BY DEF TypeOK, LocType, QueueTypes, QueueNames, RestTypes, Contents

\* A queue of whole buffers stays one.
LEMMA WholeStep ==
  ASSUME ClientInv, TextFits, NEW t \in Threads, ContentStep(t), NEW n \in {"decomp", "ser"}, QueueMoves(n)
  PROVE  AllWhole(queue'[n], content')
<1>1. QueueTypes /\ PlaceInv /\ loc \in [Threads -> LocType] /\ AllWhole(queue[n], content)
  BY TypeParts DEF ClientInv, TextInv
<1>2. queue[n] \in Seq(Buffers \cup {Sentinel}) /\ n \in QueueNames
  BY <1>1 DEF QueueTypes, QueueNames
<1>3. \A i \in 1..Len(queue[n]) : queue[n][i] \in Buffers => Whole(content'[queue[n][i]])
  BY <1>1, <1>2, HeldApart DEF AllWhole, ContentStep
<1>4. CASE queue'[n] = queue[n]
  BY <1>3, <1>4 DEF AllWhole
<1>5. CASE queue[n] # <<>> /\ queue'[n] = Tail(queue[n])
  <2>1. \A i \in 1..Len(Tail(queue[n])) :
          Tail(queue[n])[i] = queue[n][i+1] /\ i+1 \in 1..Len(queue[n])
    BY <1>2, <1>5, TailElements
  <2> QED BY <1>3, <1>5, <2>1 DEF AllWhole
<1>6. ASSUME NEW e \in Buffers \cup {Sentinel}, queue'[n] = Append(queue[n], e),
             e \in Buffers => Whole(content'[e])
      PROVE  AllWhole(queue'[n], content')
  <2>1. /\ Len(queue[n]) \in Nat /\ Len(Append(queue[n], e)) = Len(queue[n]) + 1
        /\ \A i \in 1..Len(Append(queue[n], e)) :
             Append(queue[n], e)[i] = IF i = Len(queue[n]) + 1 THEN e ELSE queue[n][i]
    BY <1>2, AppendElements
  <2> QED BY <1>3, <1>6, <2>1 DEF AllWhole
<1> QED BY <1>4, <1>5, <1>6 DEF QueueMoves

\* A step of one thread preserves the invariant if the thread is left with what it
\* should hold, and the buffers are in their places.
LEMMA Combine ==
  ASSUME ClientInv, NEW t \in Threads, NEW s, NEW v, ThreadStep(t, s, v), ContentStep(t),
         HoldsRight(t, s, v), TextFits => TextRight(t, s, v, content'), PlaceInv', QueueTypes',
         QueueMoves("decomp"), QueueMoves("ser"), RestTypes'
  PROVE  ClientInv'
<1>1. /\ pc \in [Threads -> PCs] /\ loc \in [Threads -> LocType]
      /\ QueueTypes /\ content \in Contents /\ PlaceInv /\ HoldInv /\ TextInv
  BY TypeParts DEF ClientInv
<1>2. /\ pc' \in [Threads -> PCs] /\ loc' \in [Threads -> LocType]
      /\ pc'[t] = s /\ loc'[t] = v
      /\ \A u \in Threads : u # t => pc'[u] = pc[u] /\ loc'[u] = loc[u]
  BY <1>1 DEF ThreadStep
<1>3. TypeOK'
  BY <1>2 DEF TypeOK, LocType, QueueTypes, QueueNames, RestTypes, ContentStep, Contents
<1>4. HoldInv'
  <2> SUFFICES ASSUME NEW u \in Threads PROVE HoldsRight(u, pc'[u], loc'[u])
    BY DEF HoldInv, HoldsRight
  <2>1. CASE u = t
    BY <1>2, <2>1
  <2>2. CASE u # t
    BY <1>1, <1>2, <2>2 DEF HoldInv
  <2> QED BY <2>1, <2>2
<1>5. ASSUME TextFits, NEW u \in Threads PROVE TextRight(u, pc'[u], loc'[u], content')
  <2>1. CASE u = t
    BY <1>2, <1>5, <2>1
  <2>2. CASE u # t
    <3>1. /\ loc[u].in \in Buffers => content'[loc[u].in] = content[loc[u].in]
          /\ loc[u].out \in Buffers => content'[loc[u].out] = content[loc[u].out]
      BY <1>1, <1>5, <2>2, HeldApart DEF ContentStep
    <3>2. TextRight(u, pc[u], loc[u], content) /\ HoldsRight(u, pc[u], loc[u])
      BY <1>1, <1>5 DEF TextInv, HoldInv
    <3>3. /\ pc[u] \in InFull[Stage(u)] => loc[u].in \in Buffers
          /\ pc[u] \in OutFull[Stage(u)] => loc[u].out \in Buffers
      BY <3>2 DEF HoldsRight
    <3>4. Stage(u) \in {"rcv", "decomp"} /\ pc[u] = "push" => pc[u] \in OutFull[Stage(u)]
      BY DEF OutFull
    <3>5. pc'[u] = pc[u] /\ loc'[u] = loc[u]
      BY <1>2, <2>2
    <3> QED BY <3>1, <3>2, <3>3, <3>4, <3>5 DEF TextRight
  <2> QED BY <2>1, <2>2
<1>6. TextFits => AllWhole(queue'["decomp"], content') /\ AllWhole(queue'["ser"], content')
  BY WholeStep
<1>7. TextInv'
  <2>1. Sink = "csv" => content' \in [Buffers -> Seq(Rows)]
    BY DEF ContentStep
  <2>2. TextFits => \A u \in Threads : TextRight(u, pc'[u], loc'[u], content')
    BY <1>5
  <2> QED BY <1>6, <2>1, <2>2 DEF TextInv, AllWhole, TextRight, TextFits
<1> QED BY <1>3, <1>4, <1>7 DEF ClientInv

-----------------------------------------------------------------------------
\* The parts of the invariant that a step of thread t starts from.
LEMMA StepFacts ==
  ASSUME ClientInv, NEW t \in Threads
  PROVE  /\ pc \in [Threads -> PCs] /\ loc \in [Threads -> LocType] /\ loc[t] \in LocType
         /\ QueueTypes /\ PlaceInv /\ content \in Contents /\ RestTypes
         /\ Sink = "csv" => content \in [Buffers -> Seq(Rows)]
         /\ HoldsRight(t, pc[t], loc[t]) /\ (TextFits => TextRight(t, pc[t], loc[t], content))
BY TypeParts DEF ClientInv, HoldInv, TextInv

\* Nothing is asked of what a thread at s holds.
Plain == {"fetchAdd", "load", "done", "failed", "undefined"}
           \cup (IF Sink = "pull" THEN {"invalid"} ELSE {})

\* Such a thread holds what it should.
LEMMA PlainHolds ==
  ASSUME NEW t \in Threads, NEW s \in Plain, NEW v, NEW c
  PROVE  HoldsRight(t, s, v) /\ s \in PCs /\ TextRight(t, s, v, c)
<1>1. s \notin InFull[Stage(t)]
  BY ThreadFacts DEF InFull, Plain
<1>2. HoldsRight(t, s, v) /\ s \in PCs
  BY <1>1, ThreadFacts DEF HoldsRight, Plain, InEmpty, OutFull, OutEmpty, PCs
<1> QED BY <1>1, <1>2 DEF TextRight, Plain

\* Counters, files and rows keep their types if nothing touches them.
LEMMA RestSame ==
  ASSUME ClientInv, UNCHANGED <<finished, inFlight, dropped, written, files>>
  PROVE  RestTypes'
BY TypeParts DEF ClientInv, RestTypes

\* Buffers that are left alone.
LEMMA ContentSame ==
  ASSUME ClientInv, NEW t \in Threads, content' = content
  PROVE  ContentStep(t)
BY StepFacts DEF ContentStep

\* Variables of a thread that do not concern buffers.
LEMMA HeldSame ==
  ASSUME ClientInv, NEW t \in Threads, NEW v \in LocType, loc' = [loc EXCEPT ![t] = v],
         v.in = loc[t].in, v.out = loc[t].out
  PROVE  Held' = Held
<1>1. loc \in [Threads -> LocType]
  BY StepFacts
<1>2. /\ DOMAIN Held' = DOMAIN Held
      /\ \A s \in DOMAIN Held : Held'[s] = Held[s]
  BY <1>1, HeldUpdate
<1>3. Held = [s \in DOMAIN Held |-> Held[s]] /\ Held' = [s \in DOMAIN Held' |-> Held'[s]]
  BY DEF Held
<1> QED BY <1>2, <1>3

\* A step that leaves the queues alone and, of the variables, in and out.
LEMMA LocalStep ==
  ASSUME ClientInv, NEW t \in Threads, NEW s, NEW v, ThreadStep(t, s, v), queue' = queue,
         v.in = loc[t].in, v.out = loc[t].out, ContentStep(t),
         HoldsRight(t, s, v), TextFits => TextRight(t, s, v, content'), RestTypes'
  PROVE  ClientInv'
<1>1. QueueTypes /\ PlaceInv
  BY StepFacts
<1>2. Held' = Held
  BY HeldSame DEF ThreadStep
<1>3. PlaceInv' /\ QueueTypes'
  BY <1>1, <1>2 DEF PlaceInv, QueueTypes, TextFits
<1>4. QueueMoves("decomp") /\ QueueMoves("ser")
  BY DEF QueueMoves
<1> QED BY <1>3, <1>4, Combine

\* A step that leaves variables, queues and buffers alone.
LEMMA QuietStep ==
  ASSUME ClientInv, NEW t \in Threads, NEW s \in PCs, Goto(t, s), UNCHANGED <<loc, queue, content>>,
         HoldsRight(t, s, loc[t]), TextFits => TextRight(t, s, loc[t], content), RestTypes'
  PROVE  ClientInv'
<1>1. loc \in [Threads -> LocType] /\ loc[t] \in LocType
  BY StepFacts
<1>2. ThreadStep(t, s, loc[t])
  BY <1>1 DEF ThreadStep, Goto
<1>3. ContentStep(t) /\ (TextFits => TextRight(t, s, loc[t], content'))
  BY ContentSame
<1> QED BY <1>2, <1>3, LocalStep

\* What v has in common with w, but for the fields named.
SameBuffers(v, w) == v.in = w.in /\ v.out = w.out /\ v.tgt = w.tgt

\* The variables of a thread with new values for one of them.
LEMMA LocUpdate ==
  ASSUME NEW w \in LocType
  PROVE  /\ \A n \in Nat :
              LET v == [w EXCEPT !.left = n]
              IN  v \in LocType /\ SameBuffers(v, w) /\ v.off = w.off /\ v.left = n
         /\ \A n \in Nat :
              LET v == [w EXCEPT !.off = n]
              IN  v \in LocType /\ SameBuffers(v, w) /\ v.off = n /\ v.left = w.left
         /\ \A n \in Nat :
              LET v == [w EXCEPT !.suffix = n]
              IN  v \in LocType /\ SameBuffers(v, w) /\ v.off = w.off /\ v.left = w.left
         /\ \A b \in Buffers \cup {NoBuffer} :
              LET v == [w EXCEPT !.in = b]
              IN  /\ v \in LocType /\ v.in = b /\ v.out = w.out /\ v.tgt = w.tgt
                  /\ v.off = w.off /\ v.left = w.left
         /\ \A b \in Buffers \cup {NoBuffer} :
              LET v == [w EXCEPT !.out = b]
              IN  /\ v \in LocType /\ v.in = w.in /\ v.out = b /\ v.tgt = w.tgt
                  /\ v.off = w.off /\ v.left = w.left
         /\ \A b \in Buffers \cup {NoBuffer} :
              LET v == [w EXCEPT !.tgt = b]
              IN  /\ v \in LocType /\ v.in = w.in /\ v.out = w.out /\ v.tgt = b
                  /\ v.off = w.off /\ v.left = w.left
BY DEF LocType, SameBuffers

\* A pop takes the head of one queue.
LEMMA TakeMoves ==
  ASSUME QueueTypes, NEW name \in QueueNames, Take(name)
  PROVE  QueueMoves("decomp") /\ QueueMoves("ser")
<1>1. name \in DOMAIN queue
  BY DEF QueueTypes
<1> QED BY <1>1 DEF Take, QueueMoves

\* A push adds to one queue.
LEMMA PutMoves ==
  ASSUME QueueTypes, NEW name \in QueueNames, NEW b \in Buffers \cup {Sentinel}, Put(name, b),
         name \in {"decomp", "ser"} /\ TextFits /\ b \in Buffers => Whole(content'[b])
  PROVE  QueueMoves("decomp") /\ QueueMoves("ser")
<1>1. name \in DOMAIN queue
  BY DEF QueueTypes
<1>2. \A n \in QueueNames : queue'[n] = IF n = name THEN Append(queue[n], b) ELSE queue[n]
  BY <1>1 DEF Put, QueueTypes
<1>3. ASSUME NEW n \in {"decomp", "ser"} PROVE QueueMoves(n)
  <2>1. CASE n = name
    BY <1>2, <2>1 DEF QueueMoves
  <2>2. CASE n # name
    <3>1. n \in QueueNames
      BY DEF QueueNames
    <3> QED BY <1>2, <2>2, <3>1 DEF QueueMoves
  <2> QED BY <2>1, <2>2
<1> QED BY <1>3

\* fetch_add, the second look at the counter, and the sentinels.
LEMMA FinishStep ==
  ASSUME ClientInv, NEW t \in Threads, Stage(t) \in {"rcv", "decomp", "ser"}, Finish(t)
  PROVE  ClientInv'
<1>0. /\ loc \in [Threads -> LocType] /\ loc[t] \in LocType /\ QueueTypes /\ PlaceInv /\ RestTypes
      /\ HoldsRight(t, pc[t], loc[t])
  BY StepFacts
<1>1. CASE FetchAdd(t)
  <2>1. Goto(t, "load") /\ UNCHANGED <<loc, queue, content>>
    BY <1>1 DEF FetchAdd
  <2>2. "load" \in PCs /\ HoldsRight(t, "load", loc[t]) /\ TextRight(t, "load", loc[t], content)
    BY PlainHolds DEF Plain
  <2>3. RestTypes'
    BY <1>0, <1>1 DEF FetchAdd, RestTypes
  <2> QED BY <2>1, <2>2, <2>3, QuietStep
<1>2. CASE LoadFinished(t) /\ finished[Stage(t)] # Parallelism[Stage(t)]
  <2>1. /\ Goto(t, "done") /\ UNCHANGED <<loc, queue, content>>
        /\ UNCHANGED <<finished, inFlight, dropped, written, files>>
    BY <1>2 DEF LoadFinished
  <2>2. "done" \in PCs /\ HoldsRight(t, "done", loc[t]) /\ TextRight(t, "done", loc[t], content)
    BY PlainHolds DEF Plain
  <2> QED BY <2>1, <2>2, RestSame, QuietStep
<1>3. CASE LoadFinished(t) /\ finished[Stage(t)] = Parallelism[Stage(t)]
  <2> DEFINE v == [loc[t] EXCEPT !.left = Parallelism[NextStage[Stage(t)]]]
  <2>1. /\ pc' = [pc EXCEPT ![t] = "signal"] /\ loc' = [loc EXCEPT ![t] = v]
        /\ queue' = queue /\ content' = content /\ UNCHANGED <<finished, inFlight, dropped, written, files>>
    BY <1>0, <1>3 DEF LoadFinished, Goto
  <2>2. v \in LocType /\ v.in = loc[t].in /\ v.out = loc[t].out /\ v.left > 0
    <3>1. Parallelism[NextStage[Stage(t)]] \in Nat \ {0}
      BY ThreadFacts
    <3> QED BY <1>0, <3>1, LocUpdate DEF SameBuffers
  <2> HIDE DEF v
  <2>3. ThreadStep(t, "signal", v)
    BY <2>1, <2>2 DEF ThreadStep, PCs
  <2>4. "signal" \notin InFull[Stage(t)]
    BY ThreadFacts DEF InFull
  <2>5. HoldsRight(t, "signal", v) /\ TextRight(t, "signal", v, content')
    BY <2>2, <2>4, ThreadFacts DEF HoldsRight, InEmpty, OutFull, OutEmpty, TextRight
  <2> QED BY <2>1, <2>2, <2>3, <2>5, RestSame, ContentSame, LocalStep
<1>4. CASE PushSentinel(t)
  <2> DEFINE v == [loc[t] EXCEPT !.left = @ - 1]
             s == IF loc[t].left = 1 THEN "done" ELSE "signal"
             next == NextStage[Stage(t)]
  <2>1. /\ pc' = [pc EXCEPT ![t] = s] /\ loc' = [loc EXCEPT ![t] = v] /\ Put(next, Sentinel)
        /\ content' = content /\ UNCHANGED <<finished, inFlight, dropped, written, files>>
        /\ pc[t] = "signal"
    BY <1>0, <1>4 DEF PushSentinel, Goto
  <2>2. loc[t].left \in Nat /\ loc[t].left > 0
    BY <1>0, <2>1 DEF LocType, HoldsRight
  <2>3. v \in LocType /\ v.in = loc[t].in /\ v.out = loc[t].out /\ v.left = loc[t].left - 1
    <3>1. loc[t].left - 1 \in Nat
      BY <2>2
    <3> QED BY <1>0, <3>1, LocUpdate DEF SameBuffers
  <2>4. s \in {"done", "signal"} /\ (s = "signal" => v.left > 0)
    BY <2>2, <2>3
  <2>5. next \in QueueNames /\ next # "free"
    BY ThreadFacts DEF QueueNames
  <2> HIDE DEF v, s, next
  <2>6. ThreadStep(t, s, v)
    BY <2>1, <2>3, <2>4 DEF ThreadStep, PCs
  <2>7. s \notin InFull[Stage(t)]
    BY <2>4, ThreadFacts DEF InFull
  <2>8. HoldsRight(t, s, v) /\ TextRight(t, s, v, content')
    BY <2>4, <2>7, ThreadFacts DEF HoldsRight, InEmpty, OutFull, OutEmpty, TextRight
  <2>9. Held' = Held
    BY <2>1, <2>3, HeldSame
  <2>10. PlaceInv' /\ QueueTypes'
    BY <1>0, <2>1, <2>5, <2>9, PutStopKeeps
  <2>11. QueueMoves("decomp") /\ QueueMoves("ser")
    <3>1. Sentinel \in Buffers \cup {Sentinel} /\ Sentinel \notin Buffers
      BY BufferFacts
    <3> QED BY <1>0, <2>1, <2>5, <3>1, PutMoves
  <2>12. RestTypes' /\ ContentStep(t)
    BY <2>1, RestSame, ContentSame
  <2> QED BY <2>6, <2>8, <2>10, <2>11, <2>12, Combine
<1> QED BY <1>1, <1>2, <1>3, <1>4 DEF Finish, LoadFinished

-----------------------------------------------------------------------------
\* A pop into the variable in of a thread.
LEMMA TakeIn ==
  ASSUME ClientInv, NEW t \in Threads, NEW v \in LocType, loc' = [loc EXCEPT ![t] = v],
         NEW name \in QueueNames, Take(name), loc[t].in = NoBuffer, v.out = loc[t].out,
         v.in = Front(name) \/ (Front(name) = Sentinel /\ v.in = NoBuffer)
  PROVE  PlaceInv' /\ QueueTypes'
<1>1. loc \in [Threads -> LocType] /\ QueueTypes /\ PlaceInv
  BY StepFacts
<1>2. Assigned(Held, <<t, "in">>, v.in, Held') /\ Held[<<t, "in">>] = NoBuffer
  BY <1>1, HeldUpdate DEF Assigned
<1> QED BY <1>1, <1>2, TakeKeeps

\* A pop from the free queue into the variable out of a thread.
LEMMA TakeOut ==
  ASSUME ClientInv, NEW t \in Threads, NEW v \in LocType, loc' = [loc EXCEPT ![t] = v],
         Take("free"), TextFits => loc[t].out = NoBuffer, v.in = loc[t].in, v.out = Front("free")
  PROVE  PlaceInv' /\ QueueTypes'
<1>1. loc \in [Threads -> LocType] /\ QueueTypes /\ PlaceInv
  BY StepFacts
<1>2. Assigned(Held, <<t, "out">>, v.out, Held') /\ (TextFits => Held[<<t, "out">>] = NoBuffer)
  BY <1>1, HeldUpdate DEF Assigned
<1> QED BY <1>1, <1>2, TakeKeeps DEF QueueNames

\* A push of what a thread has in its variable in.
LEMMA PutIn ==
  ASSUME ClientInv, NEW t \in Threads, NEW v \in LocType, loc' = [loc EXCEPT ![t] = v],
         NEW name \in QueueNames, loc[t].in \in Buffers, Put(name, loc[t].in),
         v.in = NoBuffer, v.out = loc[t].out
  PROVE  PlaceInv' /\ QueueTypes'
<1>1. loc \in [Threads -> LocType] /\ QueueTypes /\ PlaceInv
  BY StepFacts
<1>2. Assigned(Held, <<t, "in">>, NoBuffer, Held') /\ Held[<<t, "in">>] = loc[t].in
  BY <1>1, HeldUpdate DEF Assigned
<1> QED BY <1>1, <1>2, PutKeeps

\* A push of what a thread has in its variable out.
LEMMA PutOut ==
  ASSUME ClientInv, NEW t \in Threads, NEW v \in LocType, loc' = [loc EXCEPT ![t] = v],
         NEW name \in QueueNames, loc[t].out \in Buffers, Put(name, loc[t].out),
         v.in = loc[t].in, v.out = NoBuffer
  PROVE  PlaceInv' /\ QueueTypes'
<1>1. loc \in [Threads -> LocType] /\ QueueTypes /\ PlaceInv
  BY StepFacts
<1>2. Assigned(Held, <<t, "out">>, NoBuffer, Held') /\ Held[<<t, "out">>] = loc[t].out
  BY <1>1, HeldUpdate DEF Assigned
<1> QED BY <1>1, <1>2, PutKeeps

\* What is at the head of a queue.
LEMMA FrontType ==
  ASSUME ClientInv, NEW name \in QueueNames, Take(name)
  PROVE  /\ Front(name) \in Buffers \cup {Sentinel}
         /\ name = "free" => Front(name) \in Buffers
         /\ name \in {"decomp", "ser"} /\ TextFits /\ Front(name) \in Buffers => Whole(content[Front(name)])
<1>1. QueueTypes
  BY TypeParts DEF ClientInv
<1>2. queue[name] \in Seq(Buffers \cup {Sentinel}) /\ queue[name] # <<>>
      /\ queue["free"] = queue.free /\ queue["free"] \in Seq(Buffers)
  BY <1>1, QueueElements DEF Take
<1>3. Front(name) \in Buffers \cup {Sentinel} /\ Front(name) = queue[name][1] /\ 1 \in 1..Len(queue[name])
  BY <1>2, TailElements DEF Front
<1>4. ASSUME name = "free" PROVE Front(name) \in Buffers
  BY <1>2, <1>4, TailElements DEF Front
<1>5. ASSUME name \in {"decomp", "ser"}, TextFits, Front(name) \in Buffers PROVE Whole(content[Front(name)])
  BY <1>3, <1>5 DEF ClientInv, TextInv, AllWhole
<1> QED BY <1>3, <1>4, <1>5

-----------------------------------------------------------------------------
\* The variables of a thread that has taken a free buffer.
Taken(t) == [[loc[t] EXCEPT !.out = Front("free")] EXCEPT !.tgt = Front("free")]

\* They are what they should be.
LEMMA FreeTaken ==
  ASSUME ClientInv, NEW t \in Threads, Take("free")
  PROVE  /\ Taken(t) \in LocType /\ Taken(t).in = loc[t].in /\ Taken(t).off = loc[t].off
         /\ Taken(t).out = Front("free") /\ Taken(t).tgt = Front("free") /\ Taken(t).out \in Buffers
<1>1. Front("free") \in Buffers
  BY FrontType DEF QueueNames
<1> DEFINE w == [loc[t] EXCEPT !.out = Front("free")]
<1>2. w \in LocType /\ w.in = loc[t].in /\ w.off = loc[t].off /\ w.out = Front("free")
  BY <1>1, StepFacts, LocUpdate
<1>3. Taken(t) = [w EXCEPT !.tgt = Front("free")]
  BY DEF Taken
<1> HIDE DEF w
<1> QED BY <1>1, <1>2, <1>3, LocUpdate

\* A free buffer is taken.
LEMMA PopFreeStep ==
  ASSUME ClientInv, NEW t \in Threads, NEW from, NEW to \in PCs, PopFree(t, from, to),
         TextFits => loc[t].out = NoBuffer, HoldsRight(t, to, Taken(t)),
         TextFits => TextRight(t, to, Taken(t), content)
  PROVE  ClientInv'
<1>1. /\ pc' = [pc EXCEPT ![t] = to] /\ Take("free")
      /\ content' = content /\ UNCHANGED <<finished, inFlight, dropped, written, files>>
  BY DEF PopFree, Goto
<1>2. loc' = [loc EXCEPT ![t] = Taken(t)]
  BY StepFacts DEF PopFree, Taken
<1>3. Taken(t) \in LocType /\ Taken(t).in = loc[t].in /\ Taken(t).out = Front("free")
  BY <1>1, FreeTaken
<1>4. ThreadStep(t, to, Taken(t))
  BY <1>1, <1>2, <1>3 DEF ThreadStep
<1>5. PlaceInv' /\ QueueTypes'
  BY <1>1, <1>2, <1>3, TakeOut
<1>6. QueueMoves("decomp") /\ QueueMoves("ser")
  BY <1>1, StepFacts, TakeMoves DEF QueueNames
<1>7. RestTypes' /\ ContentStep(t) /\ (TextFits => TextRight(t, to, Taken(t), content'))
  BY <1>1, RestSame, ContentSame
<1> QED BY <1>4, <1>5, <1>6, <1>7, Combine

\* The buffer written is handed on.
LEMMA PushOutStep ==
  ASSUME ClientInv, NEW t \in Threads, Stage(t) \in {"rcv", "decomp", "ser"},
         NEW from, NEW to \in PCs, PushOut(t, from, to), loc[t].out \in Buffers,
         Stage(t) # "ser" /\ TextFits => Whole(content[loc[t].out]),
         NEW v, v = [loc[t] EXCEPT !.out = NoBuffer], HoldsRight(t, to, v),
         TextFits => TextRight(t, to, v, content)
  PROVE  ClientInv'
<1> DEFINE next == NextStage[Stage(t)]
<1>1. /\ pc' = [pc EXCEPT ![t] = to] /\ loc' = [loc EXCEPT ![t] = v] /\ Put(next, loc[t].out)
      /\ content' = content /\ UNCHANGED <<finished, inFlight, dropped, written, files>>
  BY StepFacts DEF PushOut, Goto
<1>2. v \in LocType /\ v.in = loc[t].in /\ v.out = NoBuffer
  <2>1. loc[t] \in LocType /\ NoBuffer \in Buffers \cup {NoBuffer}
    BY StepFacts
  <2> QED BY <2>1, LocUpdate
<1>3. next \in QueueNames /\ (next \in {"decomp", "ser"} => Stage(t) # "ser")
  BY ThreadFacts DEF QueueNames, NextStage
<1> HIDE DEF next
<1>4. ThreadStep(t, to, v)
  BY <1>1, <1>2 DEF ThreadStep
<1>5. PlaceInv' /\ QueueTypes'
  BY <1>1, <1>2, <1>3, PutOut
<1>6. QueueMoves("decomp") /\ QueueMoves("ser")
  <2>1. loc[t].out \in Buffers \cup {Sentinel} /\ QueueTypes
    BY StepFacts
  <2> QED BY <1>1, <1>3, <2>1, PutMoves
<1>7. RestTypes' /\ ContentStep(t) /\ (TextFits => TextRight(t, to, v, content'))
  BY <1>1, RestSame, ContentSame
<1> QED BY <1>4, <1>5, <1>6, <1>7, Combine

\* A buffer is passed on unchanged.
LEMMA ForwardStep ==
  ASSUME ClientInv, NEW t \in Threads, Stage(t) \in {"decomp", "ser"}, Forward(t)
  PROVE  ClientInv'
<1> DEFINE next == NextStage[Stage(t)]
           v == [loc[t] EXCEPT !.in = NoBuffer]
<1>1. /\ pc' = [pc EXCEPT ![t] = "pop"] /\ loc' = [loc EXCEPT ![t] = v] /\ Put(next, loc[t].in)
      /\ content' = content /\ UNCHANGED <<finished, inFlight, dropped, written, files>>
      /\ pc[t] = "forward"
  BY StepFacts DEF Forward, Goto
<1>2. v \in LocType /\ v.in = NoBuffer /\ v.out = loc[t].out
  <2>1. loc[t] \in LocType /\ NoBuffer \in Buffers \cup {NoBuffer}
    BY StepFacts
  <2> QED BY <2>1, LocUpdate
<1>3. next \in QueueNames
  BY ThreadFacts DEF QueueNames
<1>4. HoldsRight(t, pc[t], loc[t]) /\ (TextFits => TextRight(t, pc[t], loc[t], content)) /\ QueueTypes
  BY StepFacts
<1>5. loc[t].in \in Buffers /\ (TextFits => Whole(content[loc[t].in]))
  BY <1>1, <1>4 DEF HoldsRight, InFull, TextRight
<1> HIDE DEF next, v
<1>6. ThreadStep(t, "pop", v)
  BY <1>1, <1>2 DEF ThreadStep, PCs
<1>7. PlaceInv' /\ QueueTypes'
  BY <1>1, <1>2, <1>3, <1>5, PutIn
<1>8. QueueMoves("decomp") /\ QueueMoves("ser")
  <2>1. loc[t].in \in Buffers \cup {Sentinel}
    BY <1>5
  <2> QED BY <1>1, <1>3, <1>4, <1>5, <2>1, PutMoves
<1>9. RestTypes' /\ ContentStep(t)
  BY <1>1, RestSame, ContentSame
<1>10. HoldsRight(t, "pop", v)
  BY <1>1, <1>2, <1>4 DEF HoldsRight, InFull, InEmpty, OutFull, OutEmpty
<1>11. TextRight(t, "pop", v, content')
  BY DEF TextRight, InFull
<1> QED BY <1>6, <1>7, <1>8, <1>9, <1>10, <1>11, Combine

\* The buffer read returns to the free queue.
LEMMA ReleaseInStep ==
  ASSUME ClientInv, NEW t \in Threads, NEW from, NEW to \in PCs, ReleaseIn(t, from, to),
         loc[t].in \in Buffers, NEW v, v = [loc[t] EXCEPT !.in = NoBuffer], HoldsRight(t, to, v),
         TextFits => TextRight(t, to, v, content)
  PROVE  ClientInv'
<1>1. /\ pc' = [pc EXCEPT ![t] = to] /\ loc' = [loc EXCEPT ![t] = v] /\ Put("free", loc[t].in)
      /\ content' = content /\ UNCHANGED <<finished, inFlight, dropped, written, files>>
  BY StepFacts DEF ReleaseIn, Goto
<1>2. v \in LocType /\ v.in = NoBuffer /\ v.out = loc[t].out
  <2>1. loc[t] \in LocType /\ NoBuffer \in Buffers \cup {NoBuffer}
    BY StepFacts
  <2> QED BY <2>1, LocUpdate
<1>3. "free" \in QueueNames
  BY DEF QueueNames
<1>4. ThreadStep(t, to, v)
  BY <1>1, <1>2 DEF ThreadStep
<1>5. PlaceInv' /\ QueueTypes'
  BY <1>1, <1>2, <1>3, PutIn
<1>6. QueueMoves("decomp") /\ QueueMoves("ser")
  <2>1. loc[t].in \in Buffers \cup {Sentinel} /\ QueueTypes
    BY StepFacts
  <2> QED BY <1>1, <1>3, <2>1, PutMoves
<1>7. RestTypes' /\ ContentStep(t) /\ (TextFits => TextRight(t, to, v, content'))
  BY <1>1, RestSame, ContentSame
<1> QED BY <1>4, <1>5, <1>6, <1>7, Combine

\* The variables of a thread that has popped a buffer.
PoppedIn(t) == [[loc[t] EXCEPT !.in = Front(From(t))] EXCEPT !.off = 0]

\* A buffer or a sentinel is popped.
LEMMA PopInStep ==
  ASSUME ClientInv, NEW t \in Threads, Stage(t) # "rcv", NEW to \in SUBSET PCs, NEW end \in Plain,
         PopIn(t, to, end),
         \A v \in LocType : \A s \in to :
           /\ v.in \in Buffers /\ v.off = 0 /\ (Stage(t) = "write" \/ (TextFits => Whole(content[v.in])))
           /\ v.out = loc[t].out
           => HoldsRight(t, s, v) /\ (TextFits => TextRight(t, s, v, content))
  PROVE  ClientInv'
<1> DEFINE name == From(t)
           v == PoppedIn(t)
<1>0. /\ loc[t] \in LocType /\ loc \in [Threads -> LocType] /\ QueueTypes /\ PlaceInv
      /\ HoldsRight(t, pc[t], loc[t])
  BY StepFacts
<1>1. /\ pc[t] = "pop" /\ Take(name) /\ content' = content
      /\ UNCHANGED <<finished, inFlight, dropped, written, files>>
  BY DEF PopIn
<1>2. name \in QueueNames /\ (Stage(t) # "write" => name \in {"decomp", "ser"})
  BY ThreadFacts DEF QueueNames, From
<1>3. loc[t].in = NoBuffer
  BY <1>0, <1>1, ThreadFacts DEF HoldsRight, InEmpty
<1>4. RestTypes' /\ ContentStep(t) /\ QueueMoves("decomp") /\ QueueMoves("ser")
  BY <1>0, <1>1, <1>2, RestSame, ContentSame, TakeMoves
<1>5. CASE Front(name) = Sentinel
  <2>1. pc' = [pc EXCEPT ![t] = end] /\ loc' = loc
    BY <1>5 DEF PopIn, Goto
  <2>2. Held' = Held
    BY <2>1 DEF Held, ThreadSlots
  <2>3. PlaceInv' /\ QueueTypes'
    BY <1>0, <1>1, <1>2, <1>5, <2>2, TakeStopKeeps
  <2>4. HoldsRight(t, end, loc[t]) /\ end \in PCs /\ TextRight(t, end, loc[t], content')
    BY PlainHolds
  <2>5. ThreadStep(t, end, loc[t])
    BY <1>0, <2>1, <2>4 DEF ThreadStep
  <2> QED BY <1>4, <2>3, <2>4, <2>5, Combine
<1>6. CASE Front(name) # Sentinel
  <2>1. PICK s \in to : pc' = [pc EXCEPT ![t] = s]
    BY <1>6 DEF PopIn, Goto
  <2>2. loc' = [loc EXCEPT ![t] = v]
    BY <1>0, <1>6 DEF PopIn, PoppedIn
  <2>3. Front(name) \in Buffers /\ (Stage(t) # "write" /\ TextFits => Whole(content[Front(name)]))
    BY <1>1, <1>2, <1>6, FrontType
  <2>4. v \in LocType /\ v.in = Front(name) /\ v.out = loc[t].out /\ v.off = 0
    <3> DEFINE w == [loc[t] EXCEPT !.in = Front(name)]
    <3>1. w \in LocType /\ w.in = Front(name) /\ w.out = loc[t].out
      BY <1>0, <2>3, LocUpdate
    <3>2. v = [w EXCEPT !.off = 0]
      BY DEF PoppedIn
    <3> HIDE DEF w, v
    <3> QED BY <3>1, <3>2, LocUpdate DEF SameBuffers
  <2> HIDE DEF v, name
  <2>5. PlaceInv' /\ QueueTypes'
    BY <1>1, <1>2, <1>3, <2>2, <2>4, TakeIn
  <2>6. ThreadStep(t, s, v)
    BY <2>1, <2>2, <2>4 DEF ThreadStep
  <2>7. v.in \in Buffers /\ (Stage(t) = "write" \/ (TextFits => Whole(content[v.in])))
    BY <2>3, <2>4
  <2>8. HoldsRight(t, s, v) /\ (TextFits => TextRight(t, s, v, content))
    BY <2>4, <2>7
  <2>9. TextFits => TextRight(t, s, v, content')
    BY <1>1, <2>8
  <2> QED BY <1>4, <2>5, <2>6, <2>8, <2>9, Combine
<1> QED BY <1>5, <1>6

-----------------------------------------------------------------------------
(* Receivers. *)

\* The rows of a message are rows of the table.
LEMMA MessageRows ==
  ASSUME NEW m \in 1..IncomingBuffers
  PROVE  Whole(Message(m))
<1>1. IncomingBuffers \in Nat /\ RowsPerBuffer \in Nat /\ m \in Nat /\ m - 1 \in Nat
  BY SizesAssumption
<1>2. (m - 1) * RowsPerBuffer \in Nat /\ IncomingBuffers * RowsPerBuffer \in Nat
  BY <1>1, ProductNat
<1>3. (m - 1) * RowsPerBuffer + RowsPerBuffer <= IncomingBuffers * RowsPerBuffer
  <2>1. \A a, b, k \in Nat : a <= b /\ a >= 1 => (a - 1) * k + k <= b * k
    BY Z3
  <2> QED BY <1>1, <2>1
<1>4. \A i \in 1..RowsPerBuffer : (m - 1) * RowsPerBuffer + i \in Rows
  BY <1>1, <1>2, <1>3 DEF Rows
<1> DEFINE f == [i \in 1..RowsPerBuffer |-> (m - 1) * RowsPerBuffer + i]
<1>5. f \in [1..RowsPerBuffer -> Rows]
  BY <1>4
<1>6. Message(m) = f
  BY DEF Message
<1> HIDE DEF f
<1>7. f \in Seq(Rows) /\ Len(f) = RowsPerBuffer
  BY <1>1, <1>5
<1> QED BY <1>6, <1>7 DEF Whole

\* The next message, as long as there is one.
LEMMA NextMessageRows ==
  ASSUME ClientInv, inFlight > 0
  PROVE  Whole(NextMessage)
<1>1. inFlight \in 0..IncomingBuffers /\ IncomingBuffers \in Nat
  BY SizesAssumption DEF ClientInv, TypeOK
<1>2. IncomingBuffers - inFlight + 1 \in 1..IncomingBuffers
  BY <1>1
<1> QED BY <1>2, MessageRows DEF NextMessage

\* The buffer a thread writes into gets other rows.
LEMMA WriteOut ==
  ASSUME ClientInv, NEW t \in Threads, loc[t].out \in Buffers,
         NEW rows \in Seq(Rows \cup {Placeholder}), Sink = "csv" => rows \in Seq(Rows),
         content' = [content EXCEPT ![loc[t].out] = rows]
  PROVE  ContentStep(t) /\ content'[loc[t].out] = rows
BY StepFacts DEF ContentStep, Contents

\* Whole rows are rows.
LEMMA WholeTypes ==
  ASSUME NEW rows, Whole(rows)
  PROVE  rows \in Seq(Rows) /\ rows \in Seq(Rows \cup {Placeholder})
BY DEF Whole

\* XClient::receive.
LEMMA ReceiveStep ==
  ASSUME ClientInv, NEW r \in Threads, Stage(r) = "rcv", Receive(r)
  PROVE  ClientInv'
<1>0. /\ loc \in [Threads -> LocType] /\ loc[r] \in LocType /\ content \in Contents /\ RestTypes
      /\ HoldsRight(r, pc[r], loc[r]) /\ (TextFits => TextRight(r, pc[r], loc[r], content))
  BY StepFacts
<1>1. CASE Connect(r)
  <2>1. Goto(r, "popFree") /\ UNCHANGED <<loc, queue, content>> /\ pc[r] = "connect"
        /\ UNCHANGED <<finished, inFlight, dropped, written, files>>
    BY <1>1 DEF Connect
  <2>2. HoldsRight(r, "popFree", loc[r]) /\ TextRight(r, "popFree", loc[r], content) /\ "popFree" \in PCs
    BY <1>0, <2>1 DEF HoldsRight, InFull, InEmpty, OutFull, OutEmpty, TextRight, PCs
  <2> QED BY <2>1, <2>2, RestSame, QuietStep
<1>2. CASE ConnectFails(r)
  <2>1. Goto(r, "failed") /\ UNCHANGED <<loc, queue, content>>
        /\ UNCHANGED <<finished, inFlight, dropped, written, files>>
    BY <1>2 DEF ConnectFails
  <2>2. HoldsRight(r, "failed", loc[r]) /\ TextRight(r, "failed", loc[r], content) /\ "failed" \in PCs
    BY PlainHolds DEF Plain
  <2> QED BY <2>1, <2>2, RestSame, QuietStep
<1>3. CASE PopFree(r, "popFree", "read")
  <2>1. pc[r] = "popFree" /\ Take("free")
    BY <1>3 DEF PopFree
  <2>2. loc[r].out = NoBuffer
    BY <1>0, <2>1 DEF HoldsRight, OutEmpty
  <2>3. Taken(r).out \in Buffers
    BY <2>1, FreeTaken
  <2>4. HoldsRight(r, "read", Taken(r)) /\ TextRight(r, "read", Taken(r), content) /\ "read" \in PCs
    BY <2>3 DEF HoldsRight, InFull, InEmpty, OutFull, OutEmpty, TextRight, PCs
  <2> QED BY <1>3, <2>2, <2>4, PopFreeStep
<1>4. CASE ReadBuffer(r)
  <2>1. /\ pc[r] = "read" /\ inFlight > 0 /\ inFlight' = inFlight - 1 /\ loc' = loc /\ queue' = queue
        /\ content' = [content EXCEPT ![loc[r].out] = NextMessage] /\ pc' = [pc EXCEPT ![r] = "push"]
        /\ UNCHANGED <<finished, dropped, written, files>>
    BY <1>4 DEF ReadBuffer, Goto
  <2>2. loc[r].out \in Buffers
    BY <1>0, <2>1 DEF HoldsRight, OutFull
  <2>3. Whole(NextMessage)
    BY <2>1, NextMessageRows
  <2>4. ContentStep(r) /\ content'[loc[r].out] = NextMessage
    BY <2>1, <2>2, <2>3, WholeTypes, WriteOut
  <2>5. ThreadStep(r, "push", loc[r])
    BY <1>0, <2>1 DEF ThreadStep, PCs
  <2>6. HoldsRight(r, "push", loc[r]) /\ TextRight(r, "push", loc[r], content')
    BY <2>2, <2>3, <2>4 DEF HoldsRight, InFull, InEmpty, OutFull, OutEmpty, TextRight
  <2>7. inFlight' \in 0..IncomingBuffers
    BY <1>0, <2>1, SizesAssumption DEF RestTypes
  <2>8. RestTypes'
    BY <1>0, <2>1, <2>7 DEF RestTypes
  <2> QED BY <2>1, <2>4, <2>5, <2>6, <2>8, LocalStep
<1>5. CASE EndOfFile(r)
  <2>1. Goto(r, "fetchAdd") /\ UNCHANGED <<loc, queue, content>>
        /\ UNCHANGED <<finished, inFlight, dropped, written, files>>
    BY <1>5 DEF EndOfFile
  <2>2. HoldsRight(r, "fetchAdd", loc[r]) /\ TextRight(r, "fetchAdd", loc[r], content) /\ "fetchAdd" \in PCs
    BY PlainHolds DEF Plain
  <2> QED BY <2>1, <2>2, RestSame, QuietStep
<1>6. CASE ReadFails(r)
  <2>1. Goto(r, "fetchAdd") /\ UNCHANGED <<loc, queue, content>> /\ UNCHANGED <<finished, written, files>>
    BY <1>6 DEF ReadFails
  <2>2. HoldsRight(r, "fetchAdd", loc[r]) /\ TextRight(r, "fetchAdd", loc[r], content) /\ "fetchAdd" \in PCs
    BY PlainHolds DEF Plain
  <2>3. \/ UNCHANGED <<inFlight, dropped>>
        \/ inFlight > 0 /\ inFlight' = inFlight - 1 /\ dropped' = dropped \cup RowsOf(NextMessage)
    BY <1>6 DEF ReadFails
  <2>4. inFlight > 0 => RowsOf(NextMessage) \subseteq Rows
    BY NextMessageRows DEF Whole, RowsOf
  <2>5. inFlight' \in 0..IncomingBuffers
    BY <1>0, <2>3, SizesAssumption DEF RestTypes
  <2>6. dropped' \subseteq Rows
    BY <1>0, <2>3, <2>4 DEF RestTypes
  <2>7. RestTypes'
    BY <1>0, <2>1, <2>5, <2>6 DEF RestTypes
  <2> QED BY <2>1, <2>2, <2>7, QuietStep
<1>7. CASE PushOut(r, "push", "popFree")
  <2> DEFINE v == [loc[r] EXCEPT !.out = NoBuffer]
  <2>1. pc[r] = "push"
    BY <1>7 DEF PushOut
  <2>2. loc[r].out \in Buffers /\ (TextFits => Whole(content[loc[r].out]))
    BY <1>0, <2>1 DEF HoldsRight, OutFull, TextRight
  <2>3. v.out = NoBuffer
    BY <1>0, LocUpdate
  <2> HIDE DEF v
  <2>4. HoldsRight(r, "popFree", v) /\ TextRight(r, "popFree", v, content) /\ "popFree" \in PCs
    BY <2>3 DEF HoldsRight, InFull, InEmpty, OutFull, OutEmpty, TextRight, PCs
  <2> QED BY <1>7, <2>2, <2>4, PushOutStep DEF v
<1> QED BY <1>1, <1>2, <1>3, <1>4, <1>5, <1>6, <1>7, FinishStep DEF Receive

-----------------------------------------------------------------------------
(* Decompressors. *)

\* XClient::decompress.
LEMMA DecompressStep ==
  ASSUME ClientInv, NEW d \in Threads, Stage(d) = "decomp", Decompress(d)
  PROVE  ClientInv'
<1>0. /\ loc \in [Threads -> LocType] /\ loc[d] \in LocType /\ content \in Contents /\ RestTypes
      /\ Sink = "csv" => content \in [Buffers -> Seq(Rows)]
      /\ QueueTypes /\ PlaceInv
      /\ HoldsRight(d, pc[d], loc[d]) /\ (TextFits => TextRight(d, pc[d], loc[d], content))
  BY StepFacts
<1> DEFINE to == IF Compression THEN {"forward", "popFree"} ELSE {"forward"}
<1>1. CASE PopIn(d, to, "fetchAdd")
  <2>1. pc[d] = "pop"
    BY <1>1 DEF PopIn
  <2>2. loc[d].out = NoBuffer
    BY <1>0, <2>1 DEF HoldsRight, OutEmpty
  <2>3. to \in SUBSET PCs /\ "fetchAdd" \in Plain /\ \A s \in to : s \in {"forward", "popFree"}
    BY DEF PCs, Plain
  <2>4. ASSUME NEW v \in LocType, NEW s \in to, v.in \in Buffers, TextFits => Whole(content[v.in]),
               v.out = loc[d].out
        PROVE  HoldsRight(d, s, v) /\ (TextFits => TextRight(d, s, v, content))
    BY <2>2, <2>3, <2>4 DEF HoldsRight, InFull, InEmpty, OutFull, OutEmpty, TextRight
  <2> QED BY <1>1, <2>3, <2>4, PopInStep
<1>2. CASE PopFree(d, "popFree", "decompress")
  <2>1. pc[d] = "popFree" /\ Take("free")
    BY <1>2 DEF PopFree
  <2>2. loc[d].out = NoBuffer /\ loc[d].in \in Buffers /\ (TextFits => Whole(content[loc[d].in]))
    BY <1>0, <2>1 DEF HoldsRight, OutEmpty, InFull, TextRight
  <2>3. Taken(d).out \in Buffers /\ Taken(d).in = loc[d].in
    BY <2>1, FreeTaken
  <2>4. HoldsRight(d, "decompress", Taken(d)) /\ "decompress" \in PCs
        /\ (TextFits => TextRight(d, "decompress", Taken(d), content))
    BY <2>2, <2>3 DEF HoldsRight, InFull, InEmpty, OutFull, OutEmpty, TextRight, PCs
  <2> QED BY <1>2, <2>2, <2>4, PopFreeStep
<1>3. CASE Decode(d)
  <2>1. /\ pc[d] = "decompress" /\ loc' = loc /\ queue' = queue /\ pc' = [pc EXCEPT ![d] = "push"]
        /\ content' = [content EXCEPT ![loc[d].out] = content[loc[d].in]]
        /\ UNCHANGED <<finished, inFlight, dropped, written, files>>
    BY <1>3 DEF Decode, Goto
  <2>2. loc[d].out \in Buffers /\ loc[d].in \in Buffers /\ (TextFits => Whole(content[loc[d].in]))
    BY <1>0, <2>1 DEF HoldsRight, OutFull, InFull, TextRight
  <2>3. content[loc[d].in] \in Seq(Rows \cup {Placeholder}) /\ (Sink = "csv" => content[loc[d].in] \in Seq(Rows))
    BY <1>0, <2>2 DEF Contents
  <2>4. ContentStep(d) /\ content'[loc[d].out] = content[loc[d].in]
    BY <2>1, <2>2, <2>3, WriteOut
  <2>5. content'[loc[d].in] = content[loc[d].in]
    BY <1>0, <2>1, <2>2, HeldApart DEF Contents
  <2>6. ThreadStep(d, "push", loc[d])
    BY <1>0, <2>1 DEF ThreadStep, PCs
  <2>7. HoldsRight(d, "push", loc[d]) /\ (TextFits => TextRight(d, "push", loc[d], content'))
    BY <2>2, <2>4, <2>5 DEF HoldsRight, InFull, InEmpty, OutFull, OutEmpty, TextRight
  <2> QED BY <2>1, <2>4, <2>6, <2>7, RestSame, LocalStep
<1>4. CASE PushOut(d, "push", "release")
  <2> DEFINE v == [loc[d] EXCEPT !.out = NoBuffer]
  <2>1. pc[d] = "push"
    BY <1>4 DEF PushOut
  <2>2. loc[d].out \in Buffers /\ (TextFits => Whole(content[loc[d].out]))
        /\ loc[d].in \in Buffers /\ (TextFits => Whole(content[loc[d].in]))
    BY <1>0, <2>1 DEF HoldsRight, OutFull, InFull, TextRight
  <2>3. v.out = NoBuffer /\ v.in = loc[d].in
    BY <1>0, LocUpdate
  <2> HIDE DEF v
  <2>4. HoldsRight(d, "release", v) /\ (TextFits => TextRight(d, "release", v, content)) /\ "release" \in PCs
    BY <2>2, <2>3 DEF HoldsRight, InFull, InEmpty, OutFull, OutEmpty, TextRight, PCs
  <2> QED BY <1>4, <2>2, <2>4, PushOutStep DEF v
<1>5. CASE ReleaseIn(d, "release", "pop")
  <2> DEFINE v == [loc[d] EXCEPT !.in = NoBuffer]
  <2>1. pc[d] = "release"
    BY <1>5 DEF ReleaseIn
  <2>2. loc[d].in \in Buffers /\ loc[d].out = NoBuffer
    BY <1>0, <2>1 DEF HoldsRight, OutEmpty, InFull
  <2>3. v.in = NoBuffer /\ v.out = loc[d].out
    BY <1>0, LocUpdate
  <2> HIDE DEF v
  <2>4. HoldsRight(d, "pop", v) /\ TextRight(d, "pop", v, content) /\ "pop" \in PCs
    BY <2>2, <2>3 DEF HoldsRight, InFull, InEmpty, OutFull, OutEmpty, TextRight, PCs
  <2> QED BY <1>5, <2>2, <2>4, ReleaseInStep DEF v
<1>6. CASE DecodeFails(d)
  <2>1. /\ pc[d] = "decompress" /\ Goto(d, "dropIn") /\ UNCHANGED <<loc, queue, content>>
        /\ UNCHANGED <<finished, inFlight, written, files>>
        /\ dropped' = dropped \cup RowsOf(content[loc[d].in])
    BY <1>6 DEF DecodeFails
  <2>2. loc[d].in \in Buffers /\ loc[d].out \in Buffers /\ (TextFits => Whole(content[loc[d].in]))
    BY <1>0, <2>1 DEF HoldsRight, OutFull, InFull, TextRight
  <2>3. content[loc[d].in] \in Seq(Rows)
    <3>1. CASE Sink = "csv"
      BY <1>0, <2>2, <3>1
    <3>2. CASE Sink # "csv"
      BY <2>2, <3>2, WholeTypes DEF TextFits
    <3> QED BY <3>1, <3>2
  <2>4. RowsOf(content[loc[d].in]) \subseteq Rows
    BY <2>3 DEF RowsOf
  <2>5. RestTypes'
    BY <1>0, <2>1, <2>4 DEF RestTypes
  <2>6. HoldsRight(d, "dropIn", loc[d]) /\ (TextFits => TextRight(d, "dropIn", loc[d], content)) /\ "dropIn" \in PCs
    BY <2>2 DEF HoldsRight, InFull, InEmpty, OutFull, OutEmpty, TextRight, PCs
  <2> QED BY <2>1, <2>5, <2>6, QuietStep
<1>7. CASE ReleaseIn(d, "dropIn", "dropOut")
  <2> DEFINE v == [loc[d] EXCEPT !.in = NoBuffer]
  <2>1. pc[d] = "dropIn"
    BY <1>7 DEF ReleaseIn
  <2>2. loc[d].in \in Buffers /\ loc[d].out \in Buffers
    BY <1>0, <2>1 DEF HoldsRight, OutFull, InFull
  <2>3. v.in = NoBuffer /\ v.out = loc[d].out
    BY <1>0, LocUpdate
  <2> HIDE DEF v
  <2>4. HoldsRight(d, "dropOut", v) /\ TextRight(d, "dropOut", v, content) /\ "dropOut" \in PCs
    BY <2>2, <2>3 DEF HoldsRight, InFull, InEmpty, OutFull, OutEmpty, TextRight, PCs
  <2> QED BY <1>7, <2>2, <2>4, ReleaseInStep DEF v
<1>8. CASE DropOut(d)
  <2> DEFINE v == [loc[d] EXCEPT !.out = NoBuffer]
  <2>1. /\ pc[d] = "dropOut" /\ pc' = [pc EXCEPT ![d] = "pop"] /\ loc' = [loc EXCEPT ![d] = v]
        /\ Put("free", loc[d].out) /\ content' = content
        /\ UNCHANGED <<finished, inFlight, dropped, written, files>>
    BY <1>0, <1>8 DEF DropOut, Goto
  <2>2. loc[d].in = NoBuffer /\ loc[d].out \in Buffers
    BY <1>0, <2>1 DEF HoldsRight, OutFull, InEmpty
  <2>3. v \in LocType /\ v.in = loc[d].in /\ v.out = NoBuffer
    BY <1>0, LocUpdate
  <2> HIDE DEF v
  <2>4. HoldsRight(d, "pop", v) /\ TextRight(d, "pop", v, content')
    BY <2>2, <2>3 DEF HoldsRight, InFull, InEmpty, OutFull, OutEmpty, TextRight
  <2>5. ThreadStep(d, "pop", v)
    BY <2>1, <2>3 DEF ThreadStep, PCs
  <2>6. "free" \in QueueNames /\ loc[d].out \in Buffers \cup {Sentinel}
    BY <2>2 DEF QueueNames
  <2>7. PlaceInv' /\ QueueTypes'
    BY <2>1, <2>2, <2>3, <2>6, PutOut
  <2>8. QueueMoves("decomp") /\ QueueMoves("ser")
    BY <1>0, <2>1, <2>6, PutMoves
  <2> QED BY <2>1, <2>4, <2>5, <2>7, <2>8, RestSame, ContentSame, Combine
<1> QED BY <1>1, <1>2, <1>3, <1>4, <1>5, <1>6, <1>7, <1>8, FinishStep, ForwardStep DEF Decompress

-----------------------------------------------------------------------------
(* Serializers. *)

\* The next multiple of T.
LEMMA NextMultiple ==
  ASSUME NEW T \in Nat \ {0}, NEW o \in Nat, o % T = 0
  PROVE  (o + T) % T = 0
<1>1. \A a \in Nat : a = T * (a \div T) + (a % T) /\ a % T \in 0..(T - 1) /\ a \div T \in Int
  BY Z3
<1>2. \A k \in Int : 0 <= T * k /\ T * k < T => k = 0
  <2>1. \A k \in Int : k >= 1 => T * k >= T
    BY Z3
  <2>2. \A k \in Int : k <= -1 => T * k <= -T
    BY Z3
  <2> QED BY <2>1, <2>2, Z3
<1> DEFINE q == o \div T
           p == (o + T) \div T
           r == (o + T) % T
<1>3. o = T * q + 0 /\ o + T = T * p + r /\ r \in 0..(T - 1) /\ p \in Int /\ q \in Int
  <2>1. o + T \in Nat
    OBVIOUS
  <2> HIDE DEF q
  <2>2. o = T * q + 0
    BY <1>1 DEF q
  <2> QED BY <1>1, <2>1, <2>2 DEF q
<1> HIDE DEF p, q, r
<1>4. r = T * (q + 1 - p)
  BY <1>3, Z3
<1>5. q + 1 - p = 0
  BY <1>2, <1>3, <1>4
<1>6. r = 0
  BY <1>3, <1>4, <1>5, Z3
<1> QED BY <1>6 DEF r

\* The rows that serialize writes are some of those it reads.
LEMMA TextWritten ==
  ASSUME NEW S, NEW rows \in Seq(S), NEW off \in Nat, NEW n,
         n = Least(Len(rows) - off, TextRowsPerBuffer)
  PROVE  off + n \in Nat /\ SubSeq(rows, off + 1, off + n) \in Seq(S)
<1>1. Len(rows) \in Nat /\ TextRowsPerBuffer \in Nat \ {0}
  BY SizesAssumption
<1>2. off + n \in 0..Len(rows)
  BY <1>1 DEF Least
<1>3. \A m \in 0..Len(rows) : SubSeq(rows, off + 1, m) \in Seq(S)
  OBVIOUS
<1> QED BY <1>1, <1>2, <1>3

\* The loops of serialize, when text fits: they take tuples, and only the one for
\* parquet finds the buffer full, with tuples left.
LEMMA TextLoop ==
  ASSUME TextFits, Sink = "csv", ~SkipSerializer, NEW off \in Nat, off < RowsPerBuffer,
         IF IFormat = 4 THEN off % TextRowsPerBuffer = 0 ELSE off = 0,
         NEW n, n = Least(RowsPerBuffer - off, TextRowsPerBuffer)
  PROVE  /\ n > 0
         /\ IFormat = 4 /\ n = TextRowsPerBuffer =>
              off + n < RowsPerBuffer /\ (off + n) % TextRowsPerBuffer = 0
         /\ IFormat # 4 => ~(off + n < RowsPerBuffer)
<1>1. RowsPerBuffer \in Nat \ {0} /\ TextRowsPerBuffer \in Nat \ {0}
  BY SizesAssumption
<1>2. n > 0 /\ n \in Int
  BY <1>1 DEF Least
<1>3. ASSUME IFormat = 4, n = TextRowsPerBuffer
      PROVE  off + n < RowsPerBuffer /\ (off + n) % TextRowsPerBuffer = 0
  <2>1. off % TextRowsPerBuffer = 0 /\ RowsPerBuffer % TextRowsPerBuffer # 0
    BY <1>3 DEF TextFits
  <2>2. off + n <= RowsPerBuffer
    BY <1>1, <1>3 DEF Least
  <2>3. (off + n) % TextRowsPerBuffer = 0
    BY <1>1, <1>3, <2>1, NextMultiple
  <2>4. off + n # RowsPerBuffer
    BY <2>1, <2>3
  <2> QED BY <1>1, <1>2, <2>2, <2>3, <2>4
<1>4. ASSUME IFormat # 4 PROVE ~(off + n < RowsPerBuffer)
  <2>1. off = 0 /\ RowsPerBuffer <= TextRowsPerBuffer
    BY <1>4 DEF TextFits
  <2>2. n = RowsPerBuffer
    BY <1>1, <2>1 DEF Least
  <2> QED BY <1>1, <2>1, <2>2
<1> QED BY <1>2, <1>3, <1>4

\* What serialize writes: types, and the buffer it goes to.
LEMMA SerializeStep ==
  ASSUME ClientInv, NEW s \in Threads, Stage(s) = "ser", Serialize(s)
  PROVE  ClientInv'
<1>0. /\ loc \in [Threads -> LocType] /\ loc[s] \in LocType /\ content \in Contents
      /\ Sink = "csv" => content \in [Buffers -> Seq(Rows)]
      /\ HoldsRight(s, pc[s], loc[s]) /\ (TextFits => TextRight(s, pc[s], loc[s], content))
  BY StepFacts
<1> DEFINE rows == content[loc[s].in]
           off == loc[s].off
           n == Least(Len(rows) - off, TextRowsPerBuffer)
           new == SubSeq(rows, off + 1, off + n)
           v == [loc[s] EXCEPT !.off = off + n]
<1>1. pc[s] = "serialize" /\ queue' = queue /\ UNCHANGED <<finished, inFlight, dropped, written, files>>
  BY DEF Serialize
<1>2. /\ loc[s].in \in Buffers /\ loc[s].out \in Buffers /\ off \in Nat
      /\ rows \in Seq(Rows \cup {Placeholder}) /\ (Sink = "csv" => rows \in Seq(Rows))
  BY <1>0, <1>1 DEF HoldsRight, InFull, OutFull, LocType, Contents
<1>3. RestTypes'
  BY <1>1, RestSame
<1>4. CASE Racing(s)
  <2>1. Goto(s, "undefined") /\ UNCHANGED <<loc, content>>
    BY <1>4 DEF Serialize
  <2>2. HoldsRight(s, "undefined", loc[s]) /\ TextRight(s, "undefined", loc[s], content) /\ "undefined" \in PCs
    BY PlainHolds DEF Plain
  <2> QED BY <1>1, <1>3, <2>1, <2>2, QuietStep
<1>5. CASE ~Racing(s)
  <2>1. loc' = [loc EXCEPT ![s] = v] /\ content' = [content EXCEPT ![loc[s].tgt] = new]
    BY <1>0, <1>5 DEF Serialize
  <2>2. PICK p \in {"pushFull", "pushLast", "release"} :
          /\ pc' = [pc EXCEPT ![s] = p]
          /\ p = "pushFull" => IF IFormat = 4 THEN n = TextRowsPerBuffer ELSE off + n < Len(rows)
          /\ p = "release" => ~(n > 0)
    BY <1>5 DEF Serialize, Goto
  <2> HIDE DEF n
  <2>3. off + n \in Nat /\ new \in Seq(Rows \cup {Placeholder}) /\ (Sink = "csv" => new \in Seq(Rows))
    <3> HIDE DEF off, rows
    <3> QED BY <1>2, TextWritten DEF n
  <2>4. v \in LocType /\ v.in = loc[s].in /\ v.out = loc[s].out /\ v.off = off + n
    BY <1>0, <2>3, LocUpdate DEF SameBuffers
  <2> HIDE DEF off, v, new
  <2>5. TextFits => /\ loc[s].tgt = loc[s].out /\ Whole(rows) /\ Sink = "csv" /\ ~SkipSerializer
                    /\ off < RowsPerBuffer
                    /\ IF IFormat = 4 THEN off % TextRowsPerBuffer = 0 ELSE off = 0
    BY <1>0, <1>1 DEF TextRight, InFull, off
  <2>6. ContentStep(s)
    BY <1>0, <2>1, <2>3, <2>5 DEF ContentStep, Contents
  <2>7. TextFits => Whole(content'[loc[s].in])
    <3>1. loc[s].in # loc[s].out
      BY <1>0, <1>2, StepFacts, HeldApart
    <3> QED BY <1>0, <1>2, <2>1, <2>5, <3>1 DEF Contents
  <2>8. ThreadStep(s, p, v)
    BY <2>1, <2>2, <2>4 DEF ThreadStep, PCs
  <2>9. ASSUME TextFits
        PROVE  /\ p # "release"
               /\ p = "pushFull" => /\ IFormat = 4 /\ off + n < RowsPerBuffer
                                    /\ (off + n) % TextRowsPerBuffer = 0
    <3>1. Len(rows) = RowsPerBuffer
      BY <2>5, <2>9 DEF Whole
    <3> HIDE DEF rows
    <3>2. n = Least(RowsPerBuffer - off, TextRowsPerBuffer)
      BY <3>1 DEF n
    <3>3. /\ n > 0
          /\ IFormat = 4 /\ n = TextRowsPerBuffer =>
               off + n < RowsPerBuffer /\ (off + n) % TextRowsPerBuffer = 0
          /\ IFormat # 4 => ~(off + n < RowsPerBuffer)
      BY <1>2, <2>5, <2>9, <3>2, TextLoop
    <3> QED BY <2>2, <3>1, <3>3
  <2>10. HoldsRight(s, p, v)
    <3>1. p = "release" => ~TextFits
      BY <2>9
    <3> QED BY <1>2, <2>4, <3>1 DEF HoldsRight, InFull, InEmpty, OutFull, OutEmpty
  <2>11. TextFits => TextRight(s, p, v, content')
    BY <2>4, <2>5, <2>7, <2>9 DEF TextRight
  <2> QED BY <1>1, <1>3, <2>4, <2>6, <2>8, <2>10, <2>11, LocalStep
<1> QED BY <1>4, <1>5

\* A new buffer after a full one.
LEMMA RefillStep ==
  ASSUME ClientInv, NEW s \in Threads, Stage(s) = "ser", Refill(s)
  PROVE  ClientInv'
<1>0. /\ loc \in [Threads -> LocType] /\ loc[s] \in LocType /\ content \in Contents /\ QueueTypes
      /\ Sink = "csv" => content \in [Buffers -> Seq(Rows)]
      /\ HoldsRight(s, pc[s], loc[s]) /\ (TextFits => TextRight(s, pc[s], loc[s], content))
  BY StepFacts
<1> DEFINE new == Front("free")
           w == [loc[s] EXCEPT !.out = new]
           v == [w EXCEPT !.tgt = IF IFormat # 4 THEN loc[s].tgt ELSE new]
<1>1. /\ pc[s] = "refill" /\ Take("free") /\ UNCHANGED <<finished, inFlight, dropped, written, files>>
      /\ loc' = [loc EXCEPT ![s] = v]
  BY <1>0 DEF Refill
<1>2. PICK p \in {"undefined", "serialize"} :
        /\ pc' = [pc EXCEPT ![s] = p]
        /\ \/ content' = content
           \/ IFormat # 4 /\ content' = [content EXCEPT ![loc[s].tgt] = content[new]]
  BY DEF Refill, Goto
<1>3. new \in Buffers
  BY <1>1, FrontType DEF QueueNames
<1> HIDE DEF new
<1>4. /\ loc[s].in \in Buffers /\ loc[s].out = NoBuffer /\ loc[s].tgt \in Buffers \cup {NoBuffer}
      /\ TextFits => /\ Whole(content[loc[s].in]) /\ ~SkipSerializer /\ IFormat = 4
                     /\ Sink = "csv" /\ loc[s].off < RowsPerBuffer
                     /\ loc[s].off % TextRowsPerBuffer = 0
  BY <1>0, <1>1 DEF HoldsRight, InFull, OutEmpty, TextRight, LocType
<1>5. w \in LocType /\ w.in = loc[s].in /\ w.out = new /\ w.off = loc[s].off
  BY <1>0, <1>3, LocUpdate
<1> HIDE DEF w
<1>6. /\ v \in LocType /\ v.in = loc[s].in /\ v.out = new /\ v.off = loc[s].off
      /\ IFormat = 4 => v.tgt = new
  BY <1>3, <1>4, <1>5, LocUpdate
<1> HIDE DEF v
<1>7. PlaceInv' /\ QueueTypes'
  BY <1>1, <1>4, <1>6, TakeOut DEF new
<1>8. TextFits => content' = content
  BY <1>2, <1>4
<1>9. ContentStep(s)
  <2>1. content[new] \in Seq(Rows \cup {Placeholder}) /\ (Sink = "csv" => content[new] \in Seq(Rows))
    BY <1>0, <1>3 DEF Contents
  <2>2. content' \in Contents /\ (Sink = "csv" => content' \in [Buffers -> Seq(Rows)])
    BY <1>0, <1>2, <2>1 DEF Contents
  <2> QED BY <1>8, <2>2 DEF ContentStep
<1>10. ThreadStep(s, p, v)
  BY <1>1, <1>2, <1>6 DEF ThreadStep, PCs
<1>11. QueueMoves("decomp") /\ QueueMoves("ser")
  BY <1>0, <1>1, TakeMoves DEF QueueNames
<1>12. RestTypes'
  BY <1>1, RestSame
<1>13. HoldsRight(s, p, v)
  BY <1>3, <1>4, <1>6 DEF HoldsRight, InFull, InEmpty, OutFull, OutEmpty
<1>14. TextFits => TextRight(s, p, v, content')
  BY <1>4, <1>6, <1>8 DEF TextRight
<1> QED BY <1>7, <1>9, <1>10, <1>11, <1>12, <1>13, <1>14, Combine

\* Arrow batches: a buffer, or the sentinel and nothing.
LEMMA PopBothStep ==
  ASSUME ClientInv, NEW s \in Threads, Stage(s) = "ser", Arrow, PopBoth(s)
  PROVE  ClientInv'
<1>0. /\ loc \in [Threads -> LocType] /\ loc[s] \in LocType /\ QueueTypes
      /\ HoldsRight(s, pc[s], loc[s])
  BY StepFacts
<1> DEFINE id == IF Front("ser") = Sentinel THEN NoBuffer ELSE Front("ser")
           v == [loc[s] EXCEPT !.in = id]
<1>1. /\ pc[s] = "pop" /\ Take("ser") /\ UNCHANGED <<finished, inFlight, dropped, written, files>>
      /\ loc' = [loc EXCEPT ![s] = v] /\ pc' = [pc EXCEPT ![s] = "popFree"] /\ content' = content
  BY <1>0 DEF PopBoth, Goto
<1>2. /\ Front("ser") \in Buffers \cup {Sentinel}
      /\ TextFits /\ Front("ser") \in Buffers => Whole(content[Front("ser")])
  BY <1>1, FrontType DEF QueueNames
<1>3. id \in Buffers \cup {NoBuffer} /\ (id = Front("ser") \/ (Front("ser") = Sentinel /\ id = NoBuffer))
  BY <1>2
<1>4. loc[s].in = NoBuffer /\ (TextFits => loc[s].out = NoBuffer)
  BY <1>0, <1>1 DEF HoldsRight, InEmpty, OutEmpty
<1>5. v \in LocType /\ v.in = id /\ v.out = loc[s].out
  <2> HIDE DEF id
  <2> QED BY <1>0, <1>3, LocUpdate
<1> HIDE DEF v, id
<1>6. PlaceInv' /\ QueueTypes'
  <2>1. "ser" \in QueueNames
    BY DEF QueueNames
  <2> QED BY <1>1, <1>3, <1>4, <1>5, <2>1, TakeIn
<1>7. ThreadStep(s, "popFree", v)
  BY <1>1, <1>5 DEF ThreadStep, PCs
<1>8. QueueMoves("decomp") /\ QueueMoves("ser") /\ RestTypes' /\ ContentStep(s)
  BY <1>0, <1>1, TakeMoves, RestSame, ContentSame DEF QueueNames
<1>9. HoldsRight(s, "popFree", v)
  BY <1>4, <1>5 DEF HoldsRight, InFull, InEmpty, OutFull, OutEmpty
<1>10. TextFits => TextRight(s, "popFree", v, content')
  BY <1>1, <1>2, <1>3, <1>5, BufferFacts DEF TextRight, InFull, Arrow
<1> QED BY <1>6, <1>7, <1>8, <1>9, <1>10, Combine

\* Where a serializer goes with its free buffer.
LEMMA AfterPopFreeValue ==
  ASSUME NEW s \in Threads
  PROVE  /\ Sink = "csv" => AfterPopFree(s) = "serialize"
         /\ Sink = "parquet" /\ loc[s].in = NoBuffer => AfterPopFree(s) = "fetchAdd"
         /\ Sink = "parquet" /\ loc[s].in # NoBuffer => AfterPopFree(s) = "convert"
<1>1. AfterPopFree(s) = CASE Sink = "csv" -> "serialize"
                          [] Sink = "parquet" /\ loc[s].in = NoBuffer -> "fetchAdd"
                          [] OTHER -> "convert"
  BY Zenon DEF AfterPopFree
<1>2. "csv" # "parquet"
  OBVIOUS
<1> QED BY <1>1, <1>2, Zenon

\* Nothing but the main thread moves.
LEMMA SameInv ==
  ASSUME ClientInv, UNCHANGED <<pc, loc, queue, content, finished, inFlight, dropped, written, files>>
  PROVE  ClientInv'
<1>1. TypeOK'
  BY DEF ClientInv, TypeOK
<1>2. HoldInv' /\ TextInv'
  BY DEF ClientInv, HoldInv, TextInv
<1>3. Held' = Held
  BY DEF Held, ThreadSlots
<1>4. PlaceInv'
  BY <1>3 DEF ClientInv, PlaceInv
<1> QED BY <1>1, <1>2, <1>4 DEF ClientInv

\* CsvSink::serialize and PQSink::serialize.
LEMMA SerializeStageStep ==
  ASSUME ClientInv, NEW s \in Threads, Stage(s) = "ser", SerializeStage(s)
  PROVE  ClientInv'
<1>0. /\ loc \in [Threads -> LocType] /\ loc[s] \in LocType /\ content \in Contents
      /\ HoldsRight(s, pc[s], loc[s]) /\ (TextFits => TextRight(s, pc[s], loc[s], content))
      /\ Sink \in {"csv", "parquet"}
  BY StepFacts, ThreadFacts
<1> DEFINE to == {IF SkipSerializer THEN "forward" ELSE "popFree"}
<1>1. CASE ~Arrow /\ PopIn(s, to, "fetchAdd")
  <2>1. pc[s] = "pop"
    BY <1>1 DEF PopIn
  <2>2. TextFits => loc[s].out = NoBuffer
    BY <1>0, <2>1 DEF HoldsRight, OutEmpty
  <2>3. /\ to \in SUBSET PCs /\ "fetchAdd" \in Plain
        /\ \A p \in to : p \in {"forward", "popFree"} /\ (p = "popFree" => ~SkipSerializer)
    BY DEF PCs, Plain
  <2>4. ASSUME NEW v \in LocType, NEW p \in to, v.in \in Buffers, v.off = 0,
               TextFits => Whole(content[v.in]), v.out = loc[s].out
        PROVE  HoldsRight(s, p, v) /\ (TextFits => TextRight(s, p, v, content))
    <3>1. p \in {"forward", "popFree"} /\ (p = "popFree" => ~SkipSerializer)
      BY <2>3
    <3> HIDE DEF to
    <3> QED BY <2>2, <2>4, <3>1 DEF HoldsRight, InFull, InEmpty, OutFull, OutEmpty, TextRight
  <2> HIDE DEF to
  <2> QED BY <1>1, <2>3, <2>4, PopInStep
<1>2. CASE PopFree(s, "popFree", AfterPopFree(s))
  <2>1. pc[s] = "popFree" /\ Take("free")
    BY <1>2 DEF PopFree
  <2>2. /\ TextFits => loc[s].out = NoBuffer /\ ~SkipSerializer
        /\ ~Arrow => loc[s].in \in Buffers /\ (TextFits => Whole(content[loc[s].in]))
        /\ loc[s].in # NoBuffer => loc[s].in \in Buffers /\ (TextFits => Whole(content[loc[s].in]))
        /\ TextFits /\ Sink = "csv" => loc[s].off = 0
    BY <1>0, <2>1 DEF HoldsRight, OutEmpty, InFull, TextRight, LocType
  <2>3. /\ Taken(s).out \in Buffers /\ Taken(s).in = loc[s].in /\ Taken(s).off = loc[s].off
        /\ Taken(s).tgt = Taken(s).out
    BY <2>1, FreeTaken
  <2> HIDE DEF Taken
  <2>4. CASE Sink = "csv"
    <3>1. AfterPopFree(s) = "serialize" /\ ~Arrow
      BY <2>4, AfterPopFreeValue DEF Arrow
    <3>2. HoldsRight(s, "serialize", Taken(s)) /\ "serialize" \in PCs
      BY <2>2, <2>3, <3>1 DEF HoldsRight, InFull, InEmpty, OutFull, OutEmpty, PCs
    <3>3. RowsPerBuffer > 0 /\ 0 % TextRowsPerBuffer = 0
      BY SizesAssumption, Z3
    <3>4. TextFits => TextRight(s, "serialize", Taken(s), content)
      BY <2>2, <2>3, <2>4, <3>1, <3>3 DEF TextRight
    <3> QED BY <1>2, <2>2, <3>1, <3>2, <3>4, PopFreeStep
  <2>5. CASE Sink = "parquet" /\ loc[s].in = NoBuffer
    <3>1. AfterPopFree(s) = "fetchAdd"
      BY <2>5, AfterPopFreeValue
    <3>2. HoldsRight(s, "fetchAdd", Taken(s)) /\ TextRight(s, "fetchAdd", Taken(s), content) /\ "fetchAdd" \in PCs
      BY PlainHolds DEF Plain
    <3> QED BY <1>2, <2>2, <3>1, <3>2, PopFreeStep
  <2>6. CASE Sink = "parquet" /\ loc[s].in # NoBuffer
    <3>1. AfterPopFree(s) = "convert"
      BY <2>6, AfterPopFreeValue
    <3>2. HoldsRight(s, "convert", Taken(s)) /\ "convert" \in PCs
      BY <2>2, <2>3, <2>6 DEF HoldsRight, InFull, InEmpty, OutFull, OutEmpty, PCs
    <3>3. TextFits => TextRight(s, "convert", Taken(s), content)
      BY <2>2, <2>3, <2>6 DEF TextRight
    <3> QED BY <1>2, <2>2, <3>1, <3>2, <3>3, PopFreeStep
  <2> QED BY <1>0, <2>4, <2>5, <2>6
<1>3. CASE Convert(s)
  <2> DEFINE made == [i \in 1..Len(content[loc[s].in]) |-> Placeholder]
  <2>1. /\ pc[s] = "convert" /\ loc' = loc /\ queue' = queue /\ pc' = [pc EXCEPT ![s] = "pushLast"]
        /\ content' = [content EXCEPT ![loc[s].out] = made]
        /\ UNCHANGED <<finished, inFlight, dropped, written, files>>
    BY <1>3 DEF Convert, Goto
  <2>2. /\ loc[s].out \in Buffers /\ loc[s].in \in Buffers /\ Sink # "csv"
        /\ TextFits => Whole(content[loc[s].in])
    BY <1>0, <2>1 DEF HoldsRight, OutFull, InFull, TextRight
  <2>3. made \in Seq(Rows \cup {Placeholder})
    <3>1. Len(content[loc[s].in]) \in Nat
      BY <1>0, <2>2 DEF Contents
    <3>2. made \in [1..Len(content[loc[s].in]) -> Rows \cup {Placeholder}]
      OBVIOUS
    <3> HIDE DEF made
    <3> QED BY <3>1, <3>2
  <2> HIDE DEF made
  <2>4. ContentStep(s)
    BY <2>1, <2>2, <2>3, WriteOut
  <2>5. content'[loc[s].in] = content[loc[s].in]
    BY <1>0, <2>1, <2>2, StepFacts, HeldApart DEF Contents
  <2>6. ThreadStep(s, "pushLast", loc[s])
    BY <1>0, <2>1 DEF ThreadStep, PCs
  <2>7. HoldsRight(s, "pushLast", loc[s]) /\ (TextFits => TextRight(s, "pushLast", loc[s], content'))
    BY <2>2, <2>5 DEF HoldsRight, InFull, InEmpty, OutFull, OutEmpty, TextRight
  <2> QED BY <2>1, <2>4, <2>6, <2>7, RestSame, LocalStep
<1>4. CASE ArrowFails(s)
  <2>1. Goto(s, "failed") /\ UNCHANGED <<loc, queue, content>>
        /\ UNCHANGED <<finished, inFlight, dropped, written, files>>
    BY <1>4 DEF ArrowFails
  <2>2. HoldsRight(s, "failed", loc[s]) /\ TextRight(s, "failed", loc[s], content) /\ "failed" \in PCs
    BY PlainHolds DEF Plain
  <2> QED BY <2>1, <2>2, RestSame, QuietStep
<1>5. CASE PushOut(s, "pushFull", "refill")
  <2> DEFINE v == [loc[s] EXCEPT !.out = NoBuffer]
  <2>1. pc[s] = "pushFull"
    BY <1>5 DEF PushOut
  <2>2. loc[s].out \in Buffers /\ loc[s].in \in Buffers
    BY <1>0, <2>1 DEF HoldsRight, OutFull, InFull
  <2>3. v.out = NoBuffer /\ v.in = loc[s].in /\ v.off = loc[s].off
    BY <1>0, LocUpdate
  <2> HIDE DEF v
  <2>4. HoldsRight(s, "refill", v) /\ "refill" \in PCs
    BY <2>2, <2>3 DEF HoldsRight, InFull, InEmpty, OutFull, OutEmpty, PCs
  <2>5. TextFits => TextRight(s, "refill", v, content)
    BY <1>0, <2>1, <2>3 DEF TextRight, InFull
  <2> QED BY <1>5, <2>2, <2>4, <2>5, PushOutStep DEF v
<1>6. CASE PushOut(s, "pushLast", "release")
  <2> DEFINE v == [loc[s] EXCEPT !.out = NoBuffer]
  <2>1. pc[s] = "pushLast"
    BY <1>6 DEF PushOut
  <2>2. loc[s].out \in Buffers /\ loc[s].in \in Buffers /\ (TextFits => Whole(content[loc[s].in]))
    BY <1>0, <2>1 DEF HoldsRight, OutFull, InFull, TextRight
  <2>3. v.out = NoBuffer /\ v.in = loc[s].in
    BY <1>0, LocUpdate
  <2> HIDE DEF v
  <2>4. HoldsRight(s, "release", v) /\ (TextFits => TextRight(s, "release", v, content)) /\ "release" \in PCs
    BY <2>2, <2>3 DEF HoldsRight, InFull, InEmpty, OutFull, OutEmpty, TextRight, PCs
  <2> QED BY <1>6, <2>2, <2>4, PushOutStep DEF v
<1>7. CASE ReleaseIn(s, "release", "pop")
  <2> DEFINE v == [loc[s] EXCEPT !.in = NoBuffer]
  <2>1. pc[s] = "release"
    BY <1>7 DEF ReleaseIn
  <2>2. loc[s].in \in Buffers /\ (TextFits => loc[s].out = NoBuffer)
    BY <1>0, <2>1 DEF HoldsRight, OutEmpty, InFull
  <2>3. v.in = NoBuffer /\ v.out = loc[s].out
    BY <1>0, LocUpdate
  <2> HIDE DEF v
  <2>4. HoldsRight(s, "pop", v) /\ TextRight(s, "pop", v, content) /\ "pop" \in PCs
    BY <2>2, <2>3 DEF HoldsRight, InFull, InEmpty, OutFull, OutEmpty, TextRight, PCs
  <2> QED BY <1>7, <2>2, <2>4, ReleaseInStep DEF v
<1>8. CASE SerializerDies(s)
  BY <1>8, SameInv DEF SerializerDies
<1> QED BY <1>1, <1>2, <1>3, <1>4, <1>5, <1>6, <1>7, PopBothStep, ForwardStep, SerializeStep, RefillStep,
           FinishStep, <1>8 DEF SerializeStage

-----------------------------------------------------------------------------
(* Writers, the main thread, and the invariant. *)

\* A row occurs a natural number of times in a buffer.
LEMMA OccurrencesNat ==
  ASSUME NEW r, NEW S, NEW rows \in Seq(S)
  PROVE  Occurrences(r, rows) \in Nat
<1>1. Len(rows) \in Nat
  OBVIOUS
<1>2. IsFiniteSet(1..Len(rows))
  BY <1>1, FS_Interval
<1>3. {i \in 1..Len(rows) : rows[i] = r} \subseteq 1..Len(rows)
  OBVIOUS
<1>4. IsFiniteSet({i \in 1..Len(rows) : rows[i] = r})
  BY <1>2, <1>3, FS_Subset
<1> QED BY <1>4, FS_CardinalityType DEF Occurrences

\* Writers hold nothing but the buffer they write.
LEMMA WriterFacts ==
  ASSUME ClientInv, NEW w \in Threads, Stage(w) = "write", NEW p, NEW v, NEW c
  PROVE  /\ TextRight(w, p, v, c)
         /\ p \in {"open", "pop"} /\ v.in = NoBuffer => HoldsRight(w, p, v)
         /\ p = "hasNext" /\ v.in = NoBuffer /\ Sink = "pull" => HoldsRight(w, p, v)
         /\ p \in {"write", "openFile", "writeFile", "release"} /\ v.in \in Buffers => HoldsRight(w, p, v)
BY DEF TextRight, HoldsRight, InFull, InEmpty, OutFull, OutEmpty

\* Where writers go.
LEMMA WriterPlaces ==
  /\ Writing \in {"write", "openFile"} /\ WriteEnd \in Plain /\ WriteAgain \in {"hasNext", "pop"}
  /\ WriteAgain = "hasNext" => Sink = "pull"
  /\ {"open", "pop", "hasNext", "write", "openFile", "writeFile", "release"} \subseteq PCs
BY OptionsAssumption DEF Writing, WriteEnd, WriteAgain, Plain, PCs

\* What PQSink::write puts into a file is a part of the buffer.
LEMMA FiledRows ==
  ASSUME NEW S, NEW rows \in Seq(S), NEW part \in Filed(rows)
  PROVE  part \in Seq(S)
<1>1. CASE Arrow
  <2>1. PICK n \in 0..Len(rows) : part = SubSeq(rows, 1, n)
    BY <1>1 DEF Filed
  <2>2. Len(rows) \in Nat
    OBVIOUS
  <2> QED BY <2>1, <2>2
<1>2. CASE ~Arrow
  BY <1>2 DEF Filed
<1> QED BY <1>1, <1>2

\* CsvSink::write, PQSink::write and a program that pulls.
LEMMA WriteStep ==
  ASSUME ClientInv, NEW w \in Threads, Stage(w) = "write", Write(w)
  PROVE  ClientInv'
<1>0. /\ loc \in [Threads -> LocType] /\ loc[w] \in LocType /\ content \in Contents /\ RestTypes
      /\ HoldsRight(w, pc[w], loc[w])
  BY StepFacts
<1>1. CASE Open(w)
  <2>1. pc[w] = "open" /\ Goto(w, "pop") /\ UNCHANGED <<loc, queue, content>>
        /\ UNCHANGED <<finished, inFlight, dropped, written, files>>
    BY <1>1 DEF Open
  <2>2. loc[w].in = NoBuffer
    BY <1>0, <2>1 DEF HoldsRight, InEmpty
  <2> QED BY <2>1, <2>2, WriterFacts, WriterPlaces, RestSame, QuietStep
<1>2. CASE OpenFails(w)
  BY <1>2, SameInv DEF OpenFails
<1>3. CASE HasNext(w)
  <2> DEFINE p == IF finished.empty = WriteParallelism THEN "done" ELSE "pop"
  <2>1. pc[w] = "hasNext" /\ Goto(w, p) /\ UNCHANGED <<loc, queue, content>>
        /\ UNCHANGED <<finished, inFlight, dropped, written, files>>
    BY <1>3 DEF HasNext
  <2>2. loc[w].in = NoBuffer
    BY <1>0, <2>1 DEF HoldsRight, InEmpty
  <2>3. "done" \in Plain
    BY DEF Plain
  <2>4. HoldsRight(w, p, loc[w]) /\ TextRight(w, p, loc[w], content) /\ p \in PCs
    BY <2>2, <2>3, WriterFacts, WriterPlaces, PlainHolds
  <2> HIDE DEF p
  <2> QED BY <2>1, <2>4, RestSame, QuietStep
<1>4. CASE PopIn(w, {Writing}, WriteEnd)
  <2>1. {Writing} \in SUBSET PCs /\ WriteEnd \in Plain
    BY WriterPlaces
  <2>2. ASSUME NEW v \in LocType, NEW p \in {Writing}, v.in \in Buffers
        PROVE  HoldsRight(w, p, v) /\ TextRight(w, p, v, content)
    BY <2>2, WriterFacts, WriterPlaces
  <2> QED BY <1>4, <2>1, <2>2, PopInStep
<1>5. CASE CountEmpty(w)
  <2>1. /\ Goto(w, "done") /\ UNCHANGED <<loc, queue, content>>
        /\ finished' = [finished EXCEPT !.empty = @ + 1] /\ UNCHANGED <<inFlight, dropped, written, files>>
    BY <1>5 DEF CountEmpty
  <2>2. HoldsRight(w, "done", loc[w]) /\ TextRight(w, "done", loc[w], content) /\ "done" \in PCs
    BY PlainHolds DEF Plain
  <2>3. RestTypes'
    BY <1>0, <2>1 DEF RestTypes
  <2> QED BY <2>1, <2>2, <2>3, QuietStep
<1>6. CASE WriteBuffer(w)
  <2>1. /\ pc[w] = "write" /\ Goto(w, "release") /\ UNCHANGED <<loc, queue, content>>
        /\ written' = [r \in Rows |-> written[r] + Occurrences(r, content[loc[w].in])]
        /\ UNCHANGED <<finished, inFlight, dropped, files>>
    BY <1>6 DEF WriteBuffer
  <2>2. loc[w].in \in Buffers
    BY <1>0, <2>1 DEF HoldsRight, InFull
  <2>3. content[loc[w].in] \in Seq(Rows \cup {Placeholder})
    BY <1>0, <2>2 DEF Contents
  <2>4. \A r \in Rows : Occurrences(r, content[loc[w].in]) \in Nat
    BY <2>3, OccurrencesNat
  <2>5. written' \in [Rows -> Nat]
    BY <1>0, <2>1, <2>4 DEF RestTypes
  <2>6. RestTypes'
    BY <1>0, <2>1, <2>5 DEF RestTypes
  <2> QED BY <2>1, <2>2, <2>6, WriterFacts, WriterPlaces, QuietStep
<1>7. CASE OpenFile(w)
  <2> DEFINE v == [loc[w] EXCEPT !.suffix = loc[w].suffix + 1]
  <2>1. /\ pc[w] = "openFile" /\ pc' = [pc EXCEPT ![w] = "writeFile"] /\ queue' = queue /\ content' = content
        /\ loc' = [loc EXCEPT ![w] = v] /\ files' = [files EXCEPT ![loc[w].suffix] = <<>>]
        /\ UNCHANGED <<finished, inFlight, dropped, written>>
    BY <1>0, <1>7 DEF OpenFile, Goto
  <2>2. loc[w].in \in Buffers /\ loc[w].suffix + 1 \in Nat
    BY <1>0, <2>1 DEF HoldsRight, InFull, LocType
  <2>3. v \in LocType /\ v.in = loc[w].in /\ v.out = loc[w].out
    BY <1>0, <2>2, LocUpdate DEF SameBuffers
  <2> HIDE DEF v
  <2>4. RestTypes'
    <3>1. <<>> \in Seq(Rows \cup {Placeholder})
      OBVIOUS
    <3>2. files' \in [0..(IncomingBuffers - 1) -> Seq(Rows \cup {Placeholder})]
      BY <1>0, <2>1, <3>1 DEF RestTypes
    <3> QED BY <1>0, <2>1, <3>2 DEF RestTypes
  <2>5. ThreadStep(w, "writeFile", v)
    BY <2>1, <2>3, WriterPlaces DEF ThreadStep
  <2> QED BY <2>1, <2>2, <2>3, <2>4, <2>5, WriterFacts, ContentSame, LocalStep
<1>8. CASE WriteFile(w)
  <2>1. PICK rows \in Filed(content[loc[w].in]) :
          /\ pc[w] = "writeFile" /\ Goto(w, "release") /\ UNCHANGED <<loc, queue, content>>
          /\ files' = [files EXCEPT ![loc[w].suffix - 1] = rows]
          /\ UNCHANGED <<finished, inFlight, dropped, written>>
    BY <1>8 DEF WriteFile
  <2>2. loc[w].in \in Buffers
    BY <1>0, <2>1 DEF HoldsRight, InFull
  <2>3. content[loc[w].in] \in Seq(Rows \cup {Placeholder})
    BY <1>0, <2>2 DEF Contents
  <2>4. rows \in Seq(Rows \cup {Placeholder})
    BY <2>1, <2>3, FiledRows
  <2>5. RestTypes'
    BY <1>0, <2>1, <2>4 DEF RestTypes
  <2> QED BY <2>1, <2>2, <2>5, WriterFacts, WriterPlaces, QuietStep
<1>10. CASE WriteFilePast(w)
  <2>1. Goto(w, "undefined") /\ UNCHANGED <<loc, queue, content>>
        /\ UNCHANGED <<finished, inFlight, dropped, written, files>>
    BY <1>10 DEF WriteFilePast
  <2>2. HoldsRight(w, "undefined", loc[w]) /\ TextRight(w, "undefined", loc[w], content) /\ "undefined" \in PCs
    BY PlainHolds DEF Plain
  <2> QED BY <2>1, <2>2, RestSame, QuietStep
<1>9. CASE ReleaseIn(w, "release", WriteAgain)
  <2> DEFINE v == [loc[w] EXCEPT !.in = NoBuffer]
  <2>1. pc[w] = "release"
    BY <1>9 DEF ReleaseIn
  <2>2. loc[w].in \in Buffers
    BY <1>0, <2>1 DEF HoldsRight, InFull
  <2>3. v.in = NoBuffer
    BY <1>0, LocUpdate
  <2> HIDE DEF v
  <2>4. HoldsRight(w, WriteAgain, v) /\ TextRight(w, WriteAgain, v, content) /\ WriteAgain \in PCs
    BY <2>3, WriterFacts, WriterPlaces
  <2> QED BY <1>9, <2>2, <2>4, ReleaseInStep DEF v
<1> QED BY <1>1, <1>2, <1>3, <1>4, <1>5, <1>6, <1>7, <1>8, <1>9, <1>10 DEF Write

\* Every step preserves the invariant.
LEMMA ClientStep == ClientInv /\ [Next]_vars => ClientInv'
<1> SUFFICES ASSUME ClientInv, [Next]_vars PROVE ClientInv'
  OBVIOUS
<1>1. ASSUME NEW t \in Threads, Step(t) PROVE ClientInv'
  BY <1>1, ReceiveStep, DecompressStep, SerializeStageStep, WriteStep DEF Step
<1>2. CASE Main
  BY <1>2, SameInv DEF Main
<1>3. CASE UNCHANGED vars
  BY <1>3, SameInv DEF vars
<1> QED BY <1>1, <1>2, <1>3 DEF Next, Terminated

-----------------------------------------------------------------------------
\* The invariant holds in every reachable state.
THEOREM ClientInvariant == Spec => []ClientInv
<1> QED BY ClientInit, ClientStep, PTL DEF Spec

\* Type correctness of the client, for every number of threads and buffers.
THEOREM ClientTypeCorrect == Spec => []TypeOK
<1>1. ClientInv => TypeOK
  BY DEF ClientInv
<1> QED BY <1>1, ClientInvariant, PTL

\* No two threads, and no thread and a queue, ever have the same buffer: whatever
\* the text does to a buffer, each id has one owner.
THEOREM NoBufferShared == Spec => []OnePlace(Buffers, queue, Held)
<1>1. ClientInv => OnePlace(Buffers, queue, Held)
  BY DEF ClientInv, PlaceInv
<1> QED BY <1>1, ClientInvariant, PTL

\* Every buffer of the client's pool is always in exactly one place, a queue or a
\* variable of a thread, for every number of threads, either sink and every fault,
\* as long as the text of a buffer fits: the run client_overflow shows what happens
\* when it does not.
THEOREM ClientBuffersConserved ==
  ASSUME TextFits
  PROVE  Spec => []BufferConservation
<1>1. ASSUME ClientInv PROVE BufferConservation
  <2> DEFINE queued == {s \in QueueSlots : queue[s[1]][s[2]] # Sentinel}
             held == {s \in ThreadSlots : loc[s[1]][s[2]] # NoBuffer}
  <2>1. /\ loc \in [Threads -> LocType] /\ QueueTypes /\ content \in Contents
        /\ OnePlace(Buffers, queue, Held) /\ SomePlace(Buffers, queue, Held)
    BY <1>1, TypeParts DEF ClientInv, PlaceInv
  <2>2. IsFiniteSet(Buffers) /\ DOMAIN content = Buffers
    BY <2>1, BufferFacts DEF Contents
  <2>3. ASSUME NEW p
        PROVE  p \in queued <=> \E n \in DOMAIN queue : \E i \in 1..Len(queue[n]) :
                                  p = <<n, i>> /\ queue[n][i] \in Buffers
    <3>1. ASSUME p \in queued
          PROVE  \E n \in DOMAIN queue : \E i \in 1..Len(queue[n]) : p = <<n, i>> /\ queue[n][i] \in Buffers
      <4>1. PICK n \in DOMAIN queue : p \in {n} \X (1..Len(queue[n]))
        BY <3>1 DEF QueueSlots
      <4>2. p = <<n, p[2]>> /\ p[1] = n /\ p[2] \in 1..Len(queue[n])
        BY <4>1
      <4>3. queue[n][p[2]] # Sentinel /\ queue[n] \in Seq(Buffers \cup {Sentinel})
        BY <2>1, <3>1, <4>2, QueueElements DEF QueueTypes
      <4>4. queue[n][p[2]] \in Buffers
        BY <4>2, <4>3
      <4> QED BY <4>2, <4>4
    <3>2. ASSUME NEW n \in DOMAIN queue, NEW i \in 1..Len(queue[n]), p = <<n, i>>, queue[n][i] \in Buffers
          PROVE  p \in queued
      <4>1. p \in {n} \X (1..Len(queue[n])) /\ queue[p[1]][p[2]] # Sentinel
        BY <3>2, BufferFacts
      <4>2. p \in QueueSlots
        BY <4>1 DEF QueueSlots
      <4> QED BY <4>1, <4>2
    <3> QED BY <3>1, <3>2
  <2>4. ASSUME NEW s
        PROVE  s \in held <=> s \in DOMAIN Held /\ Held[s] \in Buffers
    <3>1. s \in ThreadSlots => Held[s] = loc[s[1]][s[2]] /\ Held[s] \in Buffers \cup {NoBuffer}
      <4> SUFFICES ASSUME s \in ThreadSlots
                   PROVE  Held[s] = loc[s[1]][s[2]] /\ Held[s] \in Buffers \cup {NoBuffer}
        OBVIOUS
      <4>1. s[1] \in Threads /\ s[2] \in {"in", "out"} /\ Held[s] = loc[s[1]][s[2]]
        BY <2>1 DEF ThreadSlots, Held
      <4>2. loc[s[1]].in \in Buffers \cup {NoBuffer} /\ loc[s[1]].out \in Buffers \cup {NoBuffer}
        BY <2>1, <4>1 DEF LocType
      <4>3. loc[s[1]]["in"] \in Buffers \cup {NoBuffer} /\ loc[s[1]]["out"] \in Buffers \cup {NoBuffer}
        BY <4>2
      <4> QED BY <4>1, <4>3
    <3>2. DOMAIN Held = ThreadSlots
      BY DEF Held
    <3> QED BY <3>1, <3>2, BufferFacts
  <2> HIDE DEF queued, held
  <2>5. QueuePlaces(Buffers, queue, queued) /\ HeldPlaces(Buffers, Held, held)
    BY <2>3, <2>4 DEF QueuePlaces, HeldPlaces
  <2>7. PlacesSuffice(Buffers, queue, Held, queued, held)
    BY <2>1, <2>2, <2>5, PlacesCount
  <2>6. {Held[s] : s \in held} = {loc[s[1]][s[2]] : s \in held}
    BY DEF Held, held
  <2> QED BY <2>2, <2>6, <2>7 DEF BufferConservation, PlacesSuffice, queued, held
<1> QED BY <1>1, ClientInvariant, PTL

-----------------------------------------------------------------------------
(* The hand-offs between the stages implement StageQueue.  A step of a thread is *)
(* first described by what it does to the queues and to the thread's part as a   *)
(* producer and as a consumer; that is then read as a step of StageQueue.        *)

ProducerAt(s) == IF s \in {"load", "signal", "done"} THEN s ELSE "produce"

StoppedAt(s) == s \in {"fetchAdd", "load", "signal", "done"}

Between == {"decomp", "ser", "write"}

ProducerStages == {"rcv", "decomp", "ser"}

\* Threads that stop as StageQueue says.  With Arrow batches serializers go on for a
\* free buffer, and a program that pulls decides for itself when to stop.
Consumes(t) ==
  \/ Stage(t) = "decomp"
  \/ Stage(t) = "ser" /\ ~Arrow
  \/ Stage(t) = "write" /\ Sink # "pull"

OnlyMoves(t) == \A u \in Threads : u # t => pc'[u] = pc[u] /\ loc'[u] = loc[u]

SameCounters == \A f \in ProducerStages : finished'[f] = finished[f]

SameProducer(t) ==
  /\ SameCounters
  /\ Stage(t) # "write" => ProducerAt(pc'[t]) = ProducerAt(pc[t]) /\ loc'[t].left = loc[t].left

SameConsumer(t) == Consumes(t) => (StoppedAt(pc'[t]) <=> StoppedAt(pc[t]))

\* Whether t pushes a buffer, pops one, pops its sentinel, pops what does not stop
\* it, counts itself, looks at the counter, pushes a sentinel, or does none of these.
Quiet(t) == SameProducer(t) /\ SameConsumer(t) /\ \A n \in Between : queue'[n] = queue[n]

Pushes(t) ==
  /\ Stage(t) \in ProducerStages /\ SameProducer(t) /\ SameConsumer(t)
  /\ ProducerAt(pc[t]) = "produce"
  /\ \E b \in Buffers : Put(NextStage[Stage(t)], b)

PopsBuffer(t) ==
  /\ Consumes(t) /\ SameProducer(t) /\ SameConsumer(t) /\ ~StoppedAt(pc[t])
  /\ Take(Stage(t)) /\ Front(Stage(t)) # Sentinel

PopsStop(t) ==
  /\ Consumes(t) /\ SameProducer(t) /\ ~StoppedAt(pc[t]) /\ StoppedAt(pc'[t])
  /\ Take(Stage(t)) /\ Front(Stage(t)) = Sentinel

PopsElse(t) == ~Consumes(t) /\ SameProducer(t) /\ Take("ser") /\ (Arrow \/ Sink = "pull")

Counts(t) ==
  /\ Stage(t) \in ProducerStages /\ pc[t] = "fetchAdd" /\ pc'[t] = "load"
  /\ finished' = [finished EXCEPT ![Stage(t)] = @ + 1]
  /\ queue' = queue /\ loc'[t].left = loc[t].left

Looks(t) ==
  /\ Stage(t) \in ProducerStages /\ pc[t] = "load" /\ finished' = finished /\ queue' = queue
  /\ IF finished[Stage(t)] = Parallelism[Stage(t)]
     THEN pc'[t] = "signal" /\ loc'[t].left = Parallelism[NextStage[Stage(t)]]
     ELSE pc'[t] = "done" /\ loc'[t].left = loc[t].left

Signals(t) ==
  /\ Stage(t) \in ProducerStages /\ pc[t] = "signal" /\ finished' = finished
  /\ Put(NextStage[Stage(t)], Sentinel) /\ loc'[t].left = loc[t].left - 1
  /\ pc'[t] = IF loc[t].left = 1 THEN "done" ELSE "signal"

Effect(t) ==
  /\ OnlyMoves(t)
  /\ \/ Quiet(t) \/ Pushes(t) \/ PopsBuffer(t) \/ PopsStop(t) \/ PopsElse(t)
     \/ Counts(t) \/ Looks(t) \/ Signals(t)

\* fetch_add, the second look and the sentinels.
LEMMA FinishEffect ==
  ASSUME ClientInv, NEW t \in Threads, Stage(t) \in ProducerStages, Finish(t)
  PROVE  Effect(t)
<1>0. loc \in [Threads -> LocType] /\ loc[t] \in LocType /\ pc \in [Threads -> PCs]
  BY StepFacts
<1>1. CASE FetchAdd(t)
  <2>1. pc[t] = "fetchAdd" /\ pc' = [pc EXCEPT ![t] = "load"] /\ loc' = loc /\ queue' = queue
        /\ finished' = [finished EXCEPT ![Stage(t)] = @ + 1]
    BY <1>1 DEF FetchAdd, Goto
  <2> QED BY <1>0, <2>1 DEF Effect, OnlyMoves, Counts
<1>2. CASE LoadFinished(t)
  <2>1. pc[t] = "load" /\ queue' = queue /\ finished' = finished
    BY <1>2 DEF LoadFinished
  <2>2. CASE finished[Stage(t)] = Parallelism[Stage(t)]
    <3>1. pc' = [pc EXCEPT ![t] = "signal"] /\ loc' = [loc EXCEPT ![t].left = Parallelism[NextStage[Stage(t)]]]
      BY <1>2, <2>2 DEF LoadFinished, Goto
    <3>2. OnlyMoves(t) /\ pc'[t] = "signal" /\ loc'[t].left = Parallelism[NextStage[Stage(t)]]
      BY <1>0, <3>1 DEF OnlyMoves, LocType
    <3> QED BY <2>1, <2>2, <3>2 DEF Effect, Looks
  <2>3. CASE finished[Stage(t)] # Parallelism[Stage(t)]
    <3>1. pc' = [pc EXCEPT ![t] = "done"] /\ loc' = loc
      BY <1>2, <2>3 DEF LoadFinished, Goto
    <3> QED BY <1>0, <2>1, <2>3, <3>1 DEF Effect, Looks, OnlyMoves
  <2> QED BY <2>2, <2>3
<1>3. CASE PushSentinel(t)
  <2>1. /\ pc[t] = "signal" /\ pc' = [pc EXCEPT ![t] = IF loc[t].left = 1 THEN "done" ELSE "signal"]
        /\ loc' = [loc EXCEPT ![t].left = @ - 1] /\ Put(NextStage[Stage(t)], Sentinel) /\ finished' = finished
    BY <1>3 DEF PushSentinel, Goto
  <2>2. /\ OnlyMoves(t) /\ pc'[t] = IF loc[t].left = 1 THEN "done" ELSE "signal"
        /\ loc'[t].left = loc[t].left - 1
    BY <1>0, <2>1 DEF OnlyMoves, LocType
  <2> QED BY <2>1, <2>2 DEF Effect, Signals
<1> QED BY <1>1, <1>2, <1>3 DEF Finish

\* A step at the free queue, or at none.
LEMMA QuietEffect ==
  ASSUME ClientInv, NEW t \in Threads, NEW s, pc' = [pc EXCEPT ![t] = s], SameCounters,
         OnlyMoves(t), loc'[t].left = loc[t].left, \A n \in Between : queue'[n] = queue[n],
         ProducerAt(pc[t]) = ProducerAt(s) \/ Stage(t) = "write",
         (StoppedAt(pc[t]) <=> StoppedAt(s)) \/ ~Consumes(t)
  PROVE  Effect(t)
<1>1. pc'[t] = s
  BY StepFacts
<1> QED BY <1>1 DEF Effect, Quiet, SameProducer, SameConsumer

\* A free buffer taken.
LEMMA PopFreeEffect ==
  ASSUME ClientInv, NEW t \in Threads, NEW from, NEW to, PopFree(t, from, to),
         from = "popFree", to \notin {"load", "signal", "done"}, ~Consumes(t) \/ to # "fetchAdd"
  PROVE  Effect(t)
<1>0. loc \in [Threads -> LocType] /\ loc[t] \in LocType /\ pc \in [Threads -> PCs] /\ QueueTypes
  BY StepFacts
<1>1. /\ pc[t] = from /\ pc' = [pc EXCEPT ![t] = to]
      /\ loc' = [loc EXCEPT ![t].out = Front("free"), ![t].tgt = Front("free")]
      /\ finished' = finished /\ queue' = [queue EXCEPT !["free"] = Tail(@)]
  BY DEF PopFree, Goto, Take
<1>2. OnlyMoves(t) /\ loc'[t].left = loc[t].left
  BY <1>0, <1>1 DEF OnlyMoves, LocType
<1>3. \A n \in Between : queue'[n] = queue[n]
  BY <1>0, <1>1 DEF QueueTypes, QueueNames, Between
<1> QED BY <1>1, <1>2, <1>3, QuietEffect DEF SameCounters, ProducerAt, StoppedAt

\* A buffer handed on.
LEMMA PushOutEffect ==
  ASSUME ClientInv, NEW t \in Threads, Stage(t) \in ProducerStages,
         NEW from, NEW to, PushOut(t, from, to), loc[t].out \in Buffers,
         from \in {"push", "pushFull", "pushLast"}, to \in {"popFree", "release", "refill"}
  PROVE  Effect(t)
<1>0. loc \in [Threads -> LocType] /\ loc[t] \in LocType /\ pc \in [Threads -> PCs]
  BY StepFacts
<1>1. /\ pc[t] = from /\ pc' = [pc EXCEPT ![t] = to] /\ loc' = [loc EXCEPT ![t].out = NoBuffer]
      /\ finished' = finished /\ Put(NextStage[Stage(t)], loc[t].out)
  BY DEF PushOut, Goto
<1>2. OnlyMoves(t) /\ pc'[t] = to /\ loc'[t].left = loc[t].left
  BY <1>0, <1>1 DEF OnlyMoves, LocType
<1>3. SameProducer(t) /\ SameConsumer(t) /\ ProducerAt(pc[t]) = "produce"
  BY <1>1, <1>2 DEF SameProducer, SameCounters, SameConsumer, ProducerAt, StoppedAt
<1> QED BY <1>1, <1>2, <1>3 DEF Effect, Pushes

\* A buffer returned to the free queue.
LEMMA ReleaseInEffect ==
  ASSUME ClientInv, NEW t \in Threads, NEW from, NEW to, ReleaseIn(t, from, to),
         from \in {"release", "dropIn"}, to \in {"pop", "dropOut", "hasNext"}
  PROVE  Effect(t)
<1>0. loc \in [Threads -> LocType] /\ loc[t] \in LocType /\ pc \in [Threads -> PCs] /\ QueueTypes
  BY StepFacts
<1>1. /\ pc[t] = from /\ pc' = [pc EXCEPT ![t] = to] /\ loc' = [loc EXCEPT ![t].in = NoBuffer]
      /\ finished' = finished /\ queue' = [queue EXCEPT !["free"] = Append(@, loc[t].in)]
  BY DEF ReleaseIn, Goto, Put
<1>2. OnlyMoves(t) /\ loc'[t].left = loc[t].left
  BY <1>0, <1>1 DEF OnlyMoves, LocType
<1>3. \A n \in Between : queue'[n] = queue[n]
  BY <1>0, <1>1 DEF QueueTypes, QueueNames, Between
<1> QED BY <1>1, <1>2, <1>3, QuietEffect DEF SameCounters, ProducerAt, StoppedAt

\* A buffer or the sentinel popped.
LEMMA PopInEffect ==
  ASSUME ClientInv, NEW t \in Threads, Stage(t) \in Between, Stage(t) = "ser" => ~Arrow,
         NEW to, NEW end, PopIn(t, to, end),
         to \subseteq {"forward", "popFree", "write", "openFile"},
         Stage(t) = "write" => end = WriteEnd, Stage(t) # "write" => end = "fetchAdd"
  PROVE  Effect(t)
<1>0. loc \in [Threads -> LocType] /\ loc[t] \in LocType /\ pc \in [Threads -> PCs]
  BY StepFacts
<1>1. pc[t] = "pop" /\ Take(From(t)) /\ finished' = finished
  BY DEF PopIn
<1>2. PICK s \in to \cup {end} :
        /\ pc' = [pc EXCEPT ![t] = s]
        /\ IF Front(From(t)) = Sentinel THEN s = end ELSE s \in to
  BY DEF PopIn, Goto
<1>3. OnlyMoves(t) /\ pc'[t] = s /\ loc'[t].left = loc[t].left
  <2>1. \/ loc' = loc
        \/ loc' = [loc EXCEPT ![t].in = Front(From(t)), ![t].off = 0]
    BY DEF PopIn
  <2> QED BY <1>0, <1>2, <2>1 DEF OnlyMoves, LocType
<1>4. SameProducer(t) /\ ~StoppedAt(pc[t])
  BY <1>1, <1>2, <1>3 DEF SameProducer, SameCounters, ProducerAt, StoppedAt
<1>5. CASE Consumes(t)
  <2>1. From(t) = Stage(t) /\ (Stage(t) = "write" => end = "done")
    BY <1>5 DEF From, Consumes, WriteEnd
  <2>2. CASE Front(From(t)) = Sentinel
    <3>1. StoppedAt(pc'[t])
      BY <1>2, <1>3, <2>1, <2>2 DEF StoppedAt
    <3> QED BY <1>1, <1>3, <1>4, <1>5, <2>1, <2>2, <3>1 DEF Effect, PopsStop
  <2>3. CASE Front(From(t)) # Sentinel
    <3>1. ~StoppedAt(pc'[t])
      BY <1>2, <1>3, <2>3 DEF StoppedAt
    <3> QED BY <1>1, <1>3, <1>4, <1>5, <2>1, <2>3, <3>1 DEF Effect, PopsBuffer, SameConsumer
  <2> QED BY <2>2, <2>3
<1>6. CASE ~Consumes(t)
  <2>1. Sink = "pull" /\ From(t) = "ser"
    BY <1>6 DEF Consumes, Between, From
  <2> QED BY <1>1, <1>3, <1>4, <1>6, <2>1 DEF Effect, PopsElse
<1> QED BY <1>5, <1>6

\* A buffer forwarded.
LEMMA ForwardEffect ==
  ASSUME ClientInv, NEW t \in Threads, Stage(t) \in {"decomp", "ser"}, Forward(t)
  PROVE  Effect(t)
<1>0. loc \in [Threads -> LocType] /\ loc[t] \in LocType /\ pc \in [Threads -> PCs] /\ HoldsRight(t, pc[t], loc[t])
  BY StepFacts
<1>1. /\ pc[t] = "forward" /\ pc' = [pc EXCEPT ![t] = "pop"] /\ loc' = [loc EXCEPT ![t].in = NoBuffer]
      /\ finished' = finished /\ Put(NextStage[Stage(t)], loc[t].in)
  BY DEF Forward, Goto
<1>2. OnlyMoves(t) /\ pc'[t] = "pop" /\ loc'[t].left = loc[t].left
  BY <1>0, <1>1 DEF OnlyMoves, LocType
<1>3. SameProducer(t) /\ SameConsumer(t) /\ ProducerAt(pc[t]) = "produce"
  BY <1>1, <1>2 DEF SameProducer, SameCounters, SameConsumer, ProducerAt, StoppedAt
<1>4. loc[t].in \in Buffers
  BY <1>0, <1>1 DEF HoldsRight, InFull
<1> QED BY <1>1, <1>2, <1>3, <1>4 DEF Effect, Pushes, ProducerStages

\* The steps of a receiver.
LEMMA ReceiveEffect ==
  ASSUME ClientInv, NEW t \in Threads, Stage(t) = "rcv", Receive(t)
  PROVE  Effect(t)
<1>0. loc \in [Threads -> LocType] /\ loc[t] \in LocType /\ pc \in [Threads -> PCs] /\ HoldsRight(t, pc[t], loc[t])
  BY StepFacts
<1>1. CASE Connect(t) \/ ConnectFails(t) \/ ReadBuffer(t) \/ EndOfFile(t) \/ ReadFails(t)
  <2>1. PICK s \in {"popFree", "failed", "push", "fetchAdd"} : pc' = [pc EXCEPT ![t] = s]
    BY <1>1 DEF Connect, ConnectFails, ReadBuffer, EndOfFile, ReadFails, Goto
  <2>2. UNCHANGED <<queue, finished, loc>> /\ pc[t] \in {"connect", "read"}
    BY <1>1 DEF Connect, ConnectFails, ReadBuffer, EndOfFile, ReadFails
  <2> QED BY <1>0, <2>1, <2>2, QuietEffect DEF OnlyMoves, ProducerAt, SameCounters, Consumes
<1>2. CASE PopFree(t, "popFree", "read")
  BY <1>2, PopFreeEffect
<1>3. CASE PushOut(t, "push", "popFree")
  <2>1. loc[t].out \in Buffers
    BY <1>0, <1>3 DEF PushOut, HoldsRight, OutFull
  <2> QED BY <1>3, <2>1, PushOutEffect DEF ProducerStages
<1>4. CASE Finish(t)
  BY <1>4, FinishEffect DEF ProducerStages
<1> QED BY <1>1, <1>2, <1>3, <1>4 DEF Receive

\* The steps of a decompressor.
LEMMA DecompressEffect ==
  ASSUME ClientInv, NEW t \in Threads, Stage(t) = "decomp", Decompress(t)
  PROVE  Effect(t)
<1>0. loc \in [Threads -> LocType] /\ loc[t] \in LocType /\ pc \in [Threads -> PCs] /\ QueueTypes
      /\ HoldsRight(t, pc[t], loc[t])
  BY StepFacts
<1>1. CASE PopIn(t, IF Compression THEN {"forward", "popFree"} ELSE {"forward"}, "fetchAdd")
  BY <1>1, PopInEffect DEF Between
<1>2. CASE Forward(t)
  BY <1>2, ForwardEffect
<1>3. CASE PopFree(t, "popFree", "decompress")
  BY <1>3, PopFreeEffect
<1>4. CASE Decode(t) \/ DecodeFails(t)
  <2>1. PICK s \in {"push", "dropIn"} : pc' = [pc EXCEPT ![t] = s]
    BY <1>4 DEF Decode, DecodeFails, Goto
  <2>2. UNCHANGED <<queue, finished, loc>> /\ pc[t] = "decompress"
    BY <1>4 DEF Decode, DecodeFails
  <2> QED BY <1>0, <2>1, <2>2, QuietEffect DEF OnlyMoves, ProducerAt, StoppedAt, SameCounters
<1>5. CASE PushOut(t, "push", "release")
  <2>1. loc[t].out \in Buffers
    BY <1>0, <1>5 DEF PushOut, HoldsRight, OutFull
  <2> QED BY <1>5, <2>1, PushOutEffect DEF ProducerStages
<1>6. CASE ReleaseIn(t, "release", "pop") \/ ReleaseIn(t, "dropIn", "dropOut")
  BY <1>6, ReleaseInEffect
<1>7. CASE DropOut(t)
  <2>1. /\ pc[t] = "dropOut" /\ pc' = [pc EXCEPT ![t] = "pop"] /\ loc' = [loc EXCEPT ![t].out = NoBuffer]
        /\ finished' = finished /\ queue' = [queue EXCEPT !["free"] = Append(@, loc[t].out)]
    BY <1>7 DEF DropOut, Goto, Put
  <2>2. OnlyMoves(t) /\ loc'[t].left = loc[t].left
    BY <1>0, <2>1 DEF OnlyMoves, LocType
  <2>3. \A n \in Between : queue'[n] = queue[n]
    BY <1>0, <2>1 DEF QueueTypes, QueueNames, Between
  <2> QED BY <2>1, <2>2, <2>3, QuietEffect DEF SameCounters, ProducerAt, StoppedAt
<1>8. CASE Finish(t)
  BY <1>8, FinishEffect DEF ProducerStages
<1> QED BY <1>1, <1>2, <1>3, <1>4, <1>5, <1>6, <1>7, <1>8 DEF Decompress

\* The steps of a serializer.
LEMMA SerializeEffect ==
  ASSUME ClientInv, NEW t \in Threads, Stage(t) = "ser", SerializeStage(t)
  PROVE  Effect(t)
<1>0. loc \in [Threads -> LocType] /\ loc[t] \in LocType /\ pc \in [Threads -> PCs] /\ QueueTypes
      /\ HoldsRight(t, pc[t], loc[t]) /\ Sink \in {"csv", "parquet"}
  BY StepFacts, ThreadFacts
<1>1. CASE ~Arrow /\ PopIn(t, {IF SkipSerializer THEN "forward" ELSE "popFree"}, "fetchAdd")
  BY <1>1, PopInEffect DEF Between
<1>2. CASE Arrow /\ PopBoth(t)
  <2>1. /\ pc[t] = "pop" /\ pc' = [pc EXCEPT ![t] = "popFree"] /\ Take("ser") /\ finished' = finished
        /\ loc' = [loc EXCEPT ![t].in = IF Front("ser") = Sentinel THEN NoBuffer ELSE Front("ser")]
    BY <1>2 DEF PopBoth, Goto
  <2>2. OnlyMoves(t) /\ pc'[t] = "popFree" /\ loc'[t].left = loc[t].left
    BY <1>0, <2>1 DEF OnlyMoves, LocType
  <2>3. SameProducer(t) /\ ~Consumes(t)
    BY <1>2, <2>1, <2>2 DEF SameProducer, SameCounters, ProducerAt, Consumes
  <2> QED BY <1>2, <2>1, <2>2, <2>3 DEF Effect, PopsElse
<1>3. CASE PopFree(t, "popFree", AfterPopFree(t))
  <2>1. AfterPopFree(t) \in {"serialize", "fetchAdd", "convert"}
    BY <1>0, AfterPopFreeValue
  <2>2. pc[t] = "popFree"
    BY <1>3 DEF PopFree
  <2>3. ~Arrow => loc[t].in \in Buffers
    BY <1>0, <2>2 DEF HoldsRight, InFull
  <2>4. ~Consumes(t) \/ AfterPopFree(t) # "fetchAdd"
    BY <1>0, <2>3, AfterPopFreeValue, BufferFacts DEF Consumes
  <2> QED BY <1>3, <2>1, <2>4, PopFreeEffect
<1>4. CASE Convert(t) \/ ArrowFails(t)
  <2>1. PICK s \in {"pushLast", "failed"} : pc' = [pc EXCEPT ![t] = s]
    BY <1>4 DEF Convert, ArrowFails, Goto
  <2>2. UNCHANGED <<queue, finished, loc>> /\ pc[t] = "convert"
    BY <1>4 DEF Convert, ArrowFails
  <2> QED BY <1>0, <2>1, <2>2, QuietEffect DEF OnlyMoves, ProducerAt, StoppedAt, SameCounters
<1>5. CASE Serialize(t)
  <2>1. PICK s \in {"undefined", "pushFull", "pushLast", "release"} : pc' = [pc EXCEPT ![t] = s]
    BY <1>5 DEF Serialize, Goto
  <2> DEFINE k == loc[t].off + Least(Len(content[loc[t].in]) - loc[t].off, TextRowsPerBuffer)
  <2>2. UNCHANGED <<queue, finished>> /\ pc[t] = "serialize" /\ (loc' = loc \/ loc' = [loc EXCEPT ![t].off = k])
    BY <1>0, <1>5 DEF Serialize
  <2> HIDE DEF k
  <2>3. OnlyMoves(t) /\ (loc'[t] = loc[t] \/ loc'[t] = [loc[t] EXCEPT !.off = k])
    BY <1>0, <2>1, <2>2 DEF OnlyMoves
  <2>4. loc'[t].left = loc[t].left
    BY <1>0, <2>3 DEF LocType
  <2> QED BY <1>0, <2>1, <2>2, <2>3, <2>4, QuietEffect DEF ProducerAt, StoppedAt, SameCounters
<1>6. CASE PushOut(t, "pushFull", "refill") \/ PushOut(t, "pushLast", "release")
  <2>1. loc[t].out \in Buffers
    BY <1>0, <1>6 DEF PushOut, HoldsRight, OutFull
  <2> QED BY <1>6, <2>1, PushOutEffect DEF ProducerStages
<1>7. CASE Refill(t)
  <2>1. PICK s \in {"undefined", "serialize"} : pc' = [pc EXCEPT ![t] = s]
    BY <1>7 DEF Refill, Goto
  <2> DEFINE x == Front("free")
             y == IF IFormat # 4 THEN loc[t].tgt ELSE Front("free")
  <2>2. /\ finished' = finished /\ queue' = [queue EXCEPT !["free"] = Tail(@)] /\ pc[t] = "refill"
        /\ loc' = [loc EXCEPT ![t].out = x, ![t].tgt = y]
    BY <1>0, <1>7 DEF Refill, Take
  <2> HIDE DEF x, y
  <2>3. OnlyMoves(t) /\ loc'[t].left = loc[t].left
    BY <1>0, <2>1, <2>2 DEF OnlyMoves, LocType
  <2>4. \A n \in Between : queue'[n] = queue[n]
    BY <1>0, <2>2 DEF QueueTypes, QueueNames, Between
  <2> QED BY <2>1, <2>2, <2>3, <2>4, QuietEffect DEF ProducerAt, StoppedAt, SameCounters
<1>8. CASE Forward(t)
  BY <1>8, ForwardEffect
<1>9. CASE ReleaseIn(t, "release", "pop")
  BY <1>9, ReleaseInEffect
<1>10. CASE Finish(t)
  BY <1>10, FinishEffect DEF ProducerStages
<1>11. CASE SerializerDies(t)
  BY <1>11 DEF SerializerDies, Effect, OnlyMoves, Quiet, SameProducer, SameConsumer, SameCounters
<1> QED BY <1>1, <1>2, <1>3, <1>4, <1>5, <1>6, <1>7, <1>8, <1>9, <1>10, <1>11 DEF SerializeStage

\* The steps of a writer.
LEMMA WriteEffect ==
  ASSUME ClientInv, NEW t \in Threads, Stage(t) = "write", Write(t)
  PROVE  Effect(t)
<1>0. loc \in [Threads -> LocType] /\ loc[t] \in LocType /\ pc \in [Threads -> PCs] /\ RestTypes
      /\ HoldsRight(t, pc[t], loc[t])
  BY StepFacts
<1>1. CASE Open(t) \/ WriteBuffer(t) \/ WriteFile(t) \/ WriteFilePast(t)
  <2>1. PICK s \in {"pop", "release", "undefined"} : pc' = [pc EXCEPT ![t] = s]
    BY <1>1 DEF Open, WriteBuffer, WriteFile, WriteFilePast, Goto
  <2>2. UNCHANGED <<queue, finished, loc>> /\ pc[t] \in {"open", "write", "writeFile"}
    BY <1>1 DEF Open, WriteBuffer, WriteFile, WriteFilePast
  <2> QED BY <1>0, <2>1, <2>2, QuietEffect DEF OnlyMoves, StoppedAt, SameCounters
<1>2. CASE OpenFails(t)
  BY <1>2 DEF OpenFails, Effect, OnlyMoves, Quiet, SameProducer, SameConsumer, SameCounters
<1>3. CASE HasNext(t) \/ CountEmpty(t)
  <2>1. pc[t] \in {"hasNext", "invalid"} /\ queue' = queue /\ loc' = loc
    BY <1>3 DEF HasNext, CountEmpty
  <2>2. ~Consumes(t)
    BY <1>0, <2>1 DEF HoldsRight, Consumes
  <2>3. PICK s \in {"done", "pop"} : pc' = [pc EXCEPT ![t] = s]
    BY <1>3 DEF HasNext, CountEmpty, Goto
  <2>4. SameCounters
    BY <1>0, <1>3 DEF HasNext, CountEmpty, SameCounters, ProducerStages, RestTypes
  <2> QED BY <1>0, <2>1, <2>2, <2>3, <2>4, QuietEffect DEF OnlyMoves
<1>4. CASE PopIn(t, {Writing}, WriteEnd)
  BY <1>4, WriterPlaces, PopInEffect DEF Between
<1>5. CASE OpenFile(t)
  <2>1. /\ pc[t] = "openFile" /\ pc' = [pc EXCEPT ![t] = "writeFile"] /\ queue' = queue /\ finished' = finished
        /\ loc' = [loc EXCEPT ![t].suffix = @ + 1]
    BY <1>5 DEF OpenFile, Goto
  <2>2. OnlyMoves(t) /\ loc'[t].left = loc[t].left
    BY <1>0, <2>1 DEF OnlyMoves, LocType
  <2> QED BY <2>1, <2>2, QuietEffect DEF StoppedAt, SameCounters
<1>6. CASE ReleaseIn(t, "release", WriteAgain)
  BY <1>6, WriterPlaces, ReleaseInEffect
<1> QED BY <1>1, <1>2, <1>3, <1>4, <1>5, <1>6 DEF Write

\* Every step of a thread, and of the main thread.
LEMMA StepEffect ==
  ASSUME ClientInv, [Next]_vars
  PROVE  (\E t \in Threads : Effect(t)) \/ UNCHANGED <<pc, loc, queue, finished>>
<1>1. ASSUME NEW t \in Threads, Step(t) PROVE Effect(t)
  BY <1>1, ReceiveEffect, DecompressEffect, SerializeEffect, WriteEffect DEF Step
<1>2. CASE Main
  BY <1>2 DEF Main
<1>3. CASE UNCHANGED vars
  BY <1>3 DEF vars
<1> QED BY <1>1, <1>2, <1>3 DEF Next, Terminated

\* What StageQueue sees of the producers and of the consumers.
Producing(P) == [p \in P |-> ProducerState(p)]
Sentinels(P) == [p \in P |-> loc[p].left]
Consuming(C) == [c \in C |-> ConsumerState(c)]

\* Threads that are no part of a stage, or do not change their part in it, leave it
\* as it is.
LEMMA ProducersSame ==
  ASSUME NEW P, P \subseteq Threads, NEW t \in Threads, OnlyMoves(t),
         t \in P => ProducerAt(pc'[t]) = ProducerAt(pc[t]) /\ loc'[t].left = loc[t].left
  PROVE  Producing(P)' = Producing(P) /\ Sentinels(P)' = Sentinels(P)
<1>1. ASSUME NEW p \in P PROVE ProducerState(p)' = ProducerState(p) /\ loc'[p].left = loc[p].left
  BY DEF OnlyMoves, ProducerState, ProducerAt
<1> QED BY <1>1 DEF Producing, Sentinels

\* Likewise for the consumers.
LEMMA ConsumersSame ==
  ASSUME NEW C, C \subseteq Threads, NEW t \in Threads, OnlyMoves(t),
         t \in C => (StoppedAt(pc'[t]) <=> StoppedAt(pc[t]))
  PROVE  Consuming(C)' = Consuming(C)
<1>1. ASSUME NEW c \in C PROVE ConsumerState(c)' = ConsumerState(c)
  BY DEF OnlyMoves, ConsumerState, StoppedAt
<1> QED BY <1>1 DEF Consuming

\* One thread of a stage changes its part.
LEMMA ProducerMoves ==
  ASSUME NEW P, P \subseteq Threads, NEW t \in P, OnlyMoves(t)
  PROVE  /\ Producing(P)' = [Producing(P) EXCEPT ![t] = ProducerAt(pc'[t])]
         /\ Sentinels(P)' = [Sentinels(P) EXCEPT ![t] = loc'[t].left]
         /\ Producing(P)[t] = ProducerAt(pc[t]) /\ Sentinels(P)[t] = loc[t].left
<1>1. ProducerState(t)' = ProducerAt(pc'[t]) /\ ProducerState(t) = ProducerAt(pc[t])
  BY DEF ProducerState, ProducerAt
<1>2. ASSUME NEW p \in P, p # t PROVE ProducerState(p)' = ProducerState(p) /\ loc'[p].left = loc[p].left
  BY <1>2 DEF OnlyMoves, ProducerState
<1> QED BY <1>1, <1>2 DEF Producing, Sentinels

\* One consumer stops.
LEMMA ConsumerMoves ==
  ASSUME NEW C, C \subseteq Threads, NEW t \in C, OnlyMoves(t)
  PROVE  /\ StoppedAt(pc'[t]) => Consuming(C)' = [Consuming(C) EXCEPT ![t] = "stopped"]
         /\ ~StoppedAt(pc[t]) => Consuming(C)[t] = "running"
<1>1. ConsumerState(t)' = IF StoppedAt(pc'[t]) THEN "stopped" ELSE "running"
  BY DEF ConsumerState, StoppedAt
<1>2. ConsumerState(t) = IF StoppedAt(pc[t]) THEN "stopped" ELSE "running"
  BY DEF ConsumerState, StoppedAt
<1>3. ASSUME NEW c \in C, c # t PROVE ConsumerState(c)' = ConsumerState(c)
  BY <1>3 DEF OnlyMoves, ConsumerState
<1> QED BY <1>1, <1>2, <1>3 DEF Consuming

\* The stages and their sizes.
LEMMA StageFacts ==
  /\ Receivers \subseteq Threads /\ Decomps \subseteq Threads /\ Serializers \subseteq Threads /\ Writers \subseteq Threads
  /\ \A t \in Threads : /\ t \in Receivers <=> Stage(t) = "rcv"
                        /\ t \in Decomps <=> Stage(t) = "decomp"
                        /\ t \in Serializers <=> Stage(t) = "ser"
                        /\ t \in Writers <=> Stage(t) = "write"
  /\ Cardinality(Receivers) = Parallelism["rcv"] /\ Cardinality(Decomps) = Parallelism["decomp"]
  /\ Cardinality(Writers) = Parallelism["write"]
  /\ Sink # "pull" => Cardinality(Serializers) = Parallelism["ser"]
<1>1. ASSUME NEW n \in Nat, NEW s PROVE Cardinality({s} \X (1..n)) = n
  <2> DEFINE f == [i \in 1..n |-> <<s, i>>]
  <2>1. f \in Bijection(1..n, {s} \X (1..n))
    <3>1. f \in Injection(1..n, {s} \X (1..n))
      BY DEF Injection, IsInjective
    <3>2. f \in Surjection(1..n, {s} \X (1..n))
      <4>1. \A p \in {s} \X (1..n) : p[2] \in 1..n /\ f[p[2]] = p
        OBVIOUS
      <4>2. f \in [1..n -> {s} \X (1..n)]
        OBVIOUS
      <4> QED BY <4>1, <4>2 DEF Surjection
    <3> QED BY <3>1, <3>2 DEF Bijection
  <2>2. ExistsBijection(1..n, {s} \X (1..n))
    BY <2>1 DEF ExistsBijection
  <2>3. IsFiniteSet(1..n) /\ Cardinality(1..n) = n
    BY FS_Interval
  <2> QED BY <2>2, <2>3, FS_Bijection
<1>2. /\ Cardinality(Receivers) = Parallelism["rcv"] /\ Cardinality(Decomps) = Parallelism["decomp"]
      /\ Cardinality(Writers) = Parallelism["write"]
      /\ Sink # "pull" => Cardinality(Serializers) = Parallelism["ser"]
  BY <1>1, ParallelismAssumption DEF Receivers, Decomps, Serializers, Writers, Parallelism
<1> QED BY <1>2 DEF Threads, Receivers, Decomps, Serializers, Writers, Stage

\* A step at queue n, between the producers P of stage f and the consumers C.
SameProducers(f, P) ==
  finished'[f] = finished[f] /\ Producing(P)' = Producing(P) /\ Sentinels(P)' = Sentinels(P)

SameConsumers(C) == Consuming(C)' = Consuming(C)

HandOffPush(n, f, P, C) ==
  \E p \in P : \E b \in Buffers :
    /\ Producing(P)[p] = "produce" /\ HasSpace(queue[n], Capacity[n]) /\ queue'[n] = Append(queue[n], b)
    /\ SameProducers(f, P) /\ SameConsumers(C)

HandOffPop(n, f, P, C) ==
  \E c \in C :
    /\ Consuming(C)[c] = "running" /\ queue[n] # <<>> /\ queue'[n] = Tail(queue[n]) /\ SameProducers(f, P)
    /\ \/ Head(queue[n]) # Sentinel /\ SameConsumers(C)
       \/ Head(queue[n]) = Sentinel /\ Consuming(C)' = [Consuming(C) EXCEPT ![c] = "stopped"]

HandOffCount(n, f, P, C) ==
  \E p \in P :
    /\ Producing(P)[p] = "produce" /\ Producing(P)' = [Producing(P) EXCEPT ![p] = "load"]
    /\ finished'[f] = finished[f] + 1 /\ Sentinels(P)' = Sentinels(P)
    /\ queue'[n] = queue[n] /\ SameConsumers(C)

HandOffLook(n, f, P, C) ==
  \E p \in P :
    /\ Producing(P)[p] = "load" /\ finished'[f] = finished[f] /\ queue'[n] = queue[n] /\ SameConsumers(C)
    /\ IF finished[f] = Cardinality(P)
       THEN /\ Producing(P)' = [Producing(P) EXCEPT ![p] = "signal"]
            /\ Sentinels(P)' = [Sentinels(P) EXCEPT ![p] = Cardinality(C)]
       ELSE /\ Producing(P)' = [Producing(P) EXCEPT ![p] = "done"]
            /\ Sentinels(P)' = Sentinels(P)

HandOffSignal(n, f, P, C) ==
  \E p \in P :
    /\ Producing(P)[p] = "signal" /\ HasSpace(queue[n], Capacity[n]) /\ queue'[n] = Append(queue[n], Sentinel)
    /\ Producing(P)' = [Producing(P) EXCEPT ![p] = IF Sentinels(P)[p] = 1 THEN "done" ELSE "signal"]
    /\ Sentinels(P)' = [Sentinels(P) EXCEPT ![p] = Sentinels(P)[p] - 1]
    /\ finished'[f] = finished[f] /\ SameConsumers(C)

HandOffStutter(n, f, P, C) == queue'[n] = queue[n] /\ SameProducers(f, P) /\ SameConsumers(C)

HandOffStep(n, f, P, C) ==
  \/ HandOffPush(n, f, P, C) \/ HandOffPop(n, f, P, C) \/ HandOffCount(n, f, P, C)
  \/ HandOffLook(n, f, P, C) \/ HandOffSignal(n, f, P, C) \/ HandOffStutter(n, f, P, C)

\* P and C are the threads before and after queue n, and nobody else pops there.
HandOffAt(n, f, P, C) ==
  /\ n \in Between /\ f \in ProducerStages /\ NextStage[f] = n /\ f # n
  /\ P \subseteq Threads /\ C \subseteq Threads
  /\ \A t \in Threads : (t \in P <=> Stage(t) = f) /\ (t \in C <=> Stage(t) = n)
  /\ Cardinality(P) = Parallelism[f] /\ Cardinality(C) = Parallelism[n]
  /\ \A t \in C : Consumes(t)
  /\ n = "ser" => ~Arrow /\ Sink # "pull"

\* What a step of a thread is at queue n.
LEMMA EffectHandOff ==
  ASSUME ClientInv, NEW t \in Threads, Effect(t), NEW n, NEW f, NEW P, NEW C, HandOffAt(n, f, P, C)
  PROVE  HandOffStep(n, f, P, C)
<1>0. /\ QueueTypes /\ n \in DOMAIN queue /\ f \in DOMAIN finished /\ finished \in [{"rcv", "decomp", "ser", "empty"} -> Nat]
      /\ loc[t] \in LocType /\ f # "empty"
      /\ Stage(t) \in ProducerStages /\ Stage(t) # f => NextStage[Stage(t)] # n
  BY StepFacts DEF HandOffAt, QueueTypes, QueueNames, RestTypes, Between, ProducerStages, NextStage
<1>1. OnlyMoves(t) /\ P \subseteq Threads /\ C \subseteq Threads /\ (t \in P <=> Stage(t) = f) /\ (t \in C <=> Stage(t) = n)
      /\ f # n /\ n \in Between /\ f # "write" /\ f \in ProducerStages /\ (t \in C => Consumes(t))
  BY DEF Effect, HandOffAt, ProducerStages
<1>2. SameProducer(t) => SameProducers(f, P)
  BY <1>1, ProducersSame DEF SameProducer, SameProducers, SameCounters
<1>3. SameConsumer(t) => SameConsumers(C)
  BY <1>1, ConsumersSame DEF SameConsumer, SameConsumers
<1>4. t \notin P /\ finished'[f] = finished[f] => SameProducers(f, P)
  BY <1>1, ProducersSame DEF SameProducers
<1>5. t \notin C => SameConsumers(C)
  BY <1>1, ConsumersSame DEF SameConsumers
<1>6. CASE Quiet(t)
  BY <1>1, <1>2, <1>3, <1>6 DEF Quiet, HandOffStep, HandOffStutter
<1>7. CASE Pushes(t)
  <2>1. PICK b \in Buffers : Put(NextStage[Stage(t)], b)
    BY <1>7 DEF Pushes
  <2>2. SameProducers(f, P) /\ SameConsumers(C) /\ ProducerAt(pc[t]) = "produce"
    BY <1>2, <1>3, <1>7 DEF Pushes
  <2>3. CASE Stage(t) = f
    <3>1. HasSpace(queue[n], Capacity[n]) /\ queue'[n] = Append(queue[n], b) /\ t \in P
      BY <1>0, <1>1, <2>1, <2>3 DEF Put, HandOffAt
    <3>2. Producing(P)[t] = "produce"
      BY <1>1, <2>2, <3>1, ProducerMoves
    <3> QED BY <2>2, <3>1, <3>2 DEF HandOffStep, HandOffPush
  <2>4. CASE Stage(t) # f
    <3>1. NextStage[Stage(t)] # n
      BY <1>0, <1>7, <2>4 DEF Pushes
    <3>2. queue'[n] = queue[n]
      BY <1>0, <2>1, <3>1 DEF Put
    <3> QED BY <2>2, <3>2 DEF HandOffStep, HandOffStutter
  <2> QED BY <2>3, <2>4
<1>8. CASE PopsBuffer(t) \/ PopsStop(t)
  <2>1. SameProducers(f, P) /\ Take(Stage(t)) /\ ~StoppedAt(pc[t])
    BY <1>2, <1>8 DEF PopsBuffer, PopsStop
  <2>2. CASE Stage(t) = n
    <3>1. t \in C /\ queue[n] # <<>> /\ queue'[n] = Tail(queue[n]) /\ Consuming(C)[t] = "running"
      BY <1>0, <1>1, <2>1, <2>2, ConsumerMoves DEF Take
    <3>2. CASE PopsBuffer(t)
      <4>1. Head(queue[n]) # Sentinel /\ SameConsumers(C)
        BY <1>1, <1>3, <2>2, <3>2 DEF PopsBuffer, Front
      <4> QED BY <2>1, <3>1, <4>1 DEF HandOffStep, HandOffPop
    <3>3. CASE PopsStop(t)
      <4>1. Head(queue[n]) = Sentinel /\ Consuming(C)' = [Consuming(C) EXCEPT ![t] = "stopped"]
        BY <1>1, <2>2, <3>1, <3>3, ConsumerMoves DEF PopsStop, Front
      <4> QED BY <2>1, <3>1, <4>1 DEF HandOffStep, HandOffPop
    <3> QED BY <1>8, <3>2, <3>3
  <2>3. CASE Stage(t) # n
    <3>1. queue'[n] = queue[n]
      BY <1>0, <2>1, <2>3 DEF Take
    <3> QED BY <1>1, <1>5, <2>1, <2>3, <3>1 DEF HandOffStep, HandOffStutter
  <2> QED BY <2>2, <2>3
<1>9. CASE Counts(t)
  <2>1. pc[t] = "fetchAdd" /\ pc'[t] = "load" /\ loc'[t].left = loc[t].left /\ queue' = queue
        /\ finished' = [finished EXCEPT ![Stage(t)] = @ + 1]
    BY <1>9 DEF Counts
  <2>2. SameConsumers(C)
    <3>1. StoppedAt(pc'[t]) <=> StoppedAt(pc[t])
      BY <2>1 DEF StoppedAt
    <3> QED BY <1>3, <3>1, <1>1, ConsumersSame DEF SameConsumers
  <2>3. CASE Stage(t) = f
    <3>1. t \in P /\ finished'[f] = finished[f] + 1
      BY <1>0, <1>1, <2>1, <2>3
    <3>2. Producing(P)[t] = "produce" /\ Producing(P)' = [Producing(P) EXCEPT ![t] = "load"]
          /\ Sentinels(P)' = [Sentinels(P) EXCEPT ![t] = loc'[t].left] /\ Sentinels(P)[t] = loc[t].left
      BY <1>1, <2>1, <3>1, ProducerMoves DEF ProducerAt
    <3>3. Sentinels(P)' = Sentinels(P)
      BY <2>1, <3>1, <3>2 DEF Sentinels
    <3> QED BY <2>1, <2>2, <3>1, <3>2, <3>3 DEF HandOffStep, HandOffCount
  <2>4. CASE Stage(t) # f
    <3>1. finished'[f] = finished[f]
      BY <1>0, <2>1, <2>4
    <3> QED BY <1>1, <1>4, <2>1, <2>2, <2>4, <3>1 DEF HandOffStep, HandOffStutter
  <2> QED BY <2>3, <2>4
<1>10. CASE Looks(t)
  <2>1. pc[t] = "load" /\ pc'[t] \in {"signal", "done"} /\ queue' = queue /\ finished' = finished
    BY <1>10 DEF Looks
  <2>2. SameConsumers(C)
    <3>1. StoppedAt(pc'[t]) <=> StoppedAt(pc[t])
      BY <2>1 DEF StoppedAt
    <3> QED BY <3>1, <1>1, ConsumersSame DEF SameConsumers
  <2>3. CASE Stage(t) = f
    <3>1. t \in P /\ Cardinality(P) = Parallelism[f] /\ Cardinality(C) = Parallelism[NextStage[f]]
      BY <1>1, <2>3 DEF HandOffAt
    <3>2. /\ Producing(P)[t] = "load" /\ Producing(P)' = [Producing(P) EXCEPT ![t] = pc'[t]]
          /\ Sentinels(P)' = [Sentinels(P) EXCEPT ![t] = loc'[t].left] /\ Sentinels(P)[t] = loc[t].left
      BY <1>1, <2>1, <3>1, ProducerMoves DEF ProducerAt
    <3>3. loc'[t].left = loc[t].left => Sentinels(P)' = Sentinels(P)
      BY <3>1, <3>2 DEF Sentinels
    <3>4. IF finished[f] = Cardinality(P)
          THEN pc'[t] = "signal" /\ loc'[t].left = Cardinality(C)
          ELSE pc'[t] = "done" /\ loc'[t].left = loc[t].left
      BY <1>10, <2>3, <3>1 DEF Looks
    <3> QED BY <2>1, <2>2, <3>1, <3>2, <3>3, <3>4 DEF HandOffStep, HandOffLook
  <2>4. CASE Stage(t) # f
    BY <1>1, <1>4, <2>1, <2>2, <2>4 DEF HandOffStep, HandOffStutter
  <2> QED BY <2>3, <2>4
<1>11. CASE Signals(t)
  <2>1. /\ pc[t] = "signal" /\ pc'[t] = (IF loc[t].left = 1 THEN "done" ELSE "signal") /\ finished' = finished
        /\ Put(NextStage[Stage(t)], Sentinel) /\ loc'[t].left = loc[t].left - 1
    BY <1>11 DEF Signals
  <2>2. SameConsumers(C)
    <3>1. StoppedAt(pc'[t]) <=> StoppedAt(pc[t])
      BY <2>1 DEF StoppedAt
    <3> QED BY <3>1, <1>1, ConsumersSame DEF SameConsumers
  <2>3. CASE Stage(t) = f
    <3>1. t \in P /\ HasSpace(queue[n], Capacity[n]) /\ queue'[n] = Append(queue[n], Sentinel)
      BY <1>0, <1>1, <2>1, <2>3 DEF HandOffAt, Put
    <3>2. /\ Producing(P)[t] = "signal" /\ Producing(P)' = [Producing(P) EXCEPT ![t] = pc'[t]]
          /\ Sentinels(P)' = [Sentinels(P) EXCEPT ![t] = loc'[t].left] /\ Sentinels(P)[t] = loc[t].left
      BY <1>1, <2>1, <3>1, ProducerMoves DEF ProducerAt
    <3> QED BY <2>1, <2>2, <3>1, <3>2 DEF HandOffStep, HandOffSignal
  <2>4. CASE Stage(t) # f
    <3>1. NextStage[Stage(t)] # n
      BY <1>0, <1>11, <2>4 DEF Signals
    <3>2. queue'[n] = queue[n]
      BY <1>0, <2>1, <3>1 DEF Put
    <3> QED BY <1>1, <1>4, <2>1, <2>2, <2>4, <3>2 DEF HandOffStep, HandOffStutter
  <2> QED BY <2>3, <2>4
<1>12. CASE PopsElse(t)
  <2>1. t \notin C /\ n # "ser" /\ Take("ser") /\ SameProducers(f, P)
    BY <1>1, <1>2, <1>12 DEF PopsElse, HandOffAt
  <2>2. queue'[n] = queue[n]
    BY <1>0, <2>1 DEF Take
  <2> QED BY <1>5, <2>1, <2>2 DEF HandOffStep, HandOffStutter
<1> QED BY <1>6, <1>7, <1>8, <1>9, <1>10, <1>11, <1>12 DEF Effect

\* A step of the specification is a step, or no step, of every hand-off.
LEMMA HandOffNext ==
  ASSUME ClientInv, [Next]_vars, NEW n, NEW f, NEW P, NEW C, HandOffAt(n, f, P, C)
  PROVE  HandOffStep(n, f, P, C)
<1>1. CASE UNCHANGED <<pc, loc, queue, finished>>
  <2>1. SameProducers(f, P) /\ SameConsumers(C)
    BY <1>1 DEF SameProducers, SameConsumers, Producing, Sentinels, Consuming, ProducerState, ConsumerState
  <2> QED BY <1>1, <2>1 DEF HandOffStep, HandOffStutter
<1> QED BY <1>1, StepEffect, EffectHandOff

\* The hand-off to the decompressors implements StageQueue: receivers push sentinels
\* only after the last buffer of all of them, for every number of threads, also
\* when connections or reads fail.
THEOREM DecompressorsImplement == Spec => DecompHandOff
<1>1. Init => DecompQueue!Init
  <2> SUFFICES ASSUME Init PROVE DecompQueue!Init
    OBVIOUS
  <2>1. /\ queue.decomp = <<>> /\ finished.rcv = 0
        /\ \A t \in Threads : pc[t] = StartPC[Stage(t)] /\ loc[t].left = 0
    BY DEF Init
  <2>2. \A t \in Receivers : ProducerState(t) = "produce"
    BY <2>1, StageFacts, Starts DEF ProducerState
  <2>3. \A t \in Decomps : ConsumerState(t) = "running"
    BY <2>1, StageFacts, Starts DEF ConsumerState
  <2> QED BY <2>1, <2>2, <2>3, StageFacts DEF DecompQueue!Init
<1>2. ASSUME ClientInv, [Next]_vars PROVE [DecompQueue!Next]_(DecompQueue!vars)
  <2>1. HandOffAt("decomp", "rcv", Receivers, Decomps)
    BY StageFacts DEF HandOffAt, NextStage, Between, ProducerStages, Consumes
  <2>2. HandOffStep("decomp", "rcv", Receivers, Decomps)
    BY <1>2, <2>1, HandOffNext
  <2>3. DecompQueue!Cardinality(Receivers) = Cardinality(Receivers) /\ DecompQueue!Cardinality(Decomps) = Cardinality(Decomps)
    BY Zenon DEF DecompQueue!Cardinality, Cardinality
  <2> USE DEF Producing, Sentinels, Consuming, SameProducers, SameConsumers
  <2>4. CASE HandOffPush("decomp", "rcv", Receivers, Decomps)
    BY <2>4 DEF HandOffPush, DecompQueue!Next, DecompQueue!PushBuffer, DecompQueue!HasSpace, HasSpace
  <2>5. CASE HandOffPop("decomp", "rcv", Receivers, Decomps)
    BY <2>5 DEF HandOffPop, DecompQueue!Next, DecompQueue!Consume, DecompQueue!PopBuffer, DecompQueue!PopSentinel,
                DecompQueue!Sentinel, Sentinel
  <2>6. CASE HandOffCount("decomp", "rcv", Receivers, Decomps)
    BY <2>6 DEF HandOffCount, DecompQueue!Next, DecompQueue!Finish, DecompQueue!FetchAdd
  <2>7. CASE HandOffLook("decomp", "rcv", Receivers, Decomps)
    BY <2>3, <2>7 DEF HandOffLook, DecompQueue!Next, DecompQueue!Finish, DecompQueue!LoadFinished
  <2>8. CASE HandOffSignal("decomp", "rcv", Receivers, Decomps)
    BY <2>8 DEF HandOffSignal, DecompQueue!Next, DecompQueue!Finish, DecompQueue!PushSentinel,
                DecompQueue!Sentinel, Sentinel, DecompQueue!HasSpace, HasSpace
  <2>9. CASE HandOffStutter("decomp", "rcv", Receivers, Decomps)
    BY <2>9 DEF HandOffStutter, DecompQueue!vars
  <2> QED BY <2>2, <2>4, <2>5, <2>6, <2>7, <2>8, <2>9 DEF HandOffStep
<1> QED BY <1>1, <1>2, ClientInvariant, PTL DEF Spec, DecompHandOff, DecompQueue!Spec

\* The hand-off to the serializers implements StageQueue, also when buffers cannot
\* be decoded.  It does not with Arrow batches, where a serializer blocks on the
\* free queue after its sentinel, nor where PQSink's serializers return at once.
THEOREM SerializersImplement ==
  ASSUME Sink # "pull", ~Arrow, StartPC["ser"] = "pop"
  PROVE  Spec => SerHandOff
<1>1. Init => SerQueue!Init
  <2> SUFFICES ASSUME Init PROVE SerQueue!Init
    OBVIOUS
  <2>1. /\ queue.ser = <<>> /\ finished.decomp = 0
        /\ \A t \in Threads : pc[t] = StartPC[Stage(t)] /\ loc[t].left = 0
    BY DEF Init
  <2>2. \A t \in Decomps : ProducerState(t) = "produce"
    BY <2>1, StageFacts, Starts DEF ProducerState
  <2>3. \A t \in Serializers : ConsumerState(t) = "running"
    BY <2>1, StageFacts, Starts DEF ConsumerState
  <2> QED BY <2>1, <2>2, <2>3, StageFacts DEF SerQueue!Init
<1>2. ASSUME ClientInv, [Next]_vars PROVE [SerQueue!Next]_(SerQueue!vars)
  <2>1. HandOffAt("ser", "decomp", Decomps, Serializers)
    BY StageFacts DEF HandOffAt, NextStage, Between, ProducerStages, Consumes
  <2>2. HandOffStep("ser", "decomp", Decomps, Serializers)
    BY <1>2, <2>1, HandOffNext
  <2>3. SerQueue!Cardinality(Decomps) = Cardinality(Decomps) /\ SerQueue!Cardinality(Serializers) = Cardinality(Serializers)
    BY Zenon DEF SerQueue!Cardinality, Cardinality
  <2> USE DEF Producing, Sentinels, Consuming, SameProducers, SameConsumers
  <2>4. CASE HandOffPush("ser", "decomp", Decomps, Serializers)
    BY <2>4 DEF HandOffPush, SerQueue!Next, SerQueue!PushBuffer, SerQueue!HasSpace, HasSpace
  <2>5. CASE HandOffPop("ser", "decomp", Decomps, Serializers)
    BY <2>5 DEF HandOffPop, SerQueue!Next, SerQueue!Consume, SerQueue!PopBuffer, SerQueue!PopSentinel,
                SerQueue!Sentinel, Sentinel
  <2>6. CASE HandOffCount("ser", "decomp", Decomps, Serializers)
    BY <2>6 DEF HandOffCount, SerQueue!Next, SerQueue!Finish, SerQueue!FetchAdd
  <2>7. CASE HandOffLook("ser", "decomp", Decomps, Serializers)
    BY <2>3, <2>7 DEF HandOffLook, SerQueue!Next, SerQueue!Finish, SerQueue!LoadFinished
  <2>8. CASE HandOffSignal("ser", "decomp", Decomps, Serializers)
    BY <2>8 DEF HandOffSignal, SerQueue!Next, SerQueue!Finish, SerQueue!PushSentinel,
                SerQueue!Sentinel, Sentinel, SerQueue!HasSpace, HasSpace
  <2>9. CASE HandOffStutter("ser", "decomp", Decomps, Serializers)
    BY <2>9 DEF HandOffStutter, SerQueue!vars
  <2> QED BY <2>2, <2>4, <2>5, <2>6, <2>7, <2>8, <2>9 DEF HandOffStep
<1> QED BY <1>1, <1>2, ClientInvariant, PTL DEF Spec, SerHandOff, SerQueue!Spec

\* The hand-off to the writers implements StageQueue, for CsvSink and PQSink, with
\* every format and fault, and also when text overflows its buffers.
THEOREM WritersImplement ==
  ASSUME Sink # "pull"
  PROVE  Spec => WriteHandOff
<1>1. Init => WriteQueue!Init
  <2> SUFFICES ASSUME Init PROVE WriteQueue!Init
    OBVIOUS
  <2>1. /\ queue.write = <<>> /\ finished.ser = 0
        /\ \A t \in Threads : pc[t] = StartPC[Stage(t)] /\ loc[t].left = 0
    BY DEF Init
  <2>2. \A t \in Serializers : ProducerState(t) = "produce"
    BY <2>1, StageFacts, Starts DEF ProducerState
  <2>3. \A t \in Writers : ConsumerState(t) = "running"
    BY <2>1, StageFacts, Starts DEF ConsumerState
  <2> QED BY <2>1, <2>2, <2>3, StageFacts DEF WriteQueue!Init
<1>2. ASSUME ClientInv, [Next]_vars PROVE [WriteQueue!Next]_(WriteQueue!vars)
  <2>1. HandOffAt("write", "ser", Serializers, Writers)
    BY StageFacts DEF HandOffAt, NextStage, Between, ProducerStages, Consumes
  <2>2. HandOffStep("write", "ser", Serializers, Writers)
    BY <1>2, <2>1, HandOffNext
  <2>3. WriteQueue!Cardinality(Serializers) = Cardinality(Serializers) /\ WriteQueue!Cardinality(Writers) = Cardinality(Writers)
    BY Zenon DEF WriteQueue!Cardinality, Cardinality
  <2> USE DEF Producing, Sentinels, Consuming, SameProducers, SameConsumers
  <2>4. CASE HandOffPush("write", "ser", Serializers, Writers)
    BY <2>4 DEF HandOffPush, WriteQueue!Next, WriteQueue!PushBuffer, WriteQueue!HasSpace, HasSpace
  <2>5. CASE HandOffPop("write", "ser", Serializers, Writers)
    BY <2>5 DEF HandOffPop, WriteQueue!Next, WriteQueue!Consume, WriteQueue!PopBuffer, WriteQueue!PopSentinel,
                WriteQueue!Sentinel, Sentinel
  <2>6. CASE HandOffCount("write", "ser", Serializers, Writers)
    BY <2>6 DEF HandOffCount, WriteQueue!Next, WriteQueue!Finish, WriteQueue!FetchAdd
  <2>7. CASE HandOffLook("write", "ser", Serializers, Writers)
    BY <2>3, <2>7 DEF HandOffLook, WriteQueue!Next, WriteQueue!Finish, WriteQueue!LoadFinished
  <2>8. CASE HandOffSignal("write", "ser", Serializers, Writers)
    BY <2>8 DEF HandOffSignal, WriteQueue!Next, WriteQueue!Finish, WriteQueue!PushSentinel,
                WriteQueue!Sentinel, Sentinel, WriteQueue!HasSpace, HasSpace
  <2>9. CASE HandOffStutter("write", "ser", Serializers, Writers)
    BY <2>9 DEF HandOffStutter, WriteQueue!vars
  <2> QED BY <2>2, <2>4, <2>5, <2>6, <2>7, <2>8, <2>9 DEF HandOffStep
<1> QED BY <1>1, <1>2, ClientInvariant, PTL DEF Spec, WriteHandOff, WriteQueue!Spec

-----------------------------------------------------------------------------
(* What StageQueueProofs shows of a hand-off holds for the client's queues. *)

DecompStage == INSTANCE StageQueueProofs WITH
  Producers <- Receivers, Consumers <- Decomps, Capacity <- Capacity.decomp,
  queue <- queue.decomp, finished <- finished.rcv,
  ppc <- [p \in Receivers |-> ProducerState(p)],
  left <- [p \in Receivers |-> loc[p].left],
  cpc <- [c \in Decomps |-> ConsumerState(c)]

SerStage == INSTANCE StageQueueProofs WITH
  Producers <- Decomps, Consumers <- Serializers, Capacity <- Capacity.ser,
  queue <- queue.ser, finished <- finished.decomp,
  ppc <- [p \in Decomps |-> ProducerState(p)],
  left <- [p \in Decomps |-> loc[p].left],
  cpc <- [c \in Serializers |-> ConsumerState(c)]

WriteStage == INSTANCE StageQueueProofs WITH
  Producers <- Serializers, Consumers <- Writers, Capacity <- Capacity.write,
  queue <- queue.write, finished <- finished.ser,
  ppc <- [p \in Serializers |-> ProducerState(p)],
  left <- [p \in Serializers |-> loc[p].left],
  cpc <- [c \in Writers |-> ConsumerState(c)]

\* The assumptions of StageQueue hold.
LEMMA StageAssumptions ==
  /\ Capacity.decomp \in Nat /\ Capacity.ser \in Nat /\ Capacity.write \in Nat /\ Buffers \subseteq Nat
  /\ IsFiniteSet(Receivers) /\ Receivers # {} /\ IsFiniteSet(Decomps) /\ Decomps # {}
  /\ IsFiniteSet(Writers) /\ Writers # {}
  /\ Sink # "pull" => IsFiniteSet(Serializers) /\ Serializers # {}
<1>1. Capacity.decomp \in Nat /\ Capacity.ser \in Nat /\ Capacity.write \in Nat
  <2>1. TotalWorkers \in Int /\ BuffersInBufferpool \in Int
    BY ParallelismAssumption, SizesAssumption DEF TotalWorkers
  <2>2. BuffersInBufferpool - TotalWorkers \in Int
    BY <2>1
  <2>3. \A n \in Int : AsCapacity(QuarterOf(n)) \in Nat /\ AsCapacity(QuarterOf(n) + RestOfQuarter(n)) \in Nat
    BY DEF AsCapacity, QuarterOf, RestOfQuarter
  <2> QED BY <2>2, <2>3 DEF Capacity, QueueCapacityPerComp, RemainderQueueCapacity
<1>2. ASSUME NEW n \in Nat \ {0}, NEW s PROVE IsFiniteSet({s} \X (1..n)) /\ {s} \X (1..n) # {}
  <2>1. IsFiniteSet({s})
    BY FS_Singleton, Zenon
  <2>2. IsFiniteSet({s}) /\ IsFiniteSet(1..n)
    BY <2>1, FS_Interval
  <2>3. IsFiniteSet({s} \X (1..n))
    BY <2>2, FS_Product
  <2>4. <<s, 1>> \in {s} \X (1..n)
    OBVIOUS
  <2> QED BY <2>3, <2>4
<1> QED BY <1>1, <1>2, BufferFacts, ParallelismAssumption DEF Receivers, Decomps, Serializers, Writers

\* The same specification, by its other name: the queue of the decompressors.
LEMMA DecompStageSpec == DecompHandOff => DecompStage!Spec
<1>1. DecompQueue!Init => DecompStage!Init
  BY DEF DecompQueue!Init, DecompStage!Init
<1>2. [DecompQueue!Next]_(DecompQueue!vars) => [DecompStage!Next]_(DecompStage!vars)
  <2>1. ASSUME NEW p, NEW b, DecompQueue!PushBuffer(p, b) PROVE DecompStage!PushBuffer(p, b)
    BY <2>1 DEF DecompQueue!PushBuffer, DecompStage!PushBuffer, DecompQueue!HasSpace, DecompStage!HasSpace
  <2>2. ASSUME NEW p, DecompQueue!Finish(p) PROVE DecompStage!Finish(p)
    <3>1. DecompQueue!FetchAdd(p) => DecompStage!FetchAdd(p)
      BY Zenon DEF DecompQueue!FetchAdd, DecompStage!FetchAdd
    <3>2. DecompQueue!LoadFinished(p) => DecompStage!LoadFinished(p)
      BY Zenon DEF DecompQueue!LoadFinished, DecompStage!LoadFinished, DecompQueue!Cardinality, DecompStage!Cardinality
    <3>3. DecompQueue!PushSentinel(p) => DecompStage!PushSentinel(p)
      BY Zenon DEF DecompQueue!PushSentinel, DecompStage!PushSentinel, DecompQueue!HasSpace, DecompStage!HasSpace,
                   DecompQueue!Sentinel, DecompStage!Sentinel
    <3> QED BY <2>2, <3>1, <3>2, <3>3 DEF DecompQueue!Finish, DecompStage!Finish
  <2>3. ASSUME NEW c, DecompQueue!Consume(c) PROVE DecompStage!Consume(c)
    BY <2>3, Zenon DEF DecompQueue!Consume, DecompStage!Consume, DecompQueue!PopBuffer, DecompStage!PopBuffer,
                DecompQueue!PopSentinel, DecompStage!PopSentinel, DecompQueue!Sentinel, DecompStage!Sentinel
  <2>4. DecompQueue!vars = DecompStage!vars /\ DecompQueue!vars' = DecompStage!vars'
    BY DEF DecompQueue!vars, DecompStage!vars
  <2> QED BY <2>1, <2>2, <2>3, <2>4 DEF DecompQueue!Next, DecompStage!Next
<1> QED BY <1>1, <1>2, PTL DEF DecompHandOff, DecompQueue!Spec, DecompStage!Spec

\* The same specification, by its other name: the queue of the serializers.
LEMMA SerStageSpec == SerHandOff => SerStage!Spec
<1>1. SerQueue!Init => SerStage!Init
  BY DEF SerQueue!Init, SerStage!Init
<1>2. [SerQueue!Next]_(SerQueue!vars) => [SerStage!Next]_(SerStage!vars)
  <2>1. ASSUME NEW p, NEW b, SerQueue!PushBuffer(p, b) PROVE SerStage!PushBuffer(p, b)
    BY <2>1 DEF SerQueue!PushBuffer, SerStage!PushBuffer, SerQueue!HasSpace, SerStage!HasSpace
  <2>2. ASSUME NEW p, SerQueue!Finish(p) PROVE SerStage!Finish(p)
    <3>1. SerQueue!FetchAdd(p) => SerStage!FetchAdd(p)
      BY Zenon DEF SerQueue!FetchAdd, SerStage!FetchAdd
    <3>2. SerQueue!LoadFinished(p) => SerStage!LoadFinished(p)
      BY Zenon DEF SerQueue!LoadFinished, SerStage!LoadFinished, SerQueue!Cardinality, SerStage!Cardinality
    <3>3. SerQueue!PushSentinel(p) => SerStage!PushSentinel(p)
      BY Zenon DEF SerQueue!PushSentinel, SerStage!PushSentinel, SerQueue!HasSpace, SerStage!HasSpace,
                   SerQueue!Sentinel, SerStage!Sentinel
    <3> QED BY <2>2, <3>1, <3>2, <3>3 DEF SerQueue!Finish, SerStage!Finish
  <2>3. ASSUME NEW c, SerQueue!Consume(c) PROVE SerStage!Consume(c)
    BY <2>3, Zenon DEF SerQueue!Consume, SerStage!Consume, SerQueue!PopBuffer, SerStage!PopBuffer,
                SerQueue!PopSentinel, SerStage!PopSentinel, SerQueue!Sentinel, SerStage!Sentinel
  <2>4. SerQueue!vars = SerStage!vars /\ SerQueue!vars' = SerStage!vars'
    BY DEF SerQueue!vars, SerStage!vars
  <2> QED BY <2>1, <2>2, <2>3, <2>4 DEF SerQueue!Next, SerStage!Next
<1> QED BY <1>1, <1>2, PTL DEF SerHandOff, SerQueue!Spec, SerStage!Spec

\* The same specification, by its other name: the queue of the writers.
LEMMA WriteStageSpec == WriteHandOff => WriteStage!Spec
<1>1. WriteQueue!Init => WriteStage!Init
  BY DEF WriteQueue!Init, WriteStage!Init
<1>2. [WriteQueue!Next]_(WriteQueue!vars) => [WriteStage!Next]_(WriteStage!vars)
  <2>1. ASSUME NEW p, NEW b, WriteQueue!PushBuffer(p, b) PROVE WriteStage!PushBuffer(p, b)
    BY <2>1 DEF WriteQueue!PushBuffer, WriteStage!PushBuffer, WriteQueue!HasSpace, WriteStage!HasSpace
  <2>2. ASSUME NEW p, WriteQueue!Finish(p) PROVE WriteStage!Finish(p)
    <3>1. WriteQueue!FetchAdd(p) => WriteStage!FetchAdd(p)
      BY Zenon DEF WriteQueue!FetchAdd, WriteStage!FetchAdd
    <3>2. WriteQueue!LoadFinished(p) => WriteStage!LoadFinished(p)
      BY Zenon DEF WriteQueue!LoadFinished, WriteStage!LoadFinished, WriteQueue!Cardinality, WriteStage!Cardinality
    <3>3. WriteQueue!PushSentinel(p) => WriteStage!PushSentinel(p)
      BY Zenon DEF WriteQueue!PushSentinel, WriteStage!PushSentinel, WriteQueue!HasSpace, WriteStage!HasSpace,
                   WriteQueue!Sentinel, WriteStage!Sentinel
    <3> QED BY <2>2, <3>1, <3>2, <3>3 DEF WriteQueue!Finish, WriteStage!Finish
  <2>3. ASSUME NEW c, WriteQueue!Consume(c) PROVE WriteStage!Consume(c)
    BY <2>3, Zenon DEF WriteQueue!Consume, WriteStage!Consume, WriteQueue!PopBuffer, WriteStage!PopBuffer,
                WriteQueue!PopSentinel, WriteStage!PopSentinel, WriteQueue!Sentinel, WriteStage!Sentinel
  <2>4. WriteQueue!vars = WriteStage!vars /\ WriteQueue!vars' = WriteStage!vars'
    BY DEF WriteQueue!vars, WriteStage!vars
  <2> QED BY <2>1, <2>2, <2>3, <2>4 DEF WriteQueue!Next, WriteStage!Next
<1> QED BY <1>1, <1>2, PTL DEF WriteHandOff, WriteQueue!Spec, WriteStage!Spec

\* No writer ends while a buffer is on its way: the queues hold nothing but sentinels,
\* and every receiver, decompressor and serializer has handed on its last buffer.
WritersEndLast ==
  (\E w \in Writers : pc[w] = "done") =>
    /\ \A n \in {"decomp", "ser", "write"} : \A i \in 1..Len(queue[n]) : queue[n][i] = Sentinel
    /\ \A t \in Receivers \cup Decomps \cup Serializers : pc[t] \in {"load", "signal", "done"}

\* The sink's threads end last, through all three hand-offs: when main() has joined a
\* writer, nothing that was received is still on its way to a file, in any
\* interleaving of the fetch_adds, loads and sentinels of the stages, whatever
\* connections, reads or codecs failed.
THEOREM NothingLeftUnwritten ==
  ASSUME Sink # "pull", ~Arrow, StartPC["ser"] = "pop"
  PROVE  Spec => []WritersEndLast
<1>1. DecompStage!Spec => []DecompStage!StopsOnlyWhenDrained
  <2>1. DecompStage!IsFiniteSet(Receivers) /\ DecompStage!IsFiniteSet(Decomps)
    <3>1. IsFiniteSet(Receivers) /\ IsFiniteSet(Decomps)
      BY StageAssumptions
    <3> QED BY <3>1, Zenon DEF IsFiniteSet, DecompStage!IsFiniteSet
  <2> QED BY <2>1, StageAssumptions, DecompStage!NoEarlyStop
<1>2. SerStage!Spec => []SerStage!StopsOnlyWhenDrained
  <2>1. SerStage!IsFiniteSet(Decomps) /\ SerStage!IsFiniteSet(Serializers)
    <3>1. IsFiniteSet(Decomps) /\ IsFiniteSet(Serializers)
      BY StageAssumptions
    <3> QED BY <3>1, Zenon DEF IsFiniteSet, SerStage!IsFiniteSet
  <2> QED BY <2>1, StageAssumptions, SerStage!NoEarlyStop
<1>3. WriteStage!Spec => []WriteStage!StopsOnlyWhenDrained
  <2>1. WriteStage!IsFiniteSet(Serializers) /\ WriteStage!IsFiniteSet(Writers)
    <3>1. IsFiniteSet(Serializers) /\ IsFiniteSet(Writers)
      BY StageAssumptions
    <3> QED BY <3>1, Zenon DEF IsFiniteSet, WriteStage!IsFiniteSet
  <2> QED BY <2>1, StageAssumptions, WriteStage!NoEarlyStop
<1>4. ASSUME DecompStage!StopsOnlyWhenDrained, SerStage!StopsOnlyWhenDrained, WriteStage!StopsOnlyWhenDrained
      PROVE  WritersEndLast
  <2> SUFFICES ASSUME NEW w \in Writers, pc[w] = "done"
               PROVE  /\ \A i \in 1..Len(queue.write) : queue.write[i] = Sentinel
                      /\ \A i \in 1..Len(queue.ser) : queue.ser[i] = Sentinel
                      /\ \A i \in 1..Len(queue.decomp) : queue.decomp[i] = Sentinel
                      /\ \A t \in Receivers \cup Decomps \cup Serializers : pc[t] \in {"load", "signal", "done"}
    BY DEF WritersEndLast
  <2>1. ConsumerState(w) = "stopped"
    BY DEF ConsumerState
  <2>2. /\ \A i \in 1..Len(queue.write) : queue.write[i] = Sentinel
        /\ \A s \in Serializers : ProducerState(s) # "produce"
    BY <1>4, <2>1 DEF WriteStage!StopsOnlyWhenDrained, WriteStage!Counted, WriteStage!Sentinel, Sentinel
  <2>3. \A s \in Serializers : pc[s] \in {"load", "signal", "done"} /\ ConsumerState(s) = "stopped"
    BY <2>2 DEF ProducerState, ConsumerState
  <2>4. \E s \in Serializers : ConsumerState(s) = "stopped"
    BY <2>3, StageAssumptions
  <2>5. /\ \A i \in 1..Len(queue.ser) : queue.ser[i] = Sentinel
        /\ \A d \in Decomps : ProducerState(d) # "produce"
    BY <1>4, <2>4 DEF SerStage!StopsOnlyWhenDrained, SerStage!Counted, SerStage!Sentinel, Sentinel
  <2>6. \A d \in Decomps : pc[d] \in {"load", "signal", "done"} /\ ConsumerState(d) = "stopped"
    BY <2>5 DEF ProducerState, ConsumerState
  <2>7. \E d \in Decomps : ConsumerState(d) = "stopped"
    BY <2>6, StageAssumptions
  <2>8. /\ \A i \in 1..Len(queue.decomp) : queue.decomp[i] = Sentinel
        /\ \A r \in Receivers : ProducerState(r) # "produce"
    BY <1>4, <2>7 DEF DecompStage!StopsOnlyWhenDrained, DecompStage!Counted, DecompStage!Sentinel, Sentinel
  <2>9. \A r \in Receivers : pc[r] \in {"load", "signal", "done"}
    BY <2>8 DEF ProducerState
  <2> QED BY <2>2, <2>3, <2>5, <2>6, <2>8, <2>9
<1> QED BY <1>1, <1>2, <1>3, <1>4, DecompStageSpec, SerStageSpec, WriteStageSpec, DecompressorsImplement,
           SerializersImplement, WritersImplement, PTL

-----------------------------------------------------------------------------
(* Rows on their way.  V is a set of places, a buffer and a position in it, and c *)
(* the content of the buffers; S says how often a row was written, D which were   *)
(* dropped and U which the client has not read yet.                               *)

At(c, p) == c[p[1]][p[2]]

\* Every row is in one of four states, and at one place at most: not read, at a
\* place, dropped, or written once.
Accounted(V, c, S, D, U) ==
  /\ \A p \in V : /\ At(c, p) \in Rows /\ S[At(c, p)] = 0
                  /\ At(c, p) \notin D /\ At(c, p) \notin U
  /\ \A p, q \in V : At(c, p) = At(c, q) => p = q
  /\ \A r \in U : r \in Rows /\ S[r] = 0 /\ r \notin D
  /\ \A r \in Rows : S[r] <= IF r \in D THEN 0 ELSE 1
  /\ \A r \in Rows : S[r] = 1 \/ r \in D \/ r \in U \/ \E p \in V : At(c, p) = r

\* Two sets of places are the same if they are so for each buffer.
LEMMA SamePlaces ==
  ASSUME NEW V \in SUBSET (Buffers \X Nat), NEW W \in SUBSET (Buffers \X Nat),
         \A b \in Buffers, i \in Nat : <<b, i>> \in V <=> <<b, i>> \in W
  PROVE  V = W
<1>1. \A p \in Buffers \X Nat : p = <<p[1], p[2]>> /\ p[1] \in Buffers /\ p[2] \in Nat
  OBVIOUS
<1> QED BY <1>1

\* Rows change their places.
LEMMA RowsMoved ==
  ASSUME NEW V, NEW c, NEW S, NEW D, NEW U, Accounted(V, c, S, D, U),
         NEW V2, NEW c2, NEW g \in [V2 -> V],
         \A p, q \in V2 : g[p] = g[q] => p = q, \A q \in V : \E p \in V2 : g[p] = q,
         \A p \in V2 : At(c2, p) = At(c, g[p])
  PROVE  Accounted(V2, c2, S, D, U)
<1>1. ASSUME NEW p \in V2
      PROVE  At(c2, p) \in Rows /\ S[At(c2, p)] = 0 /\ At(c2, p) \notin D /\ At(c2, p) \notin U
  BY DEF Accounted
<1>2. ASSUME NEW p \in V2, NEW q \in V2, At(c2, p) = At(c2, q) PROVE p = q
  <2>1. At(c, g[p]) = At(c, g[q]) /\ g[p] \in V /\ g[q] \in V
    BY <1>2
  <2> QED BY <2>1 DEF Accounted
<1>3. ASSUME NEW r \in Rows PROVE S[r] = 1 \/ r \in D \/ r \in U \/ \E p \in V2 : At(c2, p) = r
  <2> SUFFICES ASSUME NEW q \in V, At(c, q) = r PROVE \E p \in V2 : At(c2, p) = r
    BY DEF Accounted
  <2>1. PICK p \in V2 : g[p] = q
    OBVIOUS
  <2> QED BY <2>1
<1>4. (\A r \in U : r \in Rows /\ S[r] = 0 /\ r \notin D) /\ \A r \in Rows : S[r] <= IF r \in D THEN 0 ELSE 1
  BY DEF Accounted
<1> QED BY <1>1, <1>2, <1>3, <1>4 DEF Accounted

\* Rows from + 1 to from + n of one buffer become the rows of another that had none.
Copies(V, c, V2, c2, src, dst, from, n) ==
  /\ src \in Buffers /\ dst \in Buffers /\ src # dst /\ from \in Nat /\ n \in Nat
  /\ V \in SUBSET (Buffers \X Nat) /\ V2 \in SUBSET (Buffers \X Nat)
  /\ \A i \in Nat : <<dst, i>> \notin V
  /\ \A i \in Nat : <<src, i>> \in V => i > from
  /\ \A i \in 1..n : <<src, from + i>> \in V
  /\ \A b \in Buffers, i \in Nat :
       <<b, i>> \in V2 <=> IF b = dst THEN i \in 1..n ELSE <<b, i>> \in V /\ (b # src \/ i > from + n)
  /\ \A p \in V : p[1] # dst => At(c2, p) = At(c, p)
  /\ \A i \in 1..n : c2[dst][i] = c[src][from + i]

\* They keep one place each.
LEMMA RowsCopied ==
  ASSUME NEW V, NEW c, NEW S, NEW D, NEW U, Accounted(V, c, S, D, U), NEW V2, NEW c2,
         NEW src, NEW dst, NEW from, NEW n, Copies(V, c, V2, c2, src, dst, from, n)
  PROVE  Accounted(V2, c2, S, D, U)
<1> USE DEF Copies
<1>0. V2 = {p \in V : p[1] # src \/ p[2] > from + n} \cup ({dst} \X (1..n))
  <2> DEFINE X == {p \in V : p[1] # src \/ p[2] > from + n} \cup ({dst} \X (1..n))
  <2>1. X \in SUBSET (Buffers \X Nat)
    OBVIOUS
  <2>2. ASSUME NEW b \in Buffers, NEW i \in Nat PROVE <<b, i>> \in V2 <=> <<b, i>> \in X
    OBVIOUS
  <2> HIDE DEF X
  <2>3. V2 = X
    BY <2>1, <2>2, SamePlaces
  <2> QED BY <2>3 DEF X
<1> USE <1>0
<1> DEFINE g == [p \in V2 |-> IF p[1] = dst THEN <<src, from + p[2]>> ELSE p]
<1>1. ASSUME NEW p \in V2
      PROVE  \/ p[1] = dst /\ p[2] \in 1..n /\ p = <<dst, p[2]>>
                /\ g[p] = <<src, from + p[2]>> /\ g[p] \in V
             \/ p \in V /\ p[1] # dst /\ (p[1] # src \/ p[2] > from + n) /\ g[p] = p
                /\ p[2] \in Nat /\ p = <<p[1], p[2]>>
  <2>1. CASE p \in {dst} \X (1..n)
    <3>1. p[1] = dst /\ p[2] \in 1..n /\ p = <<dst, p[2]>>
      BY <2>1
    <3> QED BY <3>1
  <2>2. CASE p \in V /\ (p[1] # src \/ p[2] > from + n)
    <3>1. p = <<p[1], p[2]>> /\ p[2] \in Nat
      BY <2>2
    <3>2. p[1] # dst
      BY <2>2, <3>1
    <3> QED BY <2>2, <3>1, <3>2
  <2> QED BY <2>1, <2>2
<1>2. g \in [V2 -> V]
  BY <1>1
<1> HIDE DEF g
<1>3. ASSUME NEW p \in V2, NEW q \in V2, g[p] = g[q] PROVE p = q
  <2>1. ASSUME NEW a \in V2, NEW b \in V2, a[1] = dst, b[1] # dst PROVE g[a] # g[b]
    <3>1. a[2] \in 1..n /\ g[a] = <<src, from + a[2]>>
      BY <1>1, <2>1
    <3>2. g[b] = b /\ b = <<b[1], b[2]>> /\ (b[1] # src \/ b[2] > from + n)
      BY <1>1, <2>1
    <3> SUFFICES ASSUME b[1] = src, b[2] = from + a[2] PROVE FALSE
      BY <3>1, <3>2
    <3> QED BY <3>1, <3>2
  <2>2. CASE p[1] = dst /\ q[1] = dst
    <3>1. /\ p[2] \in 1..n /\ q[2] \in 1..n /\ <<src, from + p[2]>> = <<src, from + q[2]>>
          /\ p = <<dst, p[2]>> /\ q = <<dst, q[2]>>
      BY <1>1, <1>3, <2>2
    <3>2. from + p[2] = from + q[2]
      BY <3>1
    <3>3. p[2] = q[2]
      BY <3>1, <3>2
    <3> QED BY <3>1, <3>3
  <2>3. CASE p[1] # dst /\ q[1] # dst
    BY <1>1, <1>3, <2>3
  <2> QED BY <1>3, <2>1, <2>2, <2>3
<1>4. ASSUME NEW q \in V PROVE \E p \in V2 : g[p] = q
  <2>1. q = <<q[1], q[2]>> /\ q[2] \in Nat /\ q[1] # dst
    OBVIOUS
  <2>2. CASE q[1] # src \/ q[2] > from + n
    <3>1. q \in V2
      BY <2>2
    <3> QED BY <1>1, <2>1, <3>1
  <2>3. CASE q[1] = src /\ ~(q[2] > from + n)
    <3> DEFINE i == q[2] - from
    <3>1. i \in 1..n /\ q[2] = from + i
      BY <2>1, <2>3
    <3> HIDE DEF i
    <3> DEFINE p == <<dst, i>>
    <3>2. p \in V2 /\ p[1] = dst /\ p[2] = i
      BY <3>1
    <3>3. g[p] = <<src, from + i>>
      BY <3>2 DEF g
    <3> QED BY <2>1, <2>3, <3>1, <3>2, <3>3
  <2> QED BY <2>2, <2>3
<1>5. ASSUME NEW p \in V2 PROVE At(c2, p) = At(c, g[p])
  <2>1. CASE p[1] = dst
    <3>1. p[2] \in 1..n /\ g[p] = <<src, from + p[2]>>
      BY <1>1, <2>1
    <3>2. c2[dst][p[2]] = c[src][from + p[2]]
      BY <3>1
    <3> QED BY <2>1, <3>1, <3>2 DEF At
  <2>2. CASE p[1] # dst
    BY <1>1, <2>2
  <2> QED BY <2>1, <2>2
<1> QED BY <1>2, <1>3, <1>4, <1>5, RowsMoved

\* Rows from + 1 to from + n are read into a buffer that had none.
Reads(V, c, U, V2, c2, U2, dst, from, n) ==
  /\ dst \in Buffers /\ from \in Int /\ n \in Nat
  /\ V \in SUBSET (Buffers \X Nat) /\ V2 \in SUBSET (Buffers \X Nat)
  /\ \A i \in Nat : <<dst, i>> \notin V
  /\ \A b \in Buffers, i \in Nat : <<b, i>> \in V2 <=> IF b = dst THEN i \in 1..n ELSE <<b, i>> \in V
  /\ \A p \in V : p[1] # dst => At(c2, p) = At(c, p)
  /\ \A i \in 1..n : c2[dst][i] = from + i
  /\ U2 \subseteq U /\ \A i \in 1..n : from + i \in U /\ from + i \notin U2
  /\ \A r \in U : r \in U2 \/ r - from \in 1..n

\* Each of them gets one place.
LEMMA RowsRead ==
  ASSUME NEW V, NEW c, NEW S, NEW D, NEW U, Accounted(V, c, S, D, U), NEW V2, NEW c2, NEW U2,
         NEW dst, NEW from, NEW n, Reads(V, c, U, V2, c2, U2, dst, from, n)
  PROVE  Accounted(V2, c2, S, D, U2)
<1> USE DEF Reads
<1>0. V2 = V \cup ({dst} \X (1..n))
  <2> DEFINE X == V \cup ({dst} \X (1..n))
  <2>1. X \in SUBSET (Buffers \X Nat)
    OBVIOUS
  <2>2. ASSUME NEW b \in Buffers, NEW i \in Nat PROVE <<b, i>> \in V2 <=> <<b, i>> \in X
    OBVIOUS
  <2> HIDE DEF X
  <2>3. V2 = X
    BY <2>1, <2>2, SamePlaces
  <2> QED BY <2>3 DEF X
<1> USE <1>0
<1>1. ASSUME NEW p \in V2
      PROVE  \/ p \in V /\ At(c2, p) = At(c, p) /\ At(c2, p) \notin U
             \/ p = <<dst, p[2]>> /\ p[2] \in 1..n /\ At(c2, p) = from + p[2] /\ At(c2, p) \in U
  <2>1. CASE p \in V
    <3>1. p = <<p[1], p[2]>> /\ p[2] \in Nat
      BY <2>1
    <3>2. p[1] # dst
      BY <2>1, <3>1
    <3> QED BY <2>1, <3>2 DEF Accounted
  <2>2. CASE p \in {dst} \X (1..n)
    <3>1. p = <<dst, p[2]>> /\ p[1] = dst /\ p[2] \in 1..n
      BY <2>2
    <3> QED BY <3>1 DEF At
  <2> QED BY <2>1, <2>2
<1>2. \A r \in U : r \in Rows /\ S[r] = 0 /\ r \notin D
  BY DEF Accounted
<1>3. ASSUME NEW p \in V2
      PROVE  At(c2, p) \in Rows /\ S[At(c2, p)] = 0 /\ At(c2, p) \notin D /\ At(c2, p) \notin U2
  <2>1. CASE At(c2, p) \in U
    <3>1. p[2] \in 1..n /\ At(c2, p) = from + p[2]
      BY <1>1, <2>1
    <3>2. At(c2, p) \notin U2
      BY <3>1
    <3> QED BY <1>2, <2>1, <3>2
  <2>2. CASE At(c2, p) \notin U
    BY <1>1, <2>2 DEF Accounted
  <2> QED BY <2>1, <2>2
<1>4. ASSUME NEW p \in V2, NEW q \in V2, At(c2, p) = At(c2, q) PROVE p = q
  <2>1. CASE At(c2, p) \in U
    <3>1. /\ p = <<dst, p[2]>> /\ p[2] \in 1..n /\ At(c2, p) = from + p[2]
          /\ q = <<dst, q[2]>> /\ q[2] \in 1..n /\ At(c2, q) = from + q[2]
      BY <1>1, <1>4, <2>1
    <3>2. \A i, j \in 1..n : from + i = from + j => i = j
      OBVIOUS
    <3>3. from + p[2] = from + q[2]
      BY <1>4, <3>1
    <3>4. p[2] = q[2]
      BY <3>1, <3>2, <3>3
    <3> QED BY <3>1, <3>4
  <2>2. CASE At(c2, p) \notin U
    <3>1. p \in V /\ At(c2, p) = At(c, p)
      BY <1>1, <2>2
    <3>2. q \in V /\ At(c2, q) = At(c, q)
      BY <1>1, <1>4, <2>2
    <3>3. At(c, p) = At(c, q)
      BY <1>4, <3>1, <3>2
    <3> QED BY <3>1, <3>2, <3>3 DEF Accounted
  <2> QED BY <2>1, <2>2
<1>5. ASSUME NEW r \in Rows PROVE S[r] = 1 \/ r \in D \/ r \in U2 \/ \E p \in V2 : At(c2, p) = r
  <2>1. CASE r \in U /\ r \notin U2
    <3> DEFINE i == r - from
    <3>1. i \in 1..n /\ r = from + i
      BY <2>1 DEF Rows
    <3> HIDE DEF i
    <3>2. <<dst, i>> \in V2 /\ At(c2, <<dst, i>>) = r
      BY <3>1 DEF At
    <3> QED BY <3>2
  <2>2. CASE r \notin U
    <3> SUFFICES ASSUME NEW q \in V, At(c, q) = r PROVE \E p \in V2 : At(c2, p) = r
      BY <2>2 DEF Accounted
    <3>1. q = <<q[1], q[2]>> /\ q[2] \in Nat
      OBVIOUS
    <3>2. q \in V2 /\ At(c2, q) = r
      BY <3>1
    <3> QED BY <3>2
  <2> QED BY <2>1, <2>2
<1>6. \A r \in Rows : S[r] <= IF r \in D THEN 0 ELSE 1
  BY DEF Accounted
<1> QED BY <1>2, <1>3, <1>4, <1>5, <1>6 DEF Accounted

\* Rows that have not been read are dropped.
LEMMA RowsSkipped ==
  ASSUME NEW V, NEW c, NEW S, NEW D, NEW U, Accounted(V, c, S, D, U),
         NEW R \in SUBSET U, NEW U2, U2 = U \ R
  PROVE  Accounted(V, c, S, D \cup R, U2)
<1>1. \A p \in V : At(c, p) \notin R
  BY DEF Accounted
<1>2. \A r \in R : r \in Rows /\ S[r] = 0
  BY DEF Accounted
<1> QED BY <1>1, <1>2 DEF Accounted

\* The rows R of buffer src, all of which are at places, are written or dropped.
Leave(V, c, S, D, V2, S2, D2, src, R) ==
  /\ src \in Buffers /\ V \in SUBSET (Buffers \X Nat) /\ V2 \in SUBSET (Buffers \X Nat)
  /\ \A p \in V : p[1] = src => At(c, p) \in R
  /\ \A r \in R : \E p \in V : p[1] = src /\ At(c, p) = r
  /\ \A b \in Buffers, i \in Nat : <<b, i>> \in V2 <=> <<b, i>> \in V /\ b # src
  /\ \/ D2 = D \cup R /\ S2 = S
     \/ D2 = D /\ \A r \in Rows : S2[r] = IF r \in R THEN S[r] + 1 ELSE S[r]

\* They have no place any more.
LEMMA RowsGone ==
  ASSUME NEW V, NEW c, NEW S, NEW D, NEW U, Accounted(V, c, S, D, U), NEW V2, NEW S2, NEW D2,
         NEW src, NEW R, Leave(V, c, S, D, V2, S2, D2, src, R)
  PROVE  Accounted(V2, c, S2, D2, U)
<1> USE DEF Leave
<1>0. V2 = {p \in V : p[1] # src}
  <2> DEFINE X == {p \in V : p[1] # src}
  <2>1. X \in SUBSET (Buffers \X Nat)
    OBVIOUS
  <2>2. ASSUME NEW b \in Buffers, NEW i \in Nat PROVE <<b, i>> \in V2 <=> <<b, i>> \in X
    OBVIOUS
  <2> HIDE DEF X
  <2>3. V2 = X
    BY <2>1, <2>2, SamePlaces
  <2> QED BY <2>3 DEF X
<1> USE <1>0
<1>1. ASSUME NEW p \in V2 PROVE p \in V /\ At(c, p) \notin R
  <2>1. p \in V /\ p[1] # src
    OBVIOUS
  <2>2. ASSUME NEW q \in V, q[1] = src PROVE At(c, q) # At(c, p)
    BY <2>1, <2>2 DEF Accounted
  <2> QED BY <2>1, <2>2
<1>2. \A r \in R : r \in Rows /\ S[r] = 0 /\ r \notin D /\ r \notin U
  BY DEF Accounted
<1>3. ASSUME NEW p \in V2
      PROVE  At(c, p) \in Rows /\ S2[At(c, p)] = 0 /\ At(c, p) \notin D2 /\ At(c, p) \notin U
  BY <1>1 DEF Accounted
<1>4. \A p, q \in V2 : At(c, p) = At(c, q) => p = q
  BY <1>1 DEF Accounted
<1>5. \A r \in U : r \in Rows /\ S2[r] = 0 /\ r \notin D2
  BY <1>2 DEF Accounted
<1>6. ASSUME NEW r \in Rows
      PROVE  /\ S2[r] <= IF r \in D2 THEN 0 ELSE 1
             /\ S2[r] = 1 \/ r \in D2 \/ r \in U \/ \E p \in V2 : At(c, p) = r
  <2>1. /\ S[r] <= IF r \in D THEN 0 ELSE 1
        /\ S[r] = 1 \/ r \in D \/ r \in U \/ \E p \in V : At(c, p) = r
    BY DEF Accounted
  <2>2. CASE r \in R
    BY <1>2, <2>1, <2>2
  <2>3. CASE r \notin R
    <3>1. S2[r] = S[r] /\ (r \in D2 <=> r \in D)
      BY <2>3
    <3>2. ASSUME NEW p \in V, At(c, p) = r PROVE p \in V2
      BY <2>3, <3>2
    <3> QED BY <2>1, <3>1, <3>2
  <2> QED BY <2>2, <2>3
<1> QED BY <1>3, <1>4, <1>5, <1>6 DEF Accounted

-----------------------------------------------------------------------------
\* Where a thread has rows left in the buffer it reads, and in the one it writes.
InLive ==
  [rcv |-> {},
   decomp |-> {"forward", "popFree", "decompress"},
   ser |-> {"forward", "popFree", "serialize", "pushFull", "refill", "pushLast"},
   write |-> {"write"}]

OutLive ==
  [rcv |-> {"push"}, decomp |-> {"push"}, ser |-> {"pushFull", "pushLast"}, write |-> {}]

\* The tuples of the buffer read that a serializer at s has turned into text.
Used(s, v) == IF s \in {"serialize", "pushFull", "refill", "pushLast"} THEN v.off ELSE 0

\* Thread t at s with variables v has the i-th row of buffer b still to hand on.
Alive(t, s, v, b, i) ==
  \/ v.in = b /\ s \in InLive[Stage(t)] /\ i > Used(s, v)
  \/ v.out = b /\ s \in OutLive[Stage(t)]

Waiting(q, b) == \E n \in Between : \E i \in 1..Len(q[n]) : q[n][i] = b

LiveAt(q, P, L, b, i) == Waiting(q, b) \/ \E t \in Threads : Alive(t, P[t], L[t], b, i)

\* The places of rows on their way.
Live(q, P, L, c) ==
  {p \in Buffers \X Nat : p[2] \in 1..Len(c[p[1]]) /\ LiveAt(q, P, L, p[1], p[2])}

\* The rows that the client has not read.
Ahead == ((IncomingBuffers - inFlight) * RowsPerBuffer + 1)..(IncomingBuffers * RowsPerBuffer)

\* With the last text of a buffer, all of its tuples have been used; only PQSink has
\* files to open; and writers do not give up.
RowRight(t, s, v, c) ==
  /\ Stage(t) = "ser" /\ s = "pushLast" => v.off >= Len(c[v.in])
  /\ s \in {"openFile", "writeFile"} => Sink = "parquet"
  /\ s = "failed" => Stage(t) # "write"

RowsKept == Accounted(Live(queue, pc, loc, content), content, written, dropped, Ahead)

RowsInv == (\A t \in Threads : RowRight(t, pc[t], loc[t], content)) /\ RowsKept

\* When main() has joined the writers, they are at their end.
EndInv == main \in {"joinDecomp", "joinRcv", "joined", "done"} => \A w \in Writers : pc[w] = "done"

-----------------------------------------------------------------------------
\* What a thread holds is held by no other, and waits in no queue.
LEMMA HeldAlone ==
  ASSUME ClientInv, NEW t \in Threads, NEW b \in Buffers, b = loc[t].in \/ b = loc[t].out
  PROVE  /\ ~Waiting(queue, b) /\ loc[t].in # loc[t].out
         /\ \A u \in Threads : u # t => loc[u].in # b /\ loc[u].out # b
<1>0. QueueTypes /\ PlaceInv /\ loc \in [Threads -> LocType]
  BY TypeParts DEF ClientInv
<1>1. /\ DOMAIN queue = QueueNames /\ loc \in [Threads -> LocType]
      /\ OnePlace(Buffers, queue, Held)
  BY <1>0 DEF QueueTypes, PlaceInv
<1>2. \A u \in Threads : /\ <<u, "in">> \in DOMAIN Held /\ <<u, "out">> \in DOMAIN Held
                         /\ Held[<<u, "in">>] = loc[u].in /\ Held[<<u, "out">>] = loc[u].out
  BY <1>1 DEF Held, ThreadSlots
<1>3. \A r, s \in DOMAIN Held : Held[r] \in Buffers /\ Held[r] = Held[s] => r = s
  BY <1>1 DEF OnePlace
<1>4. \A n \in QueueNames : \A i \in 1..Len(queue[n]) : \A s \in DOMAIN Held :
        queue[n][i] \in Buffers => queue[n][i] # Held[s]
  BY <1>1 DEF OnePlace
<1>5. ~Waiting(queue, b)
  BY <1>2, <1>4 DEF Waiting, Between, QueueNames
<1>6. loc[t].in # loc[t].out
  <2>1. <<t, "in">> # <<t, "out">>
    OBVIOUS
  <2>2. Held[<<t, "in">>] # Held[<<t, "out">>]
    BY <1>2, <1>3, <2>1
  <2> QED BY <1>2, <2>2
<1>7. ASSUME NEW u \in Threads, u # t PROVE loc[u].in # b /\ loc[u].out # b
  <2>1. <<u, "in">> # <<t, "in">> /\ <<u, "in">> # <<t, "out">>
        /\ <<u, "out">> # <<t, "in">> /\ <<u, "out">> # <<t, "out">>
    BY <1>7
  <2> QED BY <1>2, <1>3, <2>1
<1> QED BY <1>5, <1>6, <1>7

\* What is popped waited where it was popped from and nowhere else.
LEMMA TakeAlone ==
  ASSUME ClientInv, NEW name \in QueueNames, Take(name)
  PROVE  /\ \A b \in Buffers : Waiting(queue', b) <=> Waiting(queue, b) /\ b # Front(name)
         /\ Front(name) \in Buffers =>
              /\ Waiting(queue, Front(name)) <=> name # "free"
              /\ \A u \in Threads : loc[u].in # Front(name) /\ loc[u].out # Front(name)
<1>0. QueueTypes /\ PlaceInv /\ loc \in [Threads -> LocType]
  BY TypeParts DEF ClientInv
<1>1. /\ DOMAIN queue = QueueNames /\ loc \in [Threads -> LocType] /\ QueueTypes
      /\ OnePlace(Buffers, queue, Held)
  BY <1>0 DEF QueueTypes, PlaceInv
<1>2. \A u \in Threads : /\ <<u, "in">> \in DOMAIN Held /\ <<u, "out">> \in DOMAIN Held
                         /\ Held[<<u, "in">>] = loc[u].in /\ Held[<<u, "out">>] = loc[u].out
  BY <1>1 DEF Held, ThreadSlots
<1>3. /\ queue[name] \in Seq(Buffers \cup {Sentinel}) /\ queue[name] # <<>>
      /\ queue' = [queue EXCEPT ![name] = Tail(@)]
  BY <1>1, QueueElements DEF Take
<1>4. /\ Front(name) = queue[name][1] /\ 1 \in 1..Len(queue[name])
      /\ Len(Tail(queue[name])) = Len(queue[name]) - 1 /\ Len(queue[name]) \in Nat
      /\ \A i \in 1..Len(Tail(queue[name])) :
           Tail(queue[name])[i] = queue[name][i+1] /\ i+1 \in 1..Len(queue[name])
  BY <1>3, TailElements DEF Front
<1>5. \A n \in QueueNames : queue'[n] = IF n = name THEN Tail(queue[n]) ELSE queue[n]
  BY <1>1, <1>3
<1>6. \A m, n \in QueueNames : \A i \in 1..Len(queue[m]), j \in 1..Len(queue[n]) :
        queue[m][i] \in Buffers /\ queue[m][i] = queue[n][j] => m = n /\ i = j
  BY <1>1 DEF OnePlace
<1>7. \A n \in Between : n \in QueueNames /\ n # "free"
  BY DEF Between, QueueNames
<1>8. ASSUME NEW b \in Buffers, Waiting(queue', b) PROVE Waiting(queue, b) /\ b # Front(name)
  <2>1. PICK n \in Between : \E i \in 1..Len(queue'[n]) : queue'[n][i] = b
    BY <1>8 DEF Waiting
  <2>2. PICK i \in 1..Len(queue'[n]) : queue'[n][i] = b
    BY <2>1
  <2>3. CASE n = name
    <3>1. i \in 1..Len(Tail(queue[name])) /\ Tail(queue[name])[i] = b
      BY <1>5, <1>7, <2>2, <2>3
    <3>2. queue[name][i+1] = b /\ i + 1 \in 1..Len(queue[name]) /\ i + 1 # 1
      BY <1>4, <3>1
    <3> QED BY <1>4, <1>6, <2>3, <3>2 DEF Waiting
  <2>4. CASE n # name
    <3>1. i \in 1..Len(queue[n]) /\ queue[n][i] = b
      BY <1>5, <1>7, <2>2, <2>4
    <3>2. b # queue[name][1]
      BY <1>4, <1>6, <1>7, <2>4, <3>1
    <3> QED BY <1>4, <3>1, <3>2 DEF Waiting
  <2> QED BY <2>3, <2>4
<1>9. ASSUME NEW b \in Buffers, Waiting(queue, b), b # Front(name) PROVE Waiting(queue', b)
  <2>1. PICK n \in Between : \E i \in 1..Len(queue[n]) : queue[n][i] = b
    BY <1>9 DEF Waiting
  <2>2. PICK i \in 1..Len(queue[n]) : queue[n][i] = b
    BY <2>1
  <2>3. CASE n = name
    <3>1. i # 1
      BY <1>4, <1>9, <2>2, <2>3
    <3>2. i - 1 \in 1..Len(Tail(queue[name]))
      BY <1>4, <2>2, <2>3, <3>1
    <3>3. Tail(queue[name])[i - 1] = queue[name][(i - 1) + 1] /\ (i - 1) + 1 = i
      BY <1>4, <3>2
    <3> QED BY <1>5, <1>7, <2>2, <2>3, <3>2, <3>3 DEF Waiting
  <2>4. CASE n # name
    BY <1>5, <1>7, <2>2, <2>4 DEF Waiting
  <2> QED BY <2>3, <2>4
<1>10. ASSUME Front(name) \in Buffers
       PROVE  /\ Waiting(queue, Front(name)) <=> name # "free"
              /\ \A u \in Threads : loc[u].in # Front(name) /\ loc[u].out # Front(name)
  <2>1. name # "free" => name \in Between
    BY DEF Between, QueueNames
  <2>2. name # "free" => Waiting(queue, Front(name))
    BY <1>4, <2>1 DEF Waiting
  <2>3. name = "free" => ~Waiting(queue, Front(name))
    BY <1>4, <1>6, <1>7, <1>10 DEF Waiting
  <2>4. \A s \in DOMAIN Held : queue[name][1] # Held[s]
    BY <1>1, <1>4, <1>10 DEF OnePlace
  <2> QED BY <1>2, <1>4, <2>2, <2>3, <2>4
<1> QED BY <1>8, <1>9, <1>10

\* What is pushed waits, unless it is free.
LEMMA PutWaits ==
  ASSUME ClientInv, NEW name \in QueueNames, NEW x \in Buffers \cup {Sentinel}, Put(name, x)
  PROVE  \A b \in Buffers : Waiting(queue', b) <=> Waiting(queue, b) \/ (name # "free" /\ b = x)
<1>0. QueueTypes
  BY TypeParts DEF ClientInv
<1>1. DOMAIN queue = QueueNames /\ QueueTypes
  BY <1>0 DEF QueueTypes
<1>2. queue[name] \in Seq(Buffers \cup {Sentinel}) /\ queue' = [queue EXCEPT ![name] = Append(@, x)]
  BY <1>1, QueueElements DEF Put
<1>3. /\ Len(Append(queue[name], x)) = Len(queue[name]) + 1 /\ Len(queue[name]) \in Nat
      /\ \A i \in 1..Len(Append(queue[name], x)) :
           Append(queue[name], x)[i] = IF i = Len(queue[name]) + 1 THEN x ELSE queue[name][i]
  BY <1>2, AppendElements
<1>4. \A n \in QueueNames : queue'[n] = IF n = name THEN Append(queue[n], x) ELSE queue[n]
  BY <1>1, <1>2
<1>9. Len(queue'[name]) = Len(queue[name]) + 1
      /\ \A i \in 1..(Len(queue[name]) + 1) :
           queue'[name][i] = IF i = Len(queue[name]) + 1 THEN x ELSE queue[name][i]
  BY <1>3, <1>4
<1>5. \A n \in Between : n \in QueueNames /\ n # "free"
  BY DEF Between, QueueNames
<1>6. ASSUME NEW b \in Buffers, Waiting(queue', b)
      PROVE  Waiting(queue, b) \/ (name # "free" /\ b = x)
  <2>1. PICK n \in Between : \E i \in 1..Len(queue'[n]) : queue'[n][i] = b
    BY <1>6 DEF Waiting
  <2>2. PICK i \in 1..Len(queue'[n]) : queue'[n][i] = b
    BY <2>1
  <2>3. CASE n = name /\ i = Len(queue[name]) + 1
    BY <1>9, <2>2, <2>3, <1>5
  <2>4. CASE n = name /\ i # Len(queue[name]) + 1
    <3>1. i \in 1..Len(queue[n]) /\ queue[n][i] = b
      BY <1>3, <1>9, <2>2, <2>4
    <3> QED BY <3>1 DEF Waiting
  <2>5. CASE n # name
    BY <1>4, <1>5, <2>2, <2>5 DEF Waiting
  <2> QED BY <2>3, <2>4, <2>5
<1>7. ASSUME NEW b \in Buffers, Waiting(queue, b) PROVE Waiting(queue', b)
  <2>1. PICK n \in Between : \E i \in 1..Len(queue[n]) : queue[n][i] = b
    BY <1>7 DEF Waiting
  <2>2. PICK i \in 1..Len(queue[n]) : queue[n][i] = b
    BY <2>1
  <2>3. i \in 1..Len(queue'[n]) /\ queue'[n][i] = b
    <3>1. CASE n = name
      BY <1>3, <1>9, <2>2, <3>1
    <3>2. CASE n # name
      BY <1>4, <1>5, <2>2, <3>2
    <3> QED BY <3>1, <3>2
  <2> QED BY <2>3 DEF Waiting
<1>8. ASSUME name # "free" PROVE Waiting(queue', x)
  <2>1. name \in Between
    BY <1>8 DEF Between, QueueNames
  <2>2. Len(queue[name]) + 1 \in 1..Len(queue'[name]) /\ queue'[name][Len(queue[name]) + 1] = x
    BY <1>3, <1>9
  <2> QED BY <2>1, <2>2 DEF Waiting
<1> QED BY <1>6, <1>7, <1>8

-----------------------------------------------------------------------------
\* The places of rows.
LEMMA LivePlaces ==
  ASSUME NEW q, NEW P, NEW L, NEW c
  PROVE  /\ Live(q, P, L, c) \in SUBSET (Buffers \X Nat)
         /\ \A b \in Buffers, i \in Nat :
              <<b, i>> \in Live(q, P, L, c) <=> i \in 1..Len(c[b]) /\ LiveAt(q, P, L, b, i)
BY DEF Live

\* What is live about a buffer that concerns no other thread.
LEMMA LiveHere ==
  ASSUME NEW q, NEW P, NEW L, NEW t \in Threads, NEW b \in Buffers, NEW i,
         \A u \in Threads : u # t => L[u].in # b /\ L[u].out # b
  PROVE  LiveAt(q, P, L, b, i) <=> Waiting(q, b) \/ Alive(t, P[t], L[t], b, i)
<1>1. \A u \in Threads : u # t => ~Alive(u, P[u], L[u], b, i)
  BY DEF Alive
<1> QED BY <1>1 DEF LiveAt

\* A step that leaves the queues and its own part of a buffer alone, or moves the
\* buffer between the two, changes nothing for the buffer.
LEMMA LiveSame ==
  ASSUME ClientInv, NEW t \in Threads, NEW s, NEW v, ThreadStep(t, s, v), NEW b \in Buffers, NEW i,
         Waiting(queue, b) \/ Alive(t, pc[t], loc[t], b, i) <=> Waiting(queue', b) \/ Alive(t, s, v, b, i)
  PROVE  LiveAt(queue, pc, loc, b, i) <=> LiveAt(queue', pc', loc', b, i)
<1>1. /\ pc'[t] = s /\ loc'[t] = v
      /\ \A u \in Threads : u # t => pc'[u] = pc[u] /\ loc'[u] = loc[u]
  BY StepFacts DEF ThreadStep
<1>2. LiveAt(queue, pc, loc, b, i) <=> \/ Waiting(queue, b) \/ Alive(t, pc[t], loc[t], b, i)
                                      \/ \E u \in Threads \ {t} : Alive(u, pc[u], loc[u], b, i)
  BY DEF LiveAt
<1>3. LiveAt(queue', pc', loc', b, i) <=> \/ Waiting(queue', b) \/ Alive(t, s, v, b, i)
                                          \/ \E u \in Threads \ {t} : Alive(u, pc[u], loc[u], b, i)
  BY <1>1 DEF LiveAt
<1> QED BY <1>2, <1>3

\* The other threads keep what RowRight says of them.
LEMMA RightKept ==
  ASSUME ClientInv, TextFits, RowsInv, NEW t \in Threads, NEW s, NEW v, ThreadStep(t, s, v),
         ContentStep(t), RowRight(t, s, v, content')
  PROVE  \A u \in Threads : RowRight(u, pc'[u], loc'[u], content')
<1> SUFFICES ASSUME NEW u \in Threads, u # t PROVE RowRight(u, pc'[u], loc'[u], content')
  BY StepFacts DEF ThreadStep
<1>1. pc'[u] = pc[u] /\ loc'[u] = loc[u] /\ RowRight(u, pc[u], loc[u], content)
  BY StepFacts DEF ThreadStep, RowsInv
<1>2. Stage(u) = "ser" /\ pc[u] = "pushLast" => content'[loc[u].in] = content[loc[u].in]
  <2> SUFFICES ASSUME Stage(u) = "ser", pc[u] = "pushLast"
               PROVE  content'[loc[u].in] = content[loc[u].in]
    OBVIOUS
  <2>1. loc[u].in \in Buffers
    BY StepFacts DEF HoldsRight, InFull
  <2>2. loc[u].in # loc[t].out
    BY <2>1, HeldAlone
  <2> QED BY <2>1, <2>2 DEF ContentStep
<1> QED BY <1>1, <1>2 DEF RowRight

\* Rows that no thread touches.
NoRowTouched == UNCHANGED <<content, inFlight, dropped, written>>

\* A step in which no row moves, but for the places of buffers.
LEMMA SameRows ==
  ASSUME ClientInv, TextFits, RowsInv, NEW t \in Threads, NEW s, NEW v, ThreadStep(t, s, v),
         NoRowTouched, RowRight(t, s, v, content),
         \A b \in Buffers : \A i \in 1..Len(content[b]) :
           Waiting(queue, b) \/ Alive(t, pc[t], loc[t], b, i) <=> Waiting(queue', b) \/ Alive(t, s, v, b, i)
  PROVE  RowsInv'
<1>1. \A b \in Buffers : \A i \in 1..Len(content[b]) :
        LiveAt(queue, pc, loc, b, i) <=> LiveAt(queue', pc', loc', b, i)
  BY LiveSame
<1>2. Live(queue', pc', loc', content') = Live(queue, pc, loc, content)
  BY <1>1 DEF Live, NoRowTouched
<1>3. Ahead' = Ahead /\ ContentStep(t)
  BY ContentSame DEF Ahead, NoRowTouched
<1>4. Accounted(Live(queue', pc', loc', content'), content', written', dropped', Ahead')
  BY <1>2, <1>3 DEF RowsInv, RowsKept, NoRowTouched
<1>5. \A u \in Threads : RowRight(u, pc'[u], loc'[u], content')
  BY <1>3, RightKept DEF NoRowTouched
<1>6. RowsKept' <=> Accounted(Live(queue', pc', loc', content'), content', written', dropped', Ahead')
  BY DEF RowsKept, Live, LiveAt, Waiting, Accounted, At, Alive, Used
<1> QED BY <1>4, <1>5, <1>6 DEF RowsInv, RowRight

\* A thread without rows.
Idle(t, s) ==
  /\ s \notin InLive[Stage(t)] /\ s \notin OutLive[Stage(t)]
  /\ s \notin {"openFile", "writeFile"} /\ (s = "failed" => Stage(t) # "write")

\* It has no row alive.
LEMMA IdleRight ==
  ASSUME NEW t \in Threads, NEW s, NEW v, NEW c, Idle(t, s)
  PROVE  RowRight(t, s, v, c) /\ \A b, i : ~Alive(t, s, v, b, i)
BY DEF Idle, RowRight, Alive, OutLive

\* A step of such a thread that leaves it without rows.
LEMMA IdleStep ==
  ASSUME ClientInv, TextFits, RowsInv, NEW t \in Threads, NEW s, NEW v, ThreadStep(t, s, v),
         NoRowTouched, Idle(t, pc[t]), Idle(t, s),
         \A b \in Buffers : Waiting(queue', b) <=> Waiting(queue, b)
  PROVE  RowsInv'
<1>1. RowRight(t, s, v, content) /\ \A b, i : ~Alive(t, s, v, b, i) /\ ~Alive(t, pc[t], loc[t], b, i)
  BY IdleRight
<1> QED BY <1>1, SameRows

\* One that touches no queue.
LEMMA IdleGoto ==
  ASSUME ClientInv, TextFits, RowsInv, NEW t \in Threads, NEW s \in PCs, Goto(t, s), loc' = loc,
         queue' = queue, NoRowTouched, Idle(t, pc[t]), Idle(t, s)
  PROVE  RowsInv'
<1>1. ThreadStep(t, s, loc[t])
  BY StepFacts DEF ThreadStep, Goto
<1>2. \A b \in Buffers : Waiting(queue', b) <=> Waiting(queue, b)
  OBVIOUS
<1> QED BY <1>1, <1>2, IdleStep

\* Where threads have no rows.
LEMMA IdlePlaces ==
  ASSUME NEW t \in Threads
  PROVE  /\ \A s \in {"connect", "read", "pop", "release", "dropIn", "dropOut", "open", "hasNext",
                      "invalid", "fetchAdd", "load", "signal", "done", "undefined"} : Idle(t, s)
         /\ Stage(t) = "rcv" => Idle(t, "popFree")
         /\ Stage(t) # "write" => Idle(t, "failed")
<1>1. Stage(t) \in {"rcv", "decomp", "ser", "write"}
  BY ThreadFacts
<1> QED BY <1>1 DEF Idle, InLive, OutLive

-----------------------------------------------------------------------------
\* fetch_add, the second look at the counter, and the sentinels.
LEMMA FinishRows ==
  ASSUME ClientInv, TextFits, RowsInv, NEW t \in Threads, Stage(t) \in {"rcv", "decomp", "ser"}, Finish(t)
  PROVE  RowsInv'
<1>0. loc \in [Threads -> LocType] /\ loc[t] \in LocType /\ HoldsRight(t, pc[t], loc[t])
  BY StepFacts
<1>1. CASE FetchAdd(t)
  BY <1>1, IdleGoto, IdlePlaces DEF FetchAdd, NoRowTouched, PCs
<1>2. CASE LoadFinished(t) /\ finished[Stage(t)] # Parallelism[Stage(t)]
  <2>1. /\ Goto(t, "done") /\ pc[t] = "load" /\ loc' = loc /\ queue' = queue /\ NoRowTouched
    BY <1>2 DEF LoadFinished, NoRowTouched
  <2> QED BY <2>1, IdleGoto, IdlePlaces DEF PCs
<1>3. CASE LoadFinished(t) /\ finished[Stage(t)] = Parallelism[Stage(t)]
  <2> DEFINE v == [loc[t] EXCEPT !.left = Parallelism[NextStage[Stage(t)]]]
  <2>1. /\ pc' = [pc EXCEPT ![t] = "signal"] /\ loc' = [loc EXCEPT ![t] = v]
        /\ pc[t] = "load" /\ queue' = queue /\ NoRowTouched
    BY <1>0, <1>3 DEF LoadFinished, Goto, NoRowTouched
  <2>2. v \in LocType
    BY <1>0, ThreadFacts, LocUpdate
  <2> HIDE DEF v
  <2>3. ThreadStep(t, "signal", v)
    BY <2>1, <2>2 DEF ThreadStep, PCs
  <2>4. \A b \in Buffers : Waiting(queue', b) <=> Waiting(queue, b)
    BY <2>1
  <2> QED BY <2>1, <2>3, <2>4, IdleStep, IdlePlaces
<1>4. CASE PushSentinel(t)
  <2> DEFINE v == [loc[t] EXCEPT !.left = @ - 1]
             s == IF loc[t].left = 1 THEN "done" ELSE "signal"
             next == NextStage[Stage(t)]
  <2>1. /\ pc' = [pc EXCEPT ![t] = s] /\ loc' = [loc EXCEPT ![t] = v] /\ Put(next, Sentinel)
        /\ pc[t] = "signal" /\ NoRowTouched
    BY <1>0, <1>4 DEF PushSentinel, Goto, NoRowTouched
  <2>2. loc[t].left - 1 \in Nat
    BY <1>0, <2>1 DEF LocType, HoldsRight
  <2>3. v \in LocType
    BY <1>0, <2>2, LocUpdate
  <2>4. s \in {"done", "signal"} /\ next \in QueueNames
    BY ThreadFacts DEF QueueNames
  <2> HIDE DEF v, s, next
  <2>5. ThreadStep(t, s, v)
    BY <2>1, <2>3, <2>4 DEF ThreadStep, PCs
  <2>6. \A b \in Buffers : Waiting(queue', b) <=> Waiting(queue, b)
    BY <2>1, <2>4, PutWaits, BufferFacts
  <2> QED BY <2>1, <2>4, <2>5, <2>6, IdleStep, IdlePlaces
<1> QED BY <1>1, <1>2, <1>3, <1>4 DEF Finish, LoadFinished

\* A buffer or a sentinel is popped.
LEMMA PopInRows ==
  ASSUME ClientInv, TextFits, RowsInv, NEW t \in Threads, NEW to \in SUBSET PCs, NEW end \in PCs,
         PopIn(t, to, end), Idle(t, end), Stage(t) # "rcv",
         \A s \in to : s \in InLive[Stage(t)] \ OutLive[Stage(t)] /\ s \in {"forward", "popFree", "write"}
  PROVE  RowsInv'
<1> DEFINE name == From(t)
           x == Front(name)
<1>0. loc \in [Threads -> LocType] /\ loc[t] \in LocType
  BY StepFacts
<1>1. pc[t] = "pop" /\ Take(name) /\ NoRowTouched
  BY DEF PopIn, NoRowTouched
<1>2. name \in QueueNames /\ name # "free"
  BY ThreadFacts DEF QueueNames, From
<1>3. CASE x = Sentinel
  <2>1. Goto(t, end) /\ loc' = loc
    BY <1>3 DEF PopIn
  <2>2. ThreadStep(t, end, loc[t])
    BY <1>0, <2>1 DEF ThreadStep, Goto
  <2>3. \A b \in Buffers : Waiting(queue', b) <=> Waiting(queue, b)
    BY <1>1, <1>2, <1>3, TakeAlone, BufferFacts
  <2> QED BY <1>1, <2>2, <2>3, IdleStep, IdlePlaces
<1>4. CASE x # Sentinel
  <2>1. PICK s \in to : pc' = [pc EXCEPT ![t] = s]
    BY <1>4 DEF PopIn, Goto
  <2>2. loc' = [loc EXCEPT ![t] = PoppedIn(t)]
    BY <1>0, <1>4 DEF PopIn, PoppedIn
  <2>3. x \in Buffers
    BY <1>1, <1>2, <1>4, FrontType
  <2>4. PoppedIn(t) \in LocType /\ PoppedIn(t).in = x
    <3> DEFINE w == [loc[t] EXCEPT !.in = x]
    <3>1. w \in LocType /\ w.in = x
      BY <1>0, <2>3, LocUpdate
    <3>2. PoppedIn(t) = [w EXCEPT !.off = 0]
      BY DEF PoppedIn
    <3> HIDE DEF w, x
    <3> QED BY <3>1, <3>2, LocUpdate DEF SameBuffers
  <2>5. ThreadStep(t, s, PoppedIn(t))
    BY <2>1, <2>2, <2>4 DEF ThreadStep
  <2>6. /\ \A b \in Buffers : Waiting(queue', b) <=> Waiting(queue, b) /\ b # x
        /\ Waiting(queue, x)
    BY <1>1, <1>2, <2>3, TakeAlone
  <2>7. \A b, i : ~Alive(t, pc[t], loc[t], b, i)
    BY <1>1, IdlePlaces, IdleRight
  <2>8. \A b : \A i \in Nat \ {0} : Alive(t, s, PoppedIn(t), b, i) <=> b = x
    BY <2>1, <2>4 DEF Alive, Used
  <2>9. RowRight(t, s, PoppedIn(t), content)
    BY <2>1 DEF RowRight
  <2> HIDE DEF x
  <2>10. \A b \in Buffers : \A i \in 1..Len(content[b]) :
           Waiting(queue, b) \/ Alive(t, pc[t], loc[t], b, i)
             <=> Waiting(queue', b) \/ Alive(t, s, PoppedIn(t), b, i)
    BY <2>6, <2>7, <2>8
  <2> QED BY <1>1, <2>5, <2>9, <2>10, SameRows
<1> QED BY <1>3, <1>4

\* A free buffer is taken.
LEMMA PopFreeRows ==
  ASSUME ClientInv, TextFits, RowsInv, NEW t \in Threads, NEW from, NEW to \in PCs, PopFree(t, from, to),
         RowRight(t, to, Taken(t), content), to \notin OutLive[Stage(t)], pc[t] \notin OutLive[Stage(t)],
         to \in InLive[Stage(t)] <=> pc[t] \in InLive[Stage(t)],
         to \in InLive[Stage(t)] => Used(to, Taken(t)) = Used(pc[t], loc[t])
  PROVE  RowsInv'
<1>1. pc[t] = from /\ pc' = [pc EXCEPT ![t] = to] /\ Take("free") /\ NoRowTouched
  BY DEF PopFree, Goto, NoRowTouched
<1>2. loc' = [loc EXCEPT ![t] = Taken(t)]
  BY StepFacts DEF PopFree, Taken
<1>3. Taken(t) \in LocType /\ Taken(t).in = loc[t].in
  BY <1>1, FreeTaken
<1>4. ThreadStep(t, to, Taken(t))
  BY <1>1, <1>2, <1>3 DEF ThreadStep
<1>5. \A b, i : Alive(t, to, Taken(t), b, i) <=> Alive(t, pc[t], loc[t], b, i)
  BY <1>3 DEF Alive
<1>6. \A b \in Buffers : Waiting(queue', b) <=> Waiting(queue, b)
  <2>1. "free" \in QueueNames
    BY DEF QueueNames
  <2>2. Front("free") \in Buffers
    BY <1>1, <2>1, FrontType
  <2> QED BY <1>1, <2>1, <2>2, TakeAlone
<1> QED BY <1>1, <1>4, <1>5, <1>6, SameRows

\* The buffer written is handed on.
LEMMA PushOutRows ==
  ASSUME ClientInv, TextFits, RowsInv, NEW t \in Threads, Stage(t) \in {"rcv", "decomp", "ser"},
         NEW from, NEW to \in PCs, PushOut(t, from, to), loc[t].out \in Buffers,
         from \in OutLive[Stage(t)], to \notin OutLive[Stage(t)],
         NEW v, v = [loc[t] EXCEPT !.out = NoBuffer], RowRight(t, to, v, content),
         \A i \in Nat \ {0} : loc[t].in \in Buffers /\ i <= Len(content[loc[t].in]) =>
           (to \in InLive[Stage(t)] /\ i > Used(to, v) <=>
              pc[t] \in InLive[Stage(t)] /\ i > Used(pc[t], loc[t]))
  PROVE  RowsInv'
<1> DEFINE next == NextStage[Stage(t)]
<1>1. /\ pc[t] = from /\ pc' = [pc EXCEPT ![t] = to] /\ loc' = [loc EXCEPT ![t] = v]
      /\ Put(next, loc[t].out) /\ NoRowTouched
  BY StepFacts DEF PushOut, Goto, NoRowTouched
<1>2. v \in LocType /\ v.in = loc[t].in /\ v.out = NoBuffer
  <2>1. loc[t] \in LocType /\ NoBuffer \in Buffers \cup {NoBuffer}
    BY StepFacts
  <2> QED BY <2>1, LocUpdate
<1>3. next \in QueueNames /\ next # "free"
  BY ThreadFacts DEF QueueNames
<1> HIDE DEF next
<1>4. ThreadStep(t, to, v)
  BY <1>1, <1>2 DEF ThreadStep
<1>5. \A b \in Buffers : Waiting(queue', b) <=> Waiting(queue, b) \/ b = loc[t].out
  <2>1. loc[t].out \in Buffers \cup {Sentinel}
    OBVIOUS
  <2> QED BY <1>1, <1>3, <2>1, PutWaits
<1>6. ASSUME NEW b \in Buffers, NEW i \in 1..Len(content[b])
      PROVE  /\ Alive(t, pc[t], loc[t], b, i) <=>
                  b = loc[t].out \/ (b = loc[t].in /\ pc[t] \in InLive[Stage(t)] /\ i > Used(pc[t], loc[t]))
             /\ Alive(t, to, v, b, i) <=> b = loc[t].in /\ to \in InLive[Stage(t)] /\ i > Used(to, v)
  BY <1>1, <1>2 DEF Alive
<1>7. ASSUME NEW b \in Buffers, NEW i \in 1..Len(content[b]), b = loc[t].in
      PROVE  to \in InLive[Stage(t)] /\ i > Used(to, v) <=>
               pc[t] \in InLive[Stage(t)] /\ i > Used(pc[t], loc[t])
  <2>1. Len(content[b]) \in Nat
    BY StepFacts DEF Contents
  <2>2. i \in Nat \ {0} /\ i <= Len(content[b])
    BY <2>1
  <2> QED BY <1>7, <2>2
<1>8. \A b \in Buffers : \A i \in 1..Len(content[b]) :
        Waiting(queue, b) \/ Alive(t, pc[t], loc[t], b, i) <=> Waiting(queue', b) \/ Alive(t, to, v, b, i)
  BY <1>5, <1>6, <1>7
<1> QED BY <1>1, <1>4, <1>8, SameRows

\* A buffer is passed on unchanged.
LEMMA ForwardRows ==
  ASSUME ClientInv, TextFits, RowsInv, NEW t \in Threads, Stage(t) \in {"decomp", "ser"}, Forward(t)
  PROVE  RowsInv'
<1> DEFINE next == NextStage[Stage(t)]
           v == [loc[t] EXCEPT !.in = NoBuffer]
<1>1. /\ pc[t] = "forward" /\ pc' = [pc EXCEPT ![t] = "pop"] /\ loc' = [loc EXCEPT ![t] = v]
      /\ Put(next, loc[t].in) /\ NoRowTouched
  BY StepFacts DEF Forward, Goto, NoRowTouched
<1>2. v \in LocType
  <2>1. loc[t] \in LocType /\ NoBuffer \in Buffers \cup {NoBuffer}
    BY StepFacts
  <2> QED BY <2>1, LocUpdate
<1>3. next \in QueueNames /\ next # "free"
  BY ThreadFacts DEF QueueNames
<1>4. loc[t].in \in Buffers
  BY <1>1, StepFacts DEF HoldsRight, InFull
<1> HIDE DEF next, v
<1>5. ThreadStep(t, "pop", v)
  BY <1>1, <1>2 DEF ThreadStep, PCs
<1>6. \A b \in Buffers : Waiting(queue', b) <=> Waiting(queue, b) \/ b = loc[t].in
  <2>1. loc[t].in \in Buffers \cup {Sentinel}
    BY <1>4
  <2> QED BY <1>1, <1>3, <2>1, PutWaits
<1>7. \A b, i : ~Alive(t, "pop", v, b, i) /\ RowRight(t, "pop", v, content)
  BY IdlePlaces, IdleRight
<1>8. \A b : \A i \in Nat \ {0} : Alive(t, pc[t], loc[t], b, i) <=> b = loc[t].in
  BY <1>1 DEF Alive, InLive, OutLive, Used
<1>9. \A b \in Buffers : \A i \in 1..Len(content[b]) :
        Waiting(queue, b) \/ Alive(t, pc[t], loc[t], b, i) <=> Waiting(queue', b) \/ Alive(t, "pop", v, b, i)
  BY <1>6, <1>7, <1>8
<1> QED BY <1>1, <1>5, <1>7, <1>9, SameRows

\* A buffer returns to the free queue, from a thread without rows.
LEMMA FreeRows ==
  ASSUME ClientInv, TextFits, RowsInv, NEW t \in Threads, NEW s \in PCs, NEW v \in LocType,
         pc' = [pc EXCEPT ![t] = s], loc' = [loc EXCEPT ![t] = v], NEW b \in Buffers, Put("free", b),
         NoRowTouched, Idle(t, pc[t]), Idle(t, s)
  PROVE  RowsInv'
<1>1. "free" \in QueueNames /\ b \in Buffers \cup {Sentinel}
  BY DEF QueueNames
<1>2. \A a \in Buffers : Waiting(queue', a) <=> Waiting(queue, a)
  BY <1>1, PutWaits
<1>3. ThreadStep(t, s, v)
  BY DEF ThreadStep
<1> QED BY <1>2, <1>3, IdleStep

\* The buffer read is released.
LEMMA ReleaseInRows ==
  ASSUME ClientInv, TextFits, RowsInv, NEW t \in Threads, NEW from \in {"release", "dropIn"},
         NEW to \in {"pop", "hasNext", "dropOut"}, ReleaseIn(t, from, to), loc[t].in \in Buffers
  PROVE  RowsInv'
<1> DEFINE v == [loc[t] EXCEPT !.in = NoBuffer]
<1>1. /\ pc[t] = from /\ pc' = [pc EXCEPT ![t] = to] /\ loc' = [loc EXCEPT ![t] = v]
      /\ Put("free", loc[t].in) /\ NoRowTouched /\ to \in PCs
  BY StepFacts DEF ReleaseIn, Goto, NoRowTouched, PCs
<1>2. v \in LocType
  <2>1. loc[t] \in LocType /\ NoBuffer \in Buffers \cup {NoBuffer}
    BY StepFacts
  <2> QED BY <2>1, LocUpdate
<1>3. Idle(t, from) /\ Idle(t, to)
  BY IdlePlaces
<1> HIDE DEF v
<1> QED BY <1>1, <1>2, <1>3, FreeRows

-----------------------------------------------------------------------------
\* A buffer that thread t has and no rows of which it has to hand on carries none,
\* and of one it reads it has the rows left that it has not used.
LEMMA MineLive ==
  ASSUME ClientInv, NEW t \in Threads, NEW b \in Buffers, b = loc[t].in \/ b = loc[t].out
  PROVE  \A i \in Nat : <<b, i>> \in Live(queue, pc, loc, content) <=>
                          i \in 1..Len(content[b]) /\ Alive(t, pc[t], loc[t], b, i)
<1>1. ~Waiting(queue, b) /\ \A u \in Threads : u # t => loc[u].in # b /\ loc[u].out # b
  BY HeldAlone
<1> QED BY <1>1, LiveHere, LivePlaces

\* The same after a step at no queue that leaves t its buffers.
LEMMA MineLiveAfter ==
  ASSUME ClientInv, NEW t \in Threads, NEW s, NEW v, ThreadStep(t, s, v), queue' = queue,
         NEW b \in Buffers, b = loc[t].in \/ b = loc[t].out
  PROVE  \A i \in Nat : <<b, i>> \in Live(queue', pc', loc', content') <=>
                          i \in 1..Len(content'[b]) /\ Alive(t, s, v, b, i)
<1>1. ~Waiting(queue, b) /\ \A u \in Threads : u # t => loc[u].in # b /\ loc[u].out # b
  BY HeldAlone
<1>2. /\ pc'[t] = s /\ loc'[t] = v
      /\ \A u \in Threads : u # t => loc'[u] = loc[u]
  BY StepFacts DEF ThreadStep
<1>3. \A i : LiveAt(queue', pc', loc', b, i) <=> Alive(t, s, v, b, i)
  <2>1. ~Waiting(queue', b) /\ \A u \in Threads : u # t => loc'[u].in # b /\ loc'[u].out # b
    BY <1>1, <1>2
  <2> QED BY <1>2, <2>1, LiveHere
<1> QED BY <1>3, LivePlaces

\* Nothing happens to the rows of the buffers that t does not have.
LEMMA OthersLive ==
  ASSUME ClientInv, NEW t \in Threads, NEW s, NEW v, ThreadStep(t, s, v), queue' = queue,
         v.in = loc[t].in, v.out = loc[t].out, NEW b \in Buffers, b # loc[t].in, b # loc[t].out,
         content'[b] = content[b]
  PROVE  \A i \in Nat : <<b, i>> \in Live(queue', pc', loc', content') <=>
                          <<b, i>> \in Live(queue, pc, loc, content)
<1>1. \A i : ~Alive(t, s, v, b, i) /\ ~Alive(t, pc[t], loc[t], b, i)
  BY DEF Alive
<1>2. \A i \in Nat : LiveAt(queue, pc, loc, b, i) <=> LiveAt(queue', pc', loc', b, i)
  BY <1>1, LiveSame
<1> QED BY <1>2, LivePlaces

\* The invariant after a step, from its parts.
LEMMA RowsCombine ==
  ASSUME ClientInv, TextFits, RowsInv, NEW t \in Threads, NEW s, NEW v, ThreadStep(t, s, v),
         ContentStep(t), RowRight(t, s, v, content'),
         Accounted(Live(queue', pc', loc', content'), content', written', dropped', Ahead')
  PROVE  RowsInv'
<1>1. \A u \in Threads : RowRight(u, pc'[u], loc'[u], content')
  BY RightKept
<1>2. RowsKept' <=> Accounted(Live(queue', pc', loc', content'), content', written', dropped', Ahead')
  BY DEF RowsKept, Live, LiveAt, Waiting, Accounted, At, Alive, Used
<1> QED BY <1>1, <1>2 DEF RowsInv, RowRight

\* Thread t goes to s, and the next n rows of the buffer it reads, src, become the
\* rows of the one it writes, dst.
CopyStep(t, s, v, src, dst, from, n) ==
  /\ ThreadStep(t, s, v) /\ ContentStep(t) /\ UNCHANGED <<queue, inFlight, dropped, written>>
  /\ v.in = loc[t].in /\ v.out = loc[t].out
  /\ src \in Buffers /\ src = loc[t].in /\ dst \in Buffers /\ dst = loc[t].out
  /\ RowRight(t, s, v, content') /\ from \in Nat /\ n \in Nat
  /\ Len(content'[dst]) = n /\ \A i \in 1..n : content'[dst][i] = content[src][from + i]
  /\ from + n <= Len(content[src])
  /\ pc[t] \in InLive[Stage(t)] /\ pc[t] \notin OutLive[Stage(t)] /\ Used(pc[t], loc[t]) = from
  /\ s \in OutLive[Stage(t)]
  /\ \/ s \in InLive[Stage(t)] /\ Used(s, v) = from + n
     \/ s \notin InLive[Stage(t)] /\ from + n = Len(content[src])

\* No row is lost or doubled by it.
LEMMA CopyRows ==
  ASSUME ClientInv, TextFits, RowsInv, NEW t \in Threads, NEW s, NEW v, NEW src, NEW dst, NEW from, NEW n,
         CopyStep(t, s, v, src, dst, from, n)
  PROVE  RowsInv'
<1>0. /\ ThreadStep(t, s, v) /\ ContentStep(t) /\ UNCHANGED <<queue, inFlight, dropped, written>>
      /\ v.in = loc[t].in /\ v.out = loc[t].out
      /\ src \in Buffers /\ src = loc[t].in /\ dst \in Buffers /\ dst = loc[t].out
      /\ RowRight(t, s, v, content') /\ from \in Nat /\ n \in Nat
      /\ Len(content'[dst]) = n /\ \A i \in 1..n : content'[dst][i] = content[src][from + i]
      /\ from + n <= Len(content[src])
      /\ pc[t] \in InLive[Stage(t)] /\ pc[t] \notin OutLive[Stage(t)] /\ Used(pc[t], loc[t]) = from
      /\ s \in OutLive[Stage(t)]
      /\ \/ s \in InLive[Stage(t)] /\ Used(s, v) = from + n
         \/ s \notin InLive[Stage(t)] /\ from + n = Len(content[src])
  BY DEF CopyStep
<1> USE <1>0
<1> DEFINE V == Live(queue, pc, loc, content)
           W == Live(queue', pc', loc', content')
<1>1. src # dst
  BY HeldAlone
<1>2. Len(content[src]) \in Nat /\ \A b \in Buffers : b # dst => content'[b] = content[b]
  BY StepFacts DEF Contents, ContentStep
<1>3. V \in SUBSET (Buffers \X Nat) /\ W \in SUBSET (Buffers \X Nat)
  BY LivePlaces
<1>4. ASSUME NEW i \in Nat
      PROVE  /\ <<dst, i>> \notin V
             /\ <<src, i>> \in V <=> i \in 1..Len(content[src]) /\ i > from
             /\ <<dst, i>> \in W <=> i \in 1..n
             /\ <<src, i>> \in W <=> i \in 1..Len(content[src]) /\ i > from + n
  <2>1. <<dst, i>> \in V <=> i \in 1..Len(content[dst]) /\ Alive(t, pc[t], loc[t], dst, i)
    BY MineLive
  <2>2. <<src, i>> \in V <=> i \in 1..Len(content[src]) /\ Alive(t, pc[t], loc[t], src, i)
    BY MineLive
  <2>3. <<dst, i>> \in W <=> i \in 1..n /\ Alive(t, s, v, dst, i)
    BY MineLiveAfter
  <2>4. <<src, i>> \in W <=> i \in 1..Len(content[src]) /\ Alive(t, s, v, src, i)
    <3>1. <<src, i>> \in W <=> i \in 1..Len(content'[src]) /\ Alive(t, s, v, src, i)
      BY MineLiveAfter
    <3> QED BY <1>1, <1>2, <3>1
  <2> HIDE DEF V, W
  <2>5. ~Alive(t, pc[t], loc[t], dst, i) /\ (Alive(t, pc[t], loc[t], src, i) <=> i > from)
    BY <1>1 DEF Alive
  <2>6. Alive(t, s, v, dst, i)
    BY DEF Alive
  <2>7. Alive(t, s, v, src, i) <=> s \in InLive[Stage(t)] /\ i > Used(s, v)
    BY <1>1 DEF Alive
  <2>8. <<src, i>> \in W <=> i \in 1..Len(content[src]) /\ i > from + n
    <3>1. CASE s \in InLive[Stage(t)] /\ Used(s, v) = from + n
      BY <2>4, <2>7, <3>1
    <3>2. CASE s \notin InLive[Stage(t)] /\ from + n = Len(content[src])
      BY <1>2, <2>4, <2>7, <3>2
    <3> QED BY <3>1, <3>2
  <2> QED BY <2>1, <2>2, <2>3, <2>5, <2>6, <2>8
<1>5. \A b \in Buffers, i \in Nat : b # src /\ b # dst => (<<b, i>> \in W <=> <<b, i>> \in V)
  BY <1>2, OthersLive
<1> HIDE DEF V, W
<1>6. ASSUME NEW b \in Buffers, NEW i \in Nat
      PROVE  <<b, i>> \in W <=>
               IF b = dst THEN i \in 1..n ELSE <<b, i>> \in V /\ (b # src \/ i > from + n)
  <2>1. CASE b = src
    <3>1. i > from + n => i > from
      OBVIOUS
    <3> QED BY <1>1, <1>4, <2>1, <3>1
  <2>2. CASE b # src
    BY <1>4, <1>5, <2>2
  <2> QED BY <2>1, <2>2
<1>7. \A p \in V : p[1] # dst => At(content', p) = At(content, p)
  BY <1>2, <1>3 DEF At
<1>8. \A i \in Nat : <<src, i>> \in V => i > from
  BY <1>4
<1>9. \A i \in 1..n : <<src, from + i>> \in V
  <2> SUFFICES ASSUME NEW i \in 1..n PROVE from + i \in Nat /\ from + i \in 1..Len(content[src]) /\ from + i > from
    BY <1>4
  <2> QED BY <1>2
<1>10. Accounted(V, content, written, dropped, Ahead)
  BY DEF RowsInv, RowsKept, V
<1>11. \A i \in Nat : <<dst, i>> \notin V
  BY <1>4
<1>12. Accounted(W, content', written, dropped, Ahead)
  <2>1. Copies(V, content, W, content', src, dst, from, n)
    BY <1>1, <1>3, <1>6, <1>7, <1>8, <1>9, <1>11 DEF Copies
  <2> QED BY <1>10, <2>1, RowsCopied
<1>13. Ahead' = Ahead
  BY DEF Ahead
<1> QED BY <1>12, <1>13, RowsCombine DEF W

\* Multiplication, for the numbers of rows.
LEMMA RowNumbers ==
  /\ \A a, k \in Int : (a + 1) * k = a * k + k
  /\ \A a, b, k \in Nat : a <= b => a * k <= b * k
BY Z3

\* The rows of the next message: the first of those that are ahead.
LEMMA AheadFacts ==
  ASSUME ClientInv, inFlight > 0, inFlight' = inFlight - 1
  PROVE  /\ (IncomingBuffers - inFlight) * RowsPerBuffer \in Nat /\ RowsPerBuffer \in Nat
         /\ Len(NextMessage) = RowsPerBuffer
         /\ \A i \in 1..RowsPerBuffer :
              /\ NextMessage[i] = (IncomingBuffers - inFlight) * RowsPerBuffer + i
              /\ NextMessage[i] \in Ahead /\ NextMessage[i] \notin Ahead'
         /\ \A r \in Ahead : r \in Ahead' \/ r - (IncomingBuffers - inFlight) * RowsPerBuffer \in 1..RowsPerBuffer
         /\ Ahead' \subseteq Ahead
<1> DEFINE m == IncomingBuffers - inFlight
           a == m * RowsPerBuffer
           e == IncomingBuffers * RowsPerBuffer
<1>1. /\ m \in Nat /\ m + 1 \in Nat /\ m + 1 <= IncomingBuffers
      /\ IncomingBuffers \in Nat /\ RowsPerBuffer \in Nat
      /\ IncomingBuffers - inFlight' = m + 1 /\ m + 1 - 1 = m
  BY StepFacts, SizesAssumption DEF ClientInv, TypeOK
<1>2. Ahead = (a + 1)..e /\ Ahead' = ((m + 1) * RowsPerBuffer + 1)..e
  BY <1>1 DEF Ahead
<1>3. NextMessage = [i \in 1..RowsPerBuffer |-> a + i]
  BY <1>1 DEF NextMessage, Message
<1> HIDE DEF m
<1>4. a \in Nat /\ e \in Nat /\ (m + 1) * RowsPerBuffer = a + RowsPerBuffer
      /\ (m + 1) * RowsPerBuffer <= e
  BY <1>1, ProductNat, RowNumbers
<1> HIDE DEF a, e
<1>5. Len(NextMessage) = RowsPerBuffer /\ \A i \in 1..RowsPerBuffer : NextMessage[i] = a + i
  BY <1>1, <1>3
<1>6. \A i \in 1..RowsPerBuffer : a + i \in Ahead /\ a + i \notin Ahead'
  BY <1>1, <1>2, <1>4
<1>7. (\A r \in Ahead : r \in Ahead' \/ r - a \in 1..RowsPerBuffer) /\ Ahead' \subseteq Ahead
  BY <1>1, <1>2, <1>4
<1> QED BY <1>1, <1>4, <1>5, <1>6, <1>7 DEF a, m

\* A buffer is received.
LEMMA ReadRows ==
  ASSUME ClientInv, TextFits, RowsInv, NEW r \in Threads, Stage(r) = "rcv", ReadBuffer(r)
  PROVE  RowsInv'
<1> DEFINE V == Live(queue, pc, loc, content)
           W == Live(queue', pc', loc', content')
           dst == loc[r].out
           from == (IncomingBuffers - inFlight) * RowsPerBuffer
<1>1. /\ pc[r] = "read" /\ inFlight > 0 /\ inFlight' = inFlight - 1 /\ loc' = loc /\ queue' = queue
      /\ content' = [content EXCEPT ![dst] = NextMessage] /\ pc' = [pc EXCEPT ![r] = "push"]
      /\ dropped' = dropped /\ written' = written
  BY DEF ReadBuffer, Goto
<1>2. dst \in Buffers /\ content \in Contents
  BY <1>1, StepFacts DEF HoldsRight, OutFull
<1>3. ThreadStep(r, "push", loc[r])
  BY <1>1, StepFacts DEF ThreadStep, PCs
<1>4. ContentStep(r) /\ content'[dst] = NextMessage
  BY <1>1, <1>2, NextMessageRows, WholeTypes, WriteOut
<1>5. RowRight(r, "push", loc[r], content')
  BY DEF RowRight
<1> HIDE DEF dst
<1>6. ASSUME NEW i \in Nat
      PROVE  <<dst, i>> \notin V /\ (<<dst, i>> \in W <=> i \in 1..RowsPerBuffer)
  <2>1. <<dst, i>> \in V <=> i \in 1..Len(content[dst]) /\ Alive(r, pc[r], loc[r], dst, i)
    BY <1>2, MineLive DEF dst
  <2>2. <<dst, i>> \in W <=> i \in 1..Len(content'[dst]) /\ Alive(r, "push", loc[r], dst, i)
    BY <1>1, <1>2, <1>3, MineLiveAfter DEF dst
  <2>3. ~Alive(r, pc[r], loc[r], dst, i) /\ Alive(r, "push", loc[r], dst, i)
    BY <1>1 DEF Alive, InLive, OutLive, dst
  <2> QED BY <1>1, <1>4, <2>1, <2>2, <2>3, AheadFacts
<1>7. ASSUME NEW b \in Buffers, NEW i \in Nat, b # dst PROVE <<b, i>> \in W <=> <<b, i>> \in V
  <2>1. content'[b] = content[b]
    BY <1>1, <1>2, <1>7 DEF Contents
  <2>2. \A j : ~Alive(r, pc[r], loc[r], b, j) /\ ~Alive(r, "push", loc[r], b, j)
    BY <1>1, <1>7 DEF Alive, InLive, OutLive, dst
  <2>3. LiveAt(queue, pc, loc, b, i) <=> LiveAt(queue', pc', loc', b, i)
    BY <1>1, <1>3, <2>2, LiveSame
  <2> QED BY <2>1, <2>3, LivePlaces
<1>8. V \in SUBSET (Buffers \X Nat) /\ W \in SUBSET (Buffers \X Nat)
  BY LivePlaces
<1>9. Accounted(V, content, written, dropped, Ahead)
  BY DEF RowsInv, RowsKept
<1> HIDE DEF V, W
<1>10. \A p \in V : p[1] # dst => At(content', p) = At(content, p)
  BY <1>1, <1>2, <1>8 DEF At, Contents
<1>11. Reads(V, content, Ahead, W, content', Ahead', dst, from, RowsPerBuffer)
  <2>1. from \in Int /\ RowsPerBuffer \in Nat /\ \A i \in 1..RowsPerBuffer : NextMessage[i] = from + i
    BY <1>1, AheadFacts
  <2>2. /\ \A i \in 1..RowsPerBuffer : NextMessage[i] \in Ahead /\ NextMessage[i] \notin Ahead'
        /\ \A x \in Ahead : x \in Ahead' \/ x - from \in 1..RowsPerBuffer
        /\ Ahead' \subseteq Ahead
    BY <1>1, AheadFacts
  <2> HIDE DEF from
  <2> QED BY <1>2, <1>4, <1>6, <1>7, <1>8, <1>10, <2>1, <2>2 DEF Reads
<1>12. Accounted(W, content', written, dropped, Ahead')
  BY <1>9, <1>11, RowsRead
<1> QED BY <1>1, <1>3, <1>4, <1>5, <1>12, RowsCombine DEF W

\* A buffer is lost on its way.
LEMMA SkipRows ==
  ASSUME ClientInv, TextFits, RowsInv, NEW r \in Threads, Stage(r) = "rcv", ReadFails(r)
  PROVE  RowsInv'
<1>1. /\ pc[r] = "read" /\ Goto(r, "fetchAdd") /\ loc' = loc /\ queue' = queue /\ content' = content
      /\ written' = written
  BY DEF ReadFails
<1>2. CASE UNCHANGED <<inFlight, dropped>>
  BY <1>1, <1>2, IdleGoto, IdlePlaces DEF NoRowTouched, PCs
<1>3. CASE inFlight > 0 /\ inFlight' = inFlight - 1 /\ dropped' = dropped \cup RowsOf(NextMessage)
  <2> DEFINE R == RowsOf(NextMessage)
             from == (IncomingBuffers - inFlight) * RowsPerBuffer
  <2>1. /\ Len(NextMessage) = RowsPerBuffer /\ RowsPerBuffer \in Nat /\ from \in Nat
        /\ \A i \in 1..RowsPerBuffer :
             NextMessage[i] = from + i /\ NextMessage[i] \in Ahead /\ NextMessage[i] \notin Ahead'
        /\ \A x \in Ahead : x \in Ahead' \/ x - from \in 1..RowsPerBuffer
        /\ Ahead' \subseteq Ahead /\ \A x \in Ahead : x \in Int
    <3>1. \A x \in Ahead : x \in Int
      BY DEF Ahead
    <3> QED BY <1>3, <3>1, AheadFacts
  <2> HIDE DEF from
  <2>2. R \in SUBSET Ahead /\ \A x \in R : x \notin Ahead'
    BY <2>1 DEF RowsOf
  <2>3. ASSUME NEW x \in Ahead, x \notin Ahead' PROVE x \in R
    <3> DEFINE i == x - from
    <3>1. i \in 1..RowsPerBuffer
      BY <2>1, <2>3
    <3>2. NextMessage[i] = from + i /\ from + i = x
      BY <2>1, <3>1
    <3> QED BY <2>1, <3>1, <3>2 DEF RowsOf
  <2> HIDE DEF R
  <2>4. Ahead' = Ahead \ R
    BY <2>1, <2>2, <2>3
  <2>5. Accounted(Live(queue, pc, loc, content), content, written, dropped \cup R, Ahead')
    <3>1. Accounted(Live(queue, pc, loc, content), content, written, dropped, Ahead)
      BY DEF RowsInv, RowsKept
    <3> QED BY <2>2, <2>4, <3>1, RowsSkipped
  <2>6. ThreadStep(r, "fetchAdd", loc[r])
    BY <1>1, StepFacts DEF ThreadStep, Goto, PCs
  <2>7. RowRight(r, "fetchAdd", loc[r], content') /\ \A b, i : ~Alive(r, "fetchAdd", loc[r], b, i) /\ ~Alive(r, pc[r], loc[r], b, i)
    BY <1>1, IdlePlaces, IdleRight
  <2>8. Live(queue', pc', loc', content') = Live(queue, pc, loc, content)
    <3>1. \A b \in Buffers, i \in Nat : LiveAt(queue, pc, loc, b, i) <=> LiveAt(queue', pc', loc', b, i)
      BY <1>1, <2>6, <2>7, LiveSame
    <3> QED BY <1>1, <3>1 DEF Live
  <2>9. Accounted(Live(queue', pc', loc', content'), content', written', dropped', Ahead')
    BY <1>1, <1>3, <2>5, <2>8 DEF R
  <2>10. ContentStep(r)
    BY <1>1, ContentSame
  <2> QED BY <2>6, <2>7, <2>9, <2>10, RowsCombine
<1> QED BY <1>2, <1>3 DEF ReadFails

\* How often a row occurs in a buffer.
LEMMA OccursOnce ==
  ASSUME NEW rows, NEW r
  PROVE  /\ (\A i \in 1..Len(rows) : rows[i] # r) => Occurrences(r, rows) = 0
         /\ \A i \in 1..Len(rows) :
              rows[i] = r /\ (\A j \in 1..Len(rows) : rows[j] = r => j = i) => Occurrences(r, rows) = 1
<1>1. ASSUME \A i \in 1..Len(rows) : rows[i] # r PROVE Occurrences(r, rows) = 0
  <2>1. {i \in 1..Len(rows) : rows[i] = r} = {}
    BY <1>1
  <2> QED BY <2>1, FS_EmptySet DEF Occurrences
<1>2. ASSUME NEW i \in 1..Len(rows), rows[i] = r, \A j \in 1..Len(rows) : rows[j] = r => j = i
      PROVE  Occurrences(r, rows) = 1
  <2>1. {j \in 1..Len(rows) : rows[j] = r} = {i}
    BY <1>2
  <2>2. Cardinality({i}) = 1
    BY FS_Singleton, Zenon
  <2> QED BY <2>1, <2>2 DEF Occurrences
<1> QED BY <1>1, <1>2

\* The rows of the buffer read are written, or given up.
LEMMA GoneRows ==
  ASSUME ClientInv, TextFits, RowsInv, NEW t \in Threads, NEW s \in PCs, Goto(t, s), Idle(t, s),
         UNCHANGED <<loc, queue, content, inFlight>>, NEW src \in Buffers, src = loc[t].in,
         pc[t] \in {"decompress", "write"}, pc[t] \in InLive[Stage(t)],
         \/ dropped' = dropped \cup RowsOf(content[src]) /\ written' = written
         \/ dropped' = dropped /\ written' = [r \in Rows |-> written[r] + Occurrences(r, content[src])]
  PROVE  RowsInv'
<1> DEFINE V == Live(queue, pc, loc, content)
           W == Live(queue', pc', loc', content')
           R == RowsOf(content[src])
<1>1. ThreadStep(t, s, loc[t]) /\ content \in Contents
  BY StepFacts DEF ThreadStep, Goto
<1>2. RowRight(t, s, loc[t], content') /\ \A b, i : ~Alive(t, s, loc[t], b, i)
  BY IdleRight
<1>3. \A b : \A i \in Nat \ {0} : Alive(t, pc[t], loc[t], b, i) <=> b = src
  <2>1. pc[t] \notin OutLive[Stage(t)]
    BY ThreadFacts DEF OutLive
  <2>2. Used(pc[t], loc[t]) = 0
    BY DEF Used
  <2> QED BY <2>1, <2>2 DEF Alive
<1>4. Len(content[src]) \in Nat
  BY <1>1 DEF Contents
<1>5. ASSUME NEW i \in Nat
      PROVE  (<<src, i>> \in V <=> i \in 1..Len(content[src])) /\ <<src, i>> \notin W
  <2>1. <<src, i>> \in V <=> i \in 1..Len(content[src]) /\ Alive(t, pc[t], loc[t], src, i)
    BY MineLive
  <2>2. <<src, i>> \in W <=> i \in 1..Len(content'[src]) /\ Alive(t, s, loc[t], src, i)
    BY <1>1, MineLiveAfter
  <2> HIDE DEF V, W
  <2>3. i \in 1..Len(content[src]) => i \in Nat \ {0}
    OBVIOUS
  <2> QED BY <1>2, <1>3, <2>1, <2>2, <2>3
<1>6. ASSUME NEW b \in Buffers, NEW i \in Nat, b # src PROVE <<b, i>> \in W <=> <<b, i>> \in V
  <2>1. CASE i = 0
    BY <2>1, <1>1, LivePlaces DEF Contents
  <2>2. CASE i # 0
    <3>1. LiveAt(queue, pc, loc, b, i) <=> LiveAt(queue', pc', loc', b, i)
      BY <1>1, <1>2, <1>3, <1>6, <2>2, LiveSame
    <3> QED BY <3>1, LivePlaces
  <2> QED BY <2>1, <2>2
<1>7. V \in SUBSET (Buffers \X Nat) /\ W \in SUBSET (Buffers \X Nat)
  BY LivePlaces
<1>8. Accounted(V, content, written, dropped, Ahead)
  BY DEF RowsInv, RowsKept
<1> HIDE DEF V, W
<1>9. /\ \A p \in V : p[1] = src => At(content, p) \in R
      /\ \A r \in R : \E p \in V : p[1] = src /\ At(content, p) = r
  <2>1. ASSUME NEW p \in V, p[1] = src PROVE At(content, p) \in R
    <3>1. p = <<src, p[2]>> /\ p[2] \in Nat
      BY <1>7, <2>1
    <3>2. p[2] \in 1..Len(content[src])
      BY <1>5, <3>1
    <3> QED BY <2>1, <3>2 DEF At, RowsOf
  <2>2. ASSUME NEW r \in R PROVE \E p \in V : p[1] = src /\ At(content, p) = r
    <3>1. PICK i \in 1..Len(content[src]) : content[src][i] = r
      BY DEF RowsOf
    <3>2. i \in Nat
      BY <1>4
    <3>3. <<src, i>> \in V /\ At(content, <<src, i>>) = r
      BY <1>5, <3>1, <3>2 DEF At
    <3> QED BY <3>3
  <2> QED BY <2>1, <2>2
<1>10. \/ dropped' = dropped \cup R /\ written' = written
       \/ dropped' = dropped /\ \A r \in Rows : written'[r] = IF r \in R THEN written[r] + 1 ELSE written[r]
  <2> SUFFICES ASSUME dropped' = dropped, NEW r \in Rows,
                      written' = [x \in Rows |-> written[x] + Occurrences(x, content[src])]
               PROVE  written'[r] = IF r \in R THEN written[r] + 1 ELSE written[r]
    OBVIOUS
  <2>0. written[r] \in Nat /\ written'[r] = written[r] + Occurrences(r, content[src])
    BY StepFacts DEF RestTypes
  <2>1. CASE r \in R
    <3>1. PICK i \in 1..Len(content[src]) : content[src][i] = r
      BY <2>1 DEF RowsOf
    <3>2. ASSUME NEW j \in 1..Len(content[src]), content[src][j] = r PROVE j = i
      <4>1. <<src, i>> \in V /\ <<src, j>> \in V
        BY <1>4, <1>5
      <4>2. At(content, <<src, i>>) = At(content, <<src, j>>)
        BY <3>1, <3>2 DEF At
      <4>3. <<src, i>> = <<src, j>>
        BY <1>8, <4>1, <4>2 DEF Accounted
      <4> QED BY <4>3
    <3>3. Occurrences(r, content[src]) = 1
      BY <3>1, <3>2, OccursOnce
    <3> QED BY <2>0, <2>1, <3>3
  <2>2. CASE r \notin R
    <3>1. \A i \in 1..Len(content[src]) : content[src][i] # r
      BY <2>2 DEF RowsOf
    <3>2. Occurrences(r, content[src]) = 0
      BY <3>1, OccursOnce
    <3> QED BY <2>0, <2>2, <3>2
  <2> QED BY <2>1, <2>2
<1> HIDE DEF R
<1>11. Leave(V, content, written, dropped, W, written', dropped', src, R)
  BY <1>5, <1>6, <1>7, <1>9, <1>10 DEF Leave
<1>12. Accounted(W, content, written', dropped', Ahead)
  BY <1>8, <1>11, RowsGone
<1>13. Ahead' = Ahead /\ ContentStep(t)
  BY ContentSame DEF Ahead
<1> QED BY <1>1, <1>2, <1>12, <1>13, RowsCombine DEF W

-----------------------------------------------------------------------------
\* XClient::receive moves rows from the connection to a queue.
LEMMA ReceiveRows ==
  ASSUME ClientInv, TextFits, RowsInv, NEW r \in Threads, Stage(r) = "rcv", Receive(r)
  PROVE  RowsInv'
<1>0. HoldsRight(r, pc[r], loc[r])
  BY StepFacts
<1>1. CASE Connect(r)
  BY <1>1, IdleGoto, IdlePlaces DEF Connect, NoRowTouched, PCs
<1>2. CASE ConnectFails(r)
  BY <1>2, IdleGoto, IdlePlaces DEF ConnectFails, NoRowTouched, PCs
<1>3. CASE PopFree(r, "popFree", "read")
  <2>1. pc[r] = "popFree" /\ "read" \in PCs
    BY <1>3 DEF PopFree, PCs
  <2>2. Idle(r, "read") /\ Idle(r, "popFree") /\ RowRight(r, "read", Taken(r), content)
    BY IdlePlaces, IdleRight
  <2>3. /\ "read" \notin InLive[Stage(r)] /\ "read" \notin OutLive[Stage(r)]
        /\ pc[r] \notin InLive[Stage(r)] /\ pc[r] \notin OutLive[Stage(r)]
    BY <2>1, <2>2 DEF Idle
  <2> QED BY <1>3, <2>1, <2>2, <2>3, PopFreeRows
<1>4. CASE EndOfFile(r)
  BY <1>4, IdleGoto, IdlePlaces DEF EndOfFile, NoRowTouched, PCs
<1>5. CASE PushOut(r, "push", "popFree")
  <2>1. pc[r] = "push" /\ "popFree" \in PCs
    BY <1>5 DEF PushOut, PCs
  <2>2. loc[r].out \in Buffers
    BY <1>0, <2>1 DEF HoldsRight, OutFull
  <2>3. /\ "push" \in OutLive[Stage(r)] /\ "popFree" \notin OutLive[Stage(r)]
        /\ "popFree" \notin InLive[Stage(r)] /\ pc[r] \notin InLive[Stage(r)]
    BY <2>1 DEF OutLive, InLive
  <2>4. RowRight(r, "popFree", [loc[r] EXCEPT !.out = NoBuffer], content)
    BY IdlePlaces, IdleRight
  <2> QED BY <1>5, <2>1, <2>2, <2>3, <2>4, PushOutRows
<1> QED BY <1>1, <1>2, <1>3, <1>4, <1>5, ReadRows, SkipRows, FinishRows DEF Receive

\* XClient::decompress moves rows from one buffer to another, or gives them up.
LEMMA DecompressRows ==
  ASSUME ClientInv, TextFits, RowsInv, NEW d \in Threads, Stage(d) = "decomp", Decompress(d)
  PROVE  RowsInv'
<1>0. /\ loc[d] \in LocType /\ content \in Contents
      /\ HoldsRight(d, pc[d], loc[d]) /\ TextRight(d, pc[d], loc[d], content)
  BY StepFacts
<1> DEFINE to == IF Compression THEN {"forward", "popFree"} ELSE {"forward"}
<1>1. CASE PopIn(d, to, "fetchAdd")
  <2>1. /\ to \in SUBSET PCs /\ "fetchAdd" \in PCs
        /\ \A s \in to : s \in InLive[Stage(d)] \ OutLive[Stage(d)] /\ s \in {"forward", "popFree", "write"}
    BY DEF PCs, InLive, OutLive
  <2>2. Idle(d, "fetchAdd")
    BY IdlePlaces
  <2> QED BY <1>1, <2>1, <2>2, PopInRows
<1>2. CASE PopFree(d, "popFree", "decompress")
  <2>1. pc[d] = "popFree" /\ "decompress" \in PCs
    BY <1>2 DEF PopFree, PCs
  <2>2. /\ "decompress" \in InLive[Stage(d)] /\ "decompress" \notin OutLive[Stage(d)]
        /\ pc[d] \in InLive[Stage(d)] /\ pc[d] \notin OutLive[Stage(d)]
    BY <2>1 DEF InLive, OutLive
  <2>3. Used("decompress", Taken(d)) = Used(pc[d], loc[d])
    BY <2>1 DEF Used
  <2>4. RowRight(d, "decompress", Taken(d), content)
    BY DEF RowRight
  <2> QED BY <1>2, <2>1, <2>2, <2>3, <2>4, PopFreeRows
<1>3. CASE Decode(d)
  <2> DEFINE src == loc[d].in
             dst == loc[d].out
             n == Len(content[src])
  <2>1. /\ pc[d] = "decompress" /\ loc' = loc /\ queue' = queue /\ pc' = [pc EXCEPT ![d] = "push"]
        /\ content' = [content EXCEPT ![dst] = content[src]]
        /\ UNCHANGED <<inFlight, dropped, written>>
    BY <1>3 DEF Decode, Goto
  <2>2. dst \in Buffers /\ src \in Buffers /\ Whole(content[src])
    BY <1>0, <2>1 DEF HoldsRight, OutFull, InFull, TextRight
  <2>3. ContentStep(d) /\ content'[dst] = content[src]
    BY <2>1, <2>2, WholeTypes, WriteOut
  <2>4. ThreadStep(d, "push", loc[d])
    BY <2>1, StepFacts DEF ThreadStep, PCs
  <2>5. RowRight(d, "push", loc[d], content')
    BY DEF RowRight
  <2>6. PICK from \in Nat : from = 0
    OBVIOUS
  <2>7. /\ pc[d] \in InLive[Stage(d)] /\ pc[d] \notin OutLive[Stage(d)]
        /\ "push" \notin InLive[Stage(d)] /\ "push" \in OutLive[Stage(d)] /\ Used(pc[d], loc[d]) = from
    BY <2>1, <2>6 DEF InLive, OutLive, Used
  <2>8. from \in Nat /\ n \in Nat /\ from + n <= n /\ from + n = n /\ Len(content'[dst]) = n
    BY <1>0, <2>2, <2>3, <2>6 DEF Contents
  <2>9. \A i \in 1..n : content'[dst][i] = content[src][from + i]
    BY <2>3, <2>6, <2>8
  <2>10. src = loc[d].in /\ dst = loc[d].out /\ n = Len(content[src])
    OBVIOUS
  <2> HIDE DEF src, dst, n
  <2>11. CopyStep(d, "push", loc[d], src, dst, from, n)
    BY <2>1, <2>2, <2>3, <2>4, <2>5, <2>7, <2>8, <2>9, <2>10 DEF CopyStep
  <2> QED BY <2>11, CopyRows
<1>4. CASE PushOut(d, "push", "release")
  <2>1. pc[d] = "push" /\ "release" \in PCs
    BY <1>4 DEF PushOut, PCs
  <2>2. loc[d].out \in Buffers
    BY <1>0, <2>1 DEF HoldsRight, OutFull
  <2>3. /\ "push" \in OutLive[Stage(d)] /\ "release" \notin OutLive[Stage(d)]
        /\ "release" \notin InLive[Stage(d)] /\ pc[d] \notin InLive[Stage(d)]
    BY <2>1 DEF OutLive, InLive
  <2>4. RowRight(d, "release", [loc[d] EXCEPT !.out = NoBuffer], content)
    BY IdlePlaces, IdleRight
  <2> QED BY <1>4, <2>1, <2>2, <2>3, <2>4, PushOutRows
<1>5. CASE ReleaseIn(d, "release", "pop")
  <2>1. loc[d].in \in Buffers
    BY <1>0, <1>5 DEF ReleaseIn, HoldsRight, InFull
  <2> QED BY <1>5, <2>1, ReleaseInRows
<1>6. CASE DecodeFails(d)
  <2>1. /\ pc[d] = "decompress" /\ Goto(d, "dropIn") /\ UNCHANGED <<loc, queue, content, inFlight>>
        /\ dropped' = dropped \cup RowsOf(content[loc[d].in]) /\ written' = written /\ "dropIn" \in PCs
    BY <1>6 DEF DecodeFails, PCs
  <2>2. loc[d].in \in Buffers /\ pc[d] \in InLive[Stage(d)]
    BY <1>0, <2>1 DEF HoldsRight, InFull, InLive
  <2> QED BY <2>1, <2>2, IdlePlaces, GoneRows
<1>7. CASE ReleaseIn(d, "dropIn", "dropOut")
  <2>1. loc[d].in \in Buffers
    BY <1>0, <1>7 DEF ReleaseIn, HoldsRight, InFull
  <2> QED BY <1>7, <2>1, ReleaseInRows
<1>8. CASE DropOut(d)
  <2> DEFINE v == [loc[d] EXCEPT !.out = NoBuffer]
  <2>1. /\ pc[d] = "dropOut" /\ pc' = [pc EXCEPT ![d] = "pop"] /\ loc' = [loc EXCEPT ![d] = v]
        /\ Put("free", loc[d].out) /\ NoRowTouched /\ "pop" \in PCs
    BY <1>8, StepFacts DEF DropOut, Goto, NoRowTouched, PCs
  <2>2. loc[d].out \in Buffers
    BY <1>0, <2>1 DEF HoldsRight, OutFull
  <2>3. v \in LocType
    BY <1>0, LocUpdate
  <2> HIDE DEF v
  <2> QED BY <2>1, <2>2, <2>3, IdlePlaces, FreeRows
<1>9. CASE Forward(d) \/ Finish(d)
  BY <1>9, ForwardRows, FinishRows
<1> QED BY <1>1, <1>2, <1>3, <1>4, <1>5, <1>6, <1>7, <1>8, <1>9 DEF Decompress

\* CsvSink::serialize copies the next tuples of the buffer it reads as text.
LEMMA SerializeRows ==
  ASSUME ClientInv, TextFits, RowsInv, NEW s \in Threads, Stage(s) = "ser", Serialize(s)
  PROVE  RowsInv'
<1>0. /\ loc \in [Threads -> LocType] /\ loc[s] \in LocType /\ content \in Contents
      /\ HoldsRight(s, pc[s], loc[s]) /\ TextRight(s, pc[s], loc[s], content)
  BY StepFacts
<1> DEFINE src == loc[s].in
           dst == loc[s].out
           rows == content[src]
           from == loc[s].off
           n == Least(Len(rows) - from, TextRowsPerBuffer)
           new == SubSeq(rows, from + 1, from + n)
           v == [loc[s] EXCEPT !.off = from + n]
<1>1. pc[s] = "serialize" /\ UNCHANGED <<queue, inFlight, dropped, written>>
  BY DEF Serialize
<1>2. /\ src \in Buffers /\ dst \in Buffers /\ src # dst /\ from \in Nat /\ loc[s].tgt = dst
      /\ Whole(rows) /\ rows \in Seq(Rows) /\ Sink = "csv" /\ ~SkipSerializer /\ from < RowsPerBuffer
      /\ IF IFormat = 4 THEN from % TextRowsPerBuffer = 0 ELSE from = 0
  <2>1. src \in Buffers /\ dst \in Buffers /\ from \in Nat
    BY <1>0, <1>1 DEF HoldsRight, InFull, OutFull, LocType
  <2>2. src # dst
    BY <2>1, HeldAlone
  <2>3. /\ loc[s].tgt = dst /\ Whole(rows) /\ Sink = "csv" /\ ~SkipSerializer /\ from < RowsPerBuffer
        /\ IF IFormat = 4 THEN from % TextRowsPerBuffer = 0 ELSE from = 0
    BY <1>0, <1>1 DEF TextRight, InFull
  <2> QED BY <2>1, <2>2, <2>3, WholeTypes
<1>3. ~Racing(s)
  BY <1>2 DEF Racing
<1>4. loc' = [loc EXCEPT ![s] = v] /\ content' = [content EXCEPT ![dst] = new]
  BY <1>0, <1>2, <1>3 DEF Serialize
<1>5. PICK p \in {"pushFull", "pushLast", "release"} :
        /\ pc' = [pc EXCEPT ![s] = p]
        /\ p = "pushFull" => IF IFormat = 4 THEN n = TextRowsPerBuffer ELSE from + n < Len(rows)
        /\ p = "pushLast" => ~(IF IFormat = 4 THEN n = TextRowsPerBuffer ELSE from + n < Len(rows))
        /\ p = "release" => ~(n > 0)
  BY <1>3 DEF Serialize, Goto
<1>6. Len(rows) = RowsPerBuffer /\ RowsPerBuffer \in Nat /\ TextRowsPerBuffer \in Nat \ {0}
  BY <1>2, SizesAssumption DEF Whole
<1> HIDE DEF src, dst, rows, from, new, v
<1>7. /\ n > 0 /\ n \in Nat /\ from + n <= RowsPerBuffer
      /\ n # TextRowsPerBuffer => from + n = RowsPerBuffer
  BY <1>2, <1>6 DEF Least
<1>8. n = Least(RowsPerBuffer - from, TextRowsPerBuffer)
  BY <1>6
<1> HIDE DEF n
<1>9. /\ p \in {"pushFull", "pushLast"}
      /\ p = "pushLast" => from + n >= Len(rows)
  <2>1. IFormat # 4 => ~(from + n < RowsPerBuffer)
    BY <1>2, <1>8, TextLoop
  <2> QED BY <1>2, <1>5, <1>6, <1>7, <2>1
<1>10. from + n \in Nat
  BY <1>2, <1>7
<1>11. v \in LocType /\ v.in = src /\ v.out = dst /\ v.off = from + n
  BY <1>0, <1>10, LocUpdate DEF SameBuffers, v, src, dst
<1>12. Len(new) = n /\ new \in Seq(Rows) /\ \A i \in 1..n : new[i] = rows[from + i]
  <2>1. /\ Len(SubSeq(rows, from + 1, from + n)) = n /\ SubSeq(rows, from + 1, from + n) \in Seq(Rows)
        /\ \A i \in 1..n : SubSeq(rows, from + 1, from + n)[i] = rows[from + i]
    <3>1. from + n \in 0..Len(rows) /\ from + 1 \in 1..(Len(rows) + 1)
      BY <1>2, <1>6, <1>7
    <3>2. \A i \in 1..n : from + 1 + i - 1 = from + i
      BY <1>2, <1>7
    <3>3. from + n - (from + 1) + 1 = n
      BY <1>2, <1>7
    <3> QED BY <1>2, <1>6, <1>7, <3>1, <3>2, <3>3
  <2> QED BY <2>1 DEF new
<1>13. ThreadStep(s, p, v)
  BY <1>4, <1>5, <1>11 DEF ThreadStep, PCs
<1>14. /\ ContentStep(s) /\ content'[dst] = new /\ content'[src] = rows
  <2>1. content'[dst] = new /\ content'[src] = rows
    BY <1>0, <1>2, <1>4 DEF Contents, rows
  <2>2. new \in Seq(Rows \cup {Placeholder}) /\ loc[s].out = dst
    BY <1>12 DEF dst
  <2> QED BY <1>2, <1>4, <1>12, <2>1, <2>2, WriteOut
<1>15. RowRight(s, p, v, content')
  BY <1>9, <1>11, <1>14 DEF RowRight
<1>16. /\ pc[s] \in InLive[Stage(s)] /\ pc[s] \notin OutLive[Stage(s)] /\ Used(pc[s], loc[s]) = from
       /\ p \in OutLive[Stage(s)] /\ p \in InLive[Stage(s)] /\ Used(p, v) = from + n
  BY <1>1, <1>9, <1>11 DEF InLive, OutLive, Used, from
<1>17. CopyStep(s, p, v, src, dst, from, n)
  <2>1. src = loc[s].in /\ dst = loc[s].out /\ rows = content[src]
    BY DEF src, dst, rows
  <2> QED BY <1>1, <1>2, <1>6, <1>7, <1>11, <1>12, <1>13, <1>14, <1>15, <1>16, <2>1 DEF CopyStep
<1> QED BY <1>17, CopyRows

\* A new buffer after a full one moves no row.
LEMMA RefillRows ==
  ASSUME ClientInv, TextFits, RowsInv, NEW s \in Threads, Stage(s) = "ser", Refill(s)
  PROVE  RowsInv'
<1>0. /\ loc \in [Threads -> LocType] /\ loc[s] \in LocType
      /\ HoldsRight(s, pc[s], loc[s]) /\ TextRight(s, pc[s], loc[s], content)
  BY StepFacts
<1>1. pc[s] = "refill" /\ IFormat = 4
  BY <1>0 DEF Refill, TextRight
<1>2. /\ pc' = [pc EXCEPT ![s] = "serialize"] /\ loc' = [loc EXCEPT ![s] = Taken(s)]
      /\ Take("free") /\ NoRowTouched
  BY <1>0, <1>1 DEF Refill, Goto, NoRowTouched, Taken
<1>3. Taken(s) \in LocType /\ Taken(s).in = loc[s].in /\ Taken(s).off = loc[s].off
  BY <1>2, FreeTaken
<1>4. ThreadStep(s, "serialize", Taken(s))
  BY <1>2, <1>3 DEF ThreadStep, PCs
<1>5. /\ pc[s] \in InLive[Stage(s)] /\ pc[s] \notin OutLive[Stage(s)] /\ Used(pc[s], loc[s]) = loc[s].off
      /\ "serialize" \in InLive[Stage(s)] /\ "serialize" \notin OutLive[Stage(s)]
      /\ Used("serialize", Taken(s)) = loc[s].off
  BY <1>1, <1>3 DEF InLive, OutLive, Used
<1>6. \A b, i : Alive(s, "serialize", Taken(s), b, i) <=> Alive(s, pc[s], loc[s], b, i)
  BY <1>3, <1>5 DEF Alive
<1>7. \A b \in Buffers : Waiting(queue', b) <=> Waiting(queue, b)
  <2>1. "free" \in QueueNames
    BY DEF QueueNames
  <2>2. Front("free") \in Buffers
    BY <1>2, <2>1, FrontType
  <2> QED BY <1>2, <2>1, <2>2, TakeAlone
<1>8. RowRight(s, "serialize", Taken(s), content)
  BY DEF RowRight
<1> QED BY <1>2, <1>4, <1>6, <1>7, <1>8, SameRows

\* CsvSink::serialize; the rows of parquet files are not followed.
LEMMA SerializeStageRows ==
  ASSUME ClientInv, TextFits, RowsInv, Sink # "parquet", NEW s \in Threads, Stage(s) = "ser",
         SerializeStage(s), ~SerializerDies(s)
  PROVE  RowsInv'
<1>0. /\ loc \in [Threads -> LocType] /\ loc[s] \in LocType /\ content \in Contents
      /\ HoldsRight(s, pc[s], loc[s]) /\ TextRight(s, pc[s], loc[s], content)
      /\ Sink = "csv" /\ ~Arrow
  BY StepFacts, ThreadFacts DEF Arrow
<1> DEFINE to == {IF SkipSerializer THEN "forward" ELSE "popFree"}
<1>1. CASE PopIn(s, to, "fetchAdd")
  <2>1. /\ to \in SUBSET PCs /\ "fetchAdd" \in PCs
        /\ \A p \in to : p \in InLive[Stage(s)] \ OutLive[Stage(s)] /\ p \in {"forward", "popFree", "write"}
    BY DEF PCs, InLive, OutLive
  <2>2. Idle(s, "fetchAdd")
    BY IdlePlaces
  <2> HIDE DEF to
  <2> QED BY <1>1, <2>1, <2>2, PopInRows
<1>2. CASE PopFree(s, "popFree", AfterPopFree(s))
  <2>1. pc[s] = "popFree" /\ AfterPopFree(s) = "serialize" /\ "serialize" \in PCs /\ Take("free")
    BY <1>0, <1>2, AfterPopFreeValue DEF PopFree, PCs
  <2>2. PopFree(s, "popFree", "serialize")
    BY <1>2, <2>1
  <2>3. /\ "serialize" \in InLive[Stage(s)] /\ "serialize" \notin OutLive[Stage(s)]
        /\ pc[s] \in InLive[Stage(s)] /\ pc[s] \notin OutLive[Stage(s)]
    BY <2>1 DEF InLive, OutLive
  <2>4. Used("serialize", Taken(s)) = Used(pc[s], loc[s])
    <3>1. loc[s].off = 0
      BY <1>0, <2>1 DEF TextRight
    <3> QED BY <2>1, <3>1, FreeTaken DEF Used
  <2>5. RowRight(s, "serialize", Taken(s), content)
    BY DEF RowRight
  <2> QED BY <2>1, <2>2, <2>3, <2>4, <2>5, PopFreeRows
<1>3. CASE Convert(s)
  BY <1>0, <1>3 DEF Convert, HoldsRight
<1>4. CASE ArrowFails(s)
  BY <1>0, <1>4 DEF ArrowFails
<1>5. CASE PushOut(s, "pushFull", "refill")
  <2> DEFINE v == [loc[s] EXCEPT !.out = NoBuffer]
  <2>1. pc[s] = "pushFull" /\ "refill" \in PCs
    BY <1>5 DEF PushOut, PCs
  <2>2. loc[s].out \in Buffers
    BY <1>0, <2>1 DEF HoldsRight, OutFull
  <2>3. /\ "pushFull" \in OutLive[Stage(s)] /\ "refill" \notin OutLive[Stage(s)]
        /\ "refill" \in InLive[Stage(s)] /\ pc[s] \in InLive[Stage(s)]
    BY <2>1 DEF OutLive, InLive
  <2>4. Used("refill", v) = Used(pc[s], loc[s])
    <3>1. v.off = loc[s].off
      BY <1>0, LocUpdate
    <3> QED BY <2>1, <3>1 DEF Used
  <2>5. RowRight(s, "refill", v, content)
    BY DEF RowRight
  <2> QED BY <1>5, <2>1, <2>2, <2>3, <2>4, <2>5, PushOutRows
<1>6. CASE PushOut(s, "pushLast", "release")
  <2> DEFINE v == [loc[s] EXCEPT !.out = NoBuffer]
  <2>1. pc[s] = "pushLast" /\ "release" \in PCs
    BY <1>6 DEF PushOut, PCs
  <2>2. loc[s].out \in Buffers /\ loc[s].in \in Buffers
    BY <1>0, <2>1 DEF HoldsRight, OutFull, InFull
  <2>3. /\ "pushLast" \in OutLive[Stage(s)] /\ "release" \notin OutLive[Stage(s)]
        /\ "release" \notin InLive[Stage(s)] /\ pc[s] \in InLive[Stage(s)]
    BY <2>1 DEF OutLive, InLive
  <2>4. Used(pc[s], loc[s]) >= Len(content[loc[s].in])
    BY <2>1 DEF RowsInv, RowRight, Used
  <2>5. ASSUME NEW i \in Nat \ {0}, i <= Len(content[loc[s].in])
        PROVE  ~(i > Used(pc[s], loc[s]))
    <3>1. Len(content[loc[s].in]) \in Nat /\ Used(pc[s], loc[s]) \in Nat
      BY <1>0, <2>1, <2>2 DEF Contents, Used, LocType
    <3> QED BY <2>4, <2>5, <3>1
  <2>6. RowRight(s, "release", v, content)
    BY IdlePlaces, IdleRight
  <2> QED BY <1>6, <2>1, <2>2, <2>3, <2>5, <2>6, PushOutRows
<1>7. CASE ReleaseIn(s, "release", "pop")
  <2>1. loc[s].in \in Buffers
    BY <1>0, <1>7 DEF ReleaseIn, HoldsRight, InFull
  <2> QED BY <1>7, <2>1, ReleaseInRows
<1>8. CASE Forward(s) \/ Serialize(s) \/ Refill(s) \/ Finish(s)
  BY <1>8, ForwardRows, SerializeRows, RefillRows, FinishRows
<1> QED BY <1>0, <1>1, <1>2, <1>3, <1>4, <1>5, <1>6, <1>7, <1>8 DEF SerializeStage

\* CsvSink::write, and a program that pulls, write what they read.
LEMMA WriteRows ==
  ASSUME ClientInv, TextFits, RowsInv, Sink # "parquet", NEW w \in Threads, Stage(w) = "write",
         Write(w), ~OpenFails(w)
  PROVE  RowsInv'
<1>0. HoldsRight(w, pc[w], loc[w]) /\ RowRight(w, pc[w], loc[w], content)
  BY StepFacts DEF RowsInv
<1>1. CASE Open(w) \/ CountEmpty(w)
  BY <1>1, IdleGoto, IdlePlaces DEF Open, CountEmpty, NoRowTouched, PCs
<1>2. CASE HasNext(w)
  <2> DEFINE p == IF finished.empty = WriteParallelism THEN "done" ELSE "pop"
  <2>1. pc[w] = "hasNext" /\ Goto(w, p) /\ loc' = loc /\ queue' = queue /\ NoRowTouched
    BY <1>2 DEF HasNext, NoRowTouched
  <2>2. p \in {"done", "pop"} /\ p \in PCs
    BY DEF PCs
  <2> HIDE DEF p
  <2> QED BY <2>1, <2>2, IdleGoto, IdlePlaces
<1>3. CASE PopIn(w, {Writing}, WriteEnd)
  <2>1. Writing = "write" /\ WriteEnd \in {"invalid", "done"}
    BY OptionsAssumption DEF Writing, WriteEnd
  <2>2. /\ {Writing} \in SUBSET PCs /\ WriteEnd \in PCs
        /\ \A s \in {Writing} : s \in InLive[Stage(w)] \ OutLive[Stage(w)] /\ s \in {"forward", "popFree", "write"}
    BY <2>1 DEF PCs, InLive, OutLive
  <2>3. Idle(w, WriteEnd)
    BY <2>1, IdlePlaces
  <2> QED BY <1>3, <2>2, <2>3, PopInRows
<1>4. CASE WriteBuffer(w)
  <2>1. /\ pc[w] = "write" /\ Goto(w, "release") /\ UNCHANGED <<loc, queue, content, inFlight>>
        /\ written' = [r \in Rows |-> written[r] + Occurrences(r, content[loc[w].in])]
        /\ dropped' = dropped /\ "release" \in PCs
    BY <1>4 DEF WriteBuffer, PCs
  <2>2. loc[w].in \in Buffers /\ pc[w] \in InLive[Stage(w)]
    BY <1>0, <2>1 DEF HoldsRight, InFull, InLive
  <2> QED BY <2>1, <2>2, IdlePlaces, GoneRows
<1>5. CASE OpenFile(w) \/ WriteFile(w) \/ WriteFilePast(w)
  BY <1>0, <1>5 DEF OpenFile, WriteFile, WriteFilePast, RowRight
<1>6. CASE ReleaseIn(w, "release", WriteAgain)
  <2>1. loc[w].in \in Buffers
    BY <1>0, <1>6 DEF ReleaseIn, HoldsRight, InFull
  <2> QED BY <1>6, <2>1, WriterPlaces, ReleaseInRows
<1> QED BY <1>1, <1>2, <1>3, <1>4, <1>5, <1>6 DEF Write

-----------------------------------------------------------------------------
(* The invariant. *)

\* At the start every row is ahead.
LEMMA RowsInit ==
  ASSUME Init
  PROVE  RowsInv
<1>1. ASSUME NEW t \in Threads
      PROVE  pc[t] \in {"connect", "pop", "fetchAdd", "open", "hasNext"} /\ RowRight(t, pc[t], loc[t], content)
  <2>1. pc[t] \in {"connect", "pop", "fetchAdd", "open", "hasNext"}
    BY <1>1, ThreadFacts, Starts DEF Init
  <2> QED BY <2>1 DEF RowRight
<1>2. \A b \in Buffers : content[b] = <<>>
  BY DEF Init
<1>3. Live(queue, pc, loc, content) = {}
  BY <1>2 DEF Live
<1>4. (\A r \in Rows : written[r] = 0) /\ dropped = {} /\ inFlight = IncomingBuffers
  BY DEF Init
<1>5. Ahead = Rows
  <2>1. IncomingBuffers \in Nat /\ RowsPerBuffer \in Nat /\ IncomingBuffers - inFlight = 0
    BY <1>4, SizesAssumption
  <2>2. 0 * RowsPerBuffer + 1 = 1
    BY <2>1
  <2> QED BY <2>1, <2>2 DEF Ahead, Rows
<1>6. RowsKept
  BY <1>3, <1>4, <1>5 DEF RowsKept, Accounted
<1> QED BY <1>1, <1>6 DEF RowsInv

\* The main thread touches no row.
LEMMA RowsSame ==
  ASSUME RowsInv, UNCHANGED <<pc, loc, queue, content, inFlight, dropped, written>>
  PROVE  RowsInv'
<1>1. Ahead' = Ahead
  BY DEF Ahead
<1>2. RowsKept' <=> Accounted(Live(queue', pc', loc', content'), content', written', dropped', Ahead')
  BY DEF RowsKept, Live, LiveAt, Waiting, Accounted, At, Alive, Used
<1>3. RowsKept'
  BY <1>1, <1>2 DEF RowsInv, RowsKept
<1> QED BY <1>3 DEF RowsInv, RowRight

\* Every step keeps the rows accounted for.
LEMMA RowsStep ==
  ASSUME TextFits, Sink # "parquet", ClientInv, RowsInv, [Next]_vars
  PROVE  RowsInv'
<1>1. ASSUME NEW t \in Threads, Step(t), ~OpenFails(t), ~SerializerDies(t) PROVE RowsInv'
  BY <1>1, ReceiveRows, DecompressRows, SerializeStageRows, WriteRows DEF Step
<1>2. ASSUME NEW t \in Threads, OpenFails(t) \/ SerializerDies(t) PROVE RowsInv'
  BY <1>2, RowsSame DEF OpenFails, SerializerDies
<1>3. CASE Main
  BY <1>3, RowsSame DEF Main
<1>4. CASE UNCHANGED vars
  BY <1>4, RowsSame DEF vars
<1> QED BY <1>1, <1>2, <1>3, <1>4 DEF Next, Terminated

\* The rows are accounted for in every reachable state.
LEMMA RowsInvariant ==
  ASSUME TextFits, Sink # "parquet"
  PROVE  Spec => []RowsInv
<1>1. Init => RowsInv
  BY RowsInit
<1>2. ClientInv /\ RowsInv /\ [Next]_vars => RowsInv'
  BY RowsStep
<1> QED BY <1>1, <1>2, ClientInvariant, PTL DEF Spec

\* Every row that a client with a CsvSink, or one that pulls buffers, has read is at
\* exactly one place of a buffer on its way, or given up with a buffer that could not
\* be read or decoded, or written; and a row still to be read is none of these.  This
\* holds for every number of threads and buffers, in every interleaving of the stages
\* and with every fault, as long as the text of a buffer fits.
THEOREM ClientRowsKept ==
  ASSUME TextFits, Sink # "parquet"
  PROVE  Spec => []RowsKept
<1>1. RowsInv => RowsKept
  BY DEF RowsInv
<1> QED BY <1>1, RowsInvariant, PTL

\* No row is written, or pulled, twice, and none after it has been given up.
THEOREM NoRowWrittenTwice ==
  ASSUME TextFits, Sink # "parquet"
  PROVE  Spec => [](\A r \in Rows : written[r] <= IF r \in dropped THEN 0 ELSE 1)
<1>1. RowsInv => \A r \in Rows : written[r] <= IF r \in dropped THEN 0 ELSE 1
  BY DEF RowsInv, RowsKept, Accounted
<1> QED BY <1>1, RowsInvariant, PTL

\* A thread that is done stays done.
LEMMA DoneStays ==
  ASSUME ClientInv, [Next]_vars, NEW w \in Writers, pc[w] = "done"
  PROVE  pc'[w] = "done"
<1>1. w \in Threads /\ Stage(w) = "write"
  BY DEF Threads, Writers, Stage
<1>2. ASSUME NEW t \in Threads, Step(t) PROVE pc'[w] = "done"
  <2>1. CASE t # w
    <3>1. Effect(t)
      BY <1>2, ReceiveEffect, DecompressEffect, SerializeEffect, WriteEffect DEF Step
    <3> QED BY <1>1, <2>1, <3>1 DEF Effect, OnlyMoves
  <2>2. CASE t = w
    <3>1. Write(w)
      BY <1>1, <1>2, <2>2 DEF Step
    <3> QED BY <3>1 DEF Write, Open, OpenFails, HasNext, PopIn, CountEmpty, WriteBuffer, OpenFile, WriteFile,
                        WriteFilePast, ReleaseIn
  <2> QED BY <2>1, <2>2
<1>3. CASE Main
  BY <1>3 DEF Main
<1>4. CASE UNCHANGED vars
  BY <1>4 DEF vars
<1> QED BY <1>2, <1>3, <1>4 DEF Next, Terminated

\* main() goes on when its writers are done, and they stay so.
LEMMA EndStep ==
  ASSUME ClientInv, \A w \in Writers : pc[w] # "failed", EndInv, [Next]_vars
  PROVE  EndInv'
<1>1. ASSUME NEW t \in Threads, Step(t) PROVE main' = main \/ main' = "aborted"
  BY <1>1 DEF Step, Receive, Decompress, SerializeStage, Write, Connect, ConnectFails, PopFree, ReadBuffer,
              EndOfFile, ReadFails, PushOut, Finish, FetchAdd, LoadFinished, PushSentinel, PopIn, Forward,
              Decode, ReleaseIn, DecodeFails, DropOut, PopBoth, Convert, ArrowFails, SerializerDies, Serialize, Refill,
              Open, OpenFails, HasNext, CountEmpty, WriteBuffer, OpenFile, WriteFile, WriteFilePast
<1>2. main' \in {"joinDecomp", "joinRcv", "joined", "done"} /\ main' # main =>
        main \in {"joinDecomp", "joinRcv", "joined"} \/ \A w \in Writers : Ended(w)
  <2>1. CASE Main
    BY <2>1 DEF Main
  <2>2. CASE main' = main \/ main' = "aborted"
    BY <2>2
  <2>3. CASE UNCHANGED vars
    BY <2>3 DEF vars
  <2> QED BY <1>1, <2>1, <2>2, <2>3 DEF Next, Terminated
<1>3. \A w \in Writers : Ended(w) => pc[w] = "done"
  BY DEF Ended
<1>4. main' \in {"joinDecomp", "joinRcv", "joined", "done"} => \A w \in Writers : pc[w] = "done"
  BY <1>2, <1>3 DEF EndInv
<1> QED BY <1>4, DoneStays DEF EndInv

\* The end of a transfer: if nothing is on its way, every row read and not given up
\* has been written.
LEMMA AllWritten ==
  ASSUME ClientInv, RowsInv, EndInv, WritersEndLast, main = "done"
  PROVE  \A r \in 1..((IncomingBuffers - inFlight) * RowsPerBuffer) \ dropped : written[r] = 1
<1>1. \A w \in Writers : pc[w] = "done"
  BY DEF EndInv
<1>2. \E w \in Writers : pc[w] = "done"
  <2>1. <<"write", 1>> \in Writers
    BY ParallelismAssumption DEF Writers
  <2> QED BY <1>1, <2>1
<1>3. /\ \A n \in Between : \A i \in 1..Len(queue[n]) : queue[n][i] = Sentinel
      /\ \A t \in Receivers \cup Decomps \cup Serializers : pc[t] \in {"load", "signal", "done"}
  BY <1>2 DEF WritersEndLast, Between
<1>4. \A t \in Threads : pc[t] \in {"load", "signal", "done"}
  BY <1>1, <1>3 DEF Threads
<1>5. \A b \in Buffers : ~Waiting(queue, b)
  BY <1>3, BufferFacts DEF Waiting
<1>6. ASSUME NEW t \in Threads, NEW b, NEW i PROVE ~Alive(t, pc[t], loc[t], b, i)
  <2>1. Idle(t, pc[t])
    BY <1>4, IdlePlaces
  <2> QED BY <2>1, IdleRight
<1>7. Live(queue, pc, loc, content) = {}
  BY <1>5, <1>6 DEF Live, LiveAt
<1> SUFFICES ASSUME NEW r \in 1..((IncomingBuffers - inFlight) * RowsPerBuffer), r \notin dropped
             PROVE  written[r] = 1
  OBVIOUS
<1>8. r \in Rows /\ r \notin Ahead
  <2>1. /\ IncomingBuffers - inFlight \in Nat /\ IncomingBuffers \in Nat /\ RowsPerBuffer \in Nat
        /\ IncomingBuffers - inFlight <= IncomingBuffers
    BY SizesAssumption DEF ClientInv, TypeOK
  <2>2. /\ (IncomingBuffers - inFlight) * RowsPerBuffer \in Nat /\ IncomingBuffers * RowsPerBuffer \in Nat
        /\ (IncomingBuffers - inFlight) * RowsPerBuffer <= IncomingBuffers * RowsPerBuffer
    BY <2>1, ProductNat, RowNumbers
  <2> QED BY <2>2 DEF Rows, Ahead
<1> QED BY <1>7, <1>8 DEF RowsInv, RowsKept, Accounted

\* When main() of a client with a CsvSink returns, every row that was read and decoded
\* is in an output file exactly once, and no row is there twice or after it was given
\* up: for every number of threads and buffers, in every interleaving and with every
\* fault after which main() returns at all, as long as the text of a buffer fits.
THEOREM CsvRowsWrittenOnce ==
  ASSUME TextFits, Sink = "csv"
  PROVE  Spec => []RowsWrittenOnce
<1>1. Sink # "parquet" /\ Sink # "pull" /\ ~Arrow /\ StartPC["ser"] = "pop"
  BY DEF Arrow, StartPC
<1>2. Init => EndInv
  BY DEF Init, EndInv
<1>3. ClientInv /\ RowsInv /\ EndInv /\ [Next]_vars => EndInv'
  <2> SUFFICES ASSUME ClientInv, RowsInv, EndInv, [Next]_vars PROVE EndInv'
    OBVIOUS
  <2>1. \A w \in Writers : w \in Threads /\ Stage(w) = "write"
    BY DEF Threads, Writers, Stage
  <2>2. \A w \in Writers : pc[w] # "failed"
    BY <2>1 DEF RowsInv, RowRight
  <2> QED BY <2>2, EndStep
<1>4. Spec => []RowsInv
  BY <1>1, RowsInvariant
<1>5. Spec => []WritersEndLast
  BY <1>1, NothingLeftUnwritten
<1>6. ClientInv /\ RowsInv /\ EndInv /\ WritersEndLast => RowsWrittenOnce
  <2> SUFFICES ASSUME ClientInv, RowsInv, EndInv, WritersEndLast PROVE RowsWrittenOnce
    OBVIOUS
  <2>1. \A r \in Rows : written[r] <= IF r \in dropped THEN 0 ELSE 1
    BY DEF RowsInv, RowsKept, Accounted
  <2>2. main = "done" =>
          \A r \in 1..((IncomingBuffers - inFlight) * RowsPerBuffer) \ dropped : written[r] = 1
    BY AllWritten
  <2> QED BY <2>1, <2>2 DEF RowsWrittenOnce
<1> QED BY <1>2, <1>3, <1>4, <1>5, <1>6, ClientInvariant, PTL DEF Spec

-----------------------------------------------------------------------------
(* What is left of the pool at the end. *)

Stopped == {"fetchAdd", "load", "signal", "done"}

\* What thread t at s has left in its variables v when it has stopped: a receiver the
\* free buffer it took before the end of the stream, the others nothing.
EndHolds(t, s, v) ==
  /\ Stage(t) = "rcv" => v.in = NoBuffer /\ (s \in Stopped => v.out \in Buffers)
  /\ Stage(t) \in {"decomp", "ser"} /\ s \in Stopped => v.in = NoBuffer /\ v.out = NoBuffer
  /\ Stage(t) = "write" => v.out = NoBuffer /\ s # "failed" /\ (s \in Stopped => v.in = NoBuffer)

LeftInv == \A t \in Threads : EndHolds(t, pc[t], loc[t])

\* A step of thread t alone, from what it holds after it.
LEMMA LeftStep ==
  ASSUME LeftInv, NEW t \in Threads, OnlyMoves(t), EndHolds(t, pc'[t], loc'[t])
  PROVE  LeftInv'
<1>1. \A u \in Threads : EndHolds(u, pc'[u], loc'[u])
  BY DEF LeftInv, OnlyMoves
<1> QED BY <1>1 DEF LeftInv, EndHolds

\* fetch_add, the second look at the counter and the sentinels.
LEMMA FinishLeft ==
  ASSUME ClientInv, LeftInv, NEW t \in Threads, Stage(t) \in {"rcv", "decomp", "ser"}, Finish(t), OnlyMoves(t)
  PROVE  LeftInv'
<1>0. loc \in [Threads -> LocType] /\ loc[t] \in LocType /\ HoldsRight(t, pc[t], loc[t])
  BY StepFacts
<1>1. PICK s \in {"load", "signal", "done"} : pc' = [pc EXCEPT ![t] = s]
  BY DEF Finish, FetchAdd, LoadFinished, PushSentinel, Goto
<1>2. pc[t] \in Stopped
  BY DEF Finish, FetchAdd, LoadFinished, PushSentinel, Stopped
<1>3. PICK k \in Nat : loc' = [loc EXCEPT ![t] = [loc[t] EXCEPT !.left = k]]
  <2>1. CASE loc' = loc
    <3>1. loc[t].left \in Nat /\ loc' = [loc EXCEPT ![t] = [loc[t] EXCEPT !.left = loc[t].left]]
      BY <1>0, <2>1 DEF LocType
    <3> QED BY <3>1
  <2>2. CASE LoadFinished(t) /\ loc' # loc
    <3>1. loc' = [loc EXCEPT ![t] = [loc[t] EXCEPT !.left = Parallelism[NextStage[Stage(t)]]]]
      BY <1>0, <2>2 DEF LoadFinished
    <3> QED BY <3>1, ThreadFacts
  <2>3. CASE PushSentinel(t)
    <3>1. loc' = [loc EXCEPT ![t] = [loc[t] EXCEPT !.left = loc[t].left - 1]] /\ loc[t].left - 1 \in Nat
      BY <1>0, <2>3 DEF PushSentinel, HoldsRight, LocType
    <3> QED BY <3>1
  <2> QED BY <2>1, <2>2, <2>3 DEF Finish, FetchAdd
<1> DEFINE v == [loc[t] EXCEPT !.left = k]
<1>4. v \in LocType /\ v.in = loc[t].in /\ v.out = loc[t].out
  BY <1>0, LocUpdate DEF SameBuffers
<1> HIDE DEF v
<1>5. pc'[t] = s /\ loc'[t] = v
  BY <1>0, <1>1, <1>3, StepFacts DEF v
<1>6. EndHolds(t, s, v)
  <2>1. EndHolds(t, pc[t], loc[t])
    BY DEF LeftInv
  <2> QED BY <1>2, <1>4, <2>1 DEF EndHolds, Stopped
<1> QED BY <1>5, <1>6, LeftStep

\* XClient::receive.
LEMMA ReceiveLeft ==
  ASSUME ClientInv, LeftInv, NEW r \in Threads, Stage(r) = "rcv", Receive(r), OnlyMoves(r)
  PROVE  LeftInv'
<1>0. /\ pc \in [Threads -> PCs] /\ loc \in [Threads -> LocType] /\ loc[r] \in LocType
      /\ HoldsRight(r, pc[r], loc[r]) /\ loc[r].in = NoBuffer
  BY StepFacts DEF LeftInv, EndHolds
<1>1. CASE Connect(r) \/ ConnectFails(r) \/ ReadBuffer(r)
  <2>1. pc'[r] \notin Stopped /\ loc' = loc
    BY <1>0, <1>1 DEF Connect, ConnectFails, ReadBuffer, Goto, Stopped
  <2> QED BY <1>0, <2>1, LeftStep DEF EndHolds
<1>2. CASE EndOfFile(r) \/ ReadFails(r)
  <2>1. pc[r] = "read" /\ loc' = loc
    BY <1>2 DEF EndOfFile, ReadFails
  <2>2. loc[r].out \in Buffers
    BY <1>0, <2>1 DEF HoldsRight, OutFull
  <2> QED BY <1>0, <2>1, <2>2, LeftStep DEF EndHolds
<1>3. CASE PopFree(r, "popFree", "read") \/ PushOut(r, "push", "popFree")
  <2>1. pc'[r] \notin Stopped
    BY <1>0, <1>3 DEF PopFree, PushOut, Goto, Stopped
  <2>2. loc'[r].in = loc[r].in
    <3>1. CASE PopFree(r, "popFree", "read")
      <4>1. loc' = [loc EXCEPT ![r] = Taken(r)] /\ Take("free")
        BY <1>0, <3>1 DEF PopFree, Taken
      <4> QED BY <1>0, <4>1, FreeTaken
    <3>2. CASE PushOut(r, "push", "popFree")
      <4>1. loc' = [loc EXCEPT ![r] = [loc[r] EXCEPT !.out = NoBuffer]]
        BY <1>0, <3>2 DEF PushOut
      <4> QED BY <1>0, <4>1, LocUpdate
    <3> QED BY <1>3, <3>1, <3>2
  <2> QED BY <1>0, <2>1, <2>2, LeftStep DEF EndHolds
<1>4. CASE Finish(r)
  BY <1>4, FinishLeft
<1> QED BY <1>1, <1>2, <1>3, <1>4 DEF Receive

\* XClient::decompress and the serializers of the sinks.
LEMMA WorkLeft ==
  ASSUME ClientInv, TextFits, ~Arrow, LeftInv, NEW t \in Threads, OnlyMoves(t),
         \/ Stage(t) = "decomp" /\ Decompress(t)
         \/ Stage(t) = "ser" /\ SerializeStage(t)
  PROVE  LeftInv'
<1>0. /\ pc \in [Threads -> PCs] /\ loc \in [Threads -> LocType]
      /\ HoldsRight(t, pc[t], loc[t]) /\ Stage(t) \in {"decomp", "ser"}
  BY StepFacts
<1>1. CASE pc'[t] \notin Stopped
  BY <1>0, <1>1, LeftStep DEF EndHolds
<1>2. CASE pc[t] = "pop" /\ loc' = loc
  <2>1. loc[t].in = NoBuffer /\ loc[t].out = NoBuffer
    BY <1>0, <1>2 DEF HoldsRight, InEmpty, OutEmpty
  <2> QED BY <1>0, <1>2, <2>1, LeftStep DEF EndHolds
<1>3. CASE Finish(t)
  BY <1>0, <1>3, FinishLeft
<1>4. ASSUME NEW to, PopIn(t, to, "fetchAdd"), \A s \in to : s \notin Stopped
      PROVE  pc'[t] \notin Stopped \/ (pc[t] = "pop" /\ loc' = loc)
  BY <1>0, <1>4 DEF PopIn, Goto
<1>5. CASE Stage(t) = "decomp" /\ Decompress(t)
  <2>1. ASSUME ~Finish(t) PROVE pc'[t] \notin Stopped \/ (pc[t] = "pop" /\ loc' = loc)
    <3> DEFINE to == IF Compression THEN {"forward", "popFree"} ELSE {"forward"}
    <3>1. CASE PopIn(t, to, "fetchAdd")
      BY <1>4, <3>1 DEF Stopped
    <3>2. CASE ~PopIn(t, to, "fetchAdd")
      BY <1>0, <1>5, <2>1, <3>2 DEF Decompress, Forward, PopFree, Decode, PushOut, ReleaseIn, DecodeFails,
                                    DropOut, Goto, Stopped
    <3> QED BY <3>1, <3>2
  <2> QED BY <1>1, <1>2, <1>3, <2>1
<1>6. CASE Stage(t) = "ser" /\ SerializeStage(t)
  <2>1. ASSUME ~Finish(t) PROVE pc'[t] \notin Stopped \/ (pc[t] = "pop" /\ loc' = loc)
    <3> DEFINE to == {IF SkipSerializer THEN "forward" ELSE "popFree"}
    <3>1. CASE PopIn(t, to, "fetchAdd")
      BY <1>4, <3>1 DEF Stopped
    <3>2. CASE PopFree(t, "popFree", AfterPopFree(t))
      <4>1. pc[t] = "popFree" /\ pc' = [pc EXCEPT ![t] = AfterPopFree(t)]
        BY <3>2 DEF PopFree, Goto
      <4>2. loc[t].in \in Buffers
        BY <1>0, <1>6, <4>1 DEF HoldsRight, InFull
      <4>3. AfterPopFree(t) \in {"serialize", "convert"}
        BY <1>6, <4>2, BufferFacts, ThreadFacts, AfterPopFreeValue
      <4> QED BY <1>0, <4>1, <4>3 DEF Stopped
    <3>3. CASE Serialize(t) \/ Refill(t) \/ Convert(t) \/ ArrowFails(t)
      BY <1>0, <3>3 DEF Serialize, Refill, Convert, ArrowFails, Goto, Stopped
    <3>4. CASE Forward(t) \/ PushOut(t, "pushFull", "refill") \/ PushOut(t, "pushLast", "release")
               \/ ReleaseIn(t, "release", "pop")
      BY <1>0, <3>4 DEF Forward, PushOut, ReleaseIn, Goto, Stopped
    <3>5. CASE SerializerDies(t)
      BY <1>0, <3>5 DEF SerializerDies, Stopped
    <3> QED BY <1>6, <2>1, <3>1, <3>2, <3>3, <3>4, <3>5 DEF SerializeStage
  <2> QED BY <1>1, <1>2, <1>3, <2>1
<1> QED BY <1>5, <1>6

\* The writers of the sinks.
LEMMA WriteLeft ==
  ASSUME ClientInv, Sink # "pull", LeftInv, NEW w \in Threads, Stage(w) = "write", Write(w), OnlyMoves(w)
  PROVE  LeftInv'
<1>0. /\ pc \in [Threads -> PCs] /\ loc \in [Threads -> LocType] /\ loc[w] \in LocType
      /\ HoldsRight(w, pc[w], loc[w]) /\ loc[w].out = NoBuffer /\ EndHolds(w, pc[w], loc[w])
  BY StepFacts DEF LeftInv, EndHolds
<1>1. CASE OpenFails(w)
  BY <1>0, <1>1, LeftStep DEF OpenFails
<1>2. CASE HasNext(w) \/ CountEmpty(w)
  BY <1>0, <1>2 DEF HasNext, CountEmpty, HoldsRight
<1>3. CASE Open(w) \/ WriteBuffer(w) \/ WriteFile(w) \/ WriteFilePast(w)
  <2>1. pc'[w] \in {"pop", "release", "undefined"} /\ loc' = loc
    BY <1>0, <1>3 DEF Open, WriteBuffer, WriteFile, WriteFilePast, Goto
  <2> QED BY <1>0, <2>1, LeftStep DEF EndHolds, Stopped
<1>4. CASE PopIn(w, {Writing}, WriteEnd)
  <2>1. Writing \in {"write", "openFile"} /\ WriteEnd = "done" /\ pc[w] = "pop"
    BY <1>4, WriterPlaces DEF PopIn, WriteEnd
  <2>2. loc[w].in = NoBuffer
    BY <1>0, <2>1 DEF HoldsRight, InEmpty
  <2>3. CASE Front(From(w)) = Sentinel
    BY <1>0, <1>4, <2>1, <2>2, <2>3, LeftStep DEF PopIn, Goto, EndHolds
  <2>4. CASE Front(From(w)) # Sentinel
    <3>1. loc' = [loc EXCEPT ![w] = PoppedIn(w)] /\ pc' = [pc EXCEPT ![w] = Writing]
      BY <1>0, <1>4, <2>4 DEF PopIn, Goto, PoppedIn
    <3>2. loc'[w].out = loc[w].out
      BY <1>0, <3>1 DEF PoppedIn, LocType
    <3> QED BY <1>0, <2>1, <3>1, <3>2, LeftStep DEF EndHolds, Stopped
  <2> QED BY <2>3, <2>4
<1>5. CASE OpenFile(w)
  <2>1. pc'[w] = "writeFile" /\ loc' = [loc EXCEPT ![w] = [loc[w] EXCEPT !.suffix = loc[w].suffix + 1]]
    BY <1>0, <1>5 DEF OpenFile, Goto
  <2>2. loc'[w].out = loc[w].out
    BY <1>0, <2>1 DEF LocType
  <2> QED BY <1>0, <2>1, <2>2, LeftStep DEF EndHolds, Stopped
<1>6. CASE ReleaseIn(w, "release", WriteAgain)
  <2>1. pc' = [pc EXCEPT ![w] = WriteAgain] /\ loc' = [loc EXCEPT ![w] = [loc[w] EXCEPT !.in = NoBuffer]]
    BY <1>0, <1>6 DEF ReleaseIn, Goto
  <2>2. loc'[w].out = loc[w].out
    BY <1>0, <2>1, LocUpdate
  <2> QED BY <1>0, <2>1, <2>2, WriterPlaces, LeftStep DEF EndHolds, Stopped
<1> QED BY <1>1, <1>2, <1>3, <1>4, <1>5, <1>6 DEF Write

\* At the start no thread has a buffer.
LEMMA LeftInit ==
  ASSUME Init
  PROVE  LeftInv
<1> SUFFICES ASSUME NEW t \in Threads PROVE EndHolds(t, pc[t], loc[t])
  BY DEF LeftInv
<1>1. pc[t] = StartPC[Stage(t)] /\ loc[t].in = NoBuffer /\ loc[t].out = NoBuffer
  BY DEF Init
<1> QED BY <1>1, ThreadFacts, Starts DEF EndHolds, Stopped

\* What threads have left when they stop, in every reachable state.
LEMMA LeftInvariant ==
  ASSUME TextFits, Sink # "pull", ~Arrow
  PROVE  Spec => []LeftInv
<1>1. Init => LeftInv
  BY LeftInit
<1>2. ASSUME ClientInv, LeftInv, [Next]_vars PROVE LeftInv'
  <2>1. ASSUME NEW t \in Threads, Step(t) PROVE LeftInv'
    <3>1. OnlyMoves(t)
      BY <1>2, <2>1, ReceiveEffect, DecompressEffect, SerializeEffect, WriteEffect DEF Step, Effect
    <3> QED BY <1>2, <2>1, <3>1, ReceiveLeft, WorkLeft, WriteLeft DEF Step
  <2>2. CASE Main
    BY <1>2, <2>2 DEF Main, LeftInv, EndHolds
  <2>3. CASE UNCHANGED vars
    BY <1>2, <2>3 DEF vars, LeftInv, EndHolds
  <2> QED BY <1>2, <2>1, <2>2, <2>3 DEF Next, Terminated
<1> QED BY <1>1, <1>2, ClientInvariant, PTL DEF Spec

\* Where the buffers are when everything is joined.
LEMMA LeftAtEnd ==
  ASSUME ClientInv, LeftInv, WritersEndLast, BufferConservation, Sink # "pull", ~Arrow,
         \A w \in Writers : pc[w] = "done"
  PROVE  /\ \A r \in Receivers : loc[r].out # NoBuffer
         /\ \A s \in Serializers : loc[s].out = NoBuffer
         /\ Len(queue.free) = BuffersInBufferpool - RcvParallelism
<1>0. /\ loc \in [Threads -> LocType] /\ queue["free"] \in Seq(Buffers) /\ content \in Contents
      /\ DOMAIN queue = QueueNames
  BY TypeParts DEF ClientInv, QueueTypes
<1>1. <<"write", 1>> \in Writers
  BY ParallelismAssumption DEF Writers
<1>2. /\ \A n \in Between : \A i \in 1..Len(queue[n]) : queue[n][i] = Sentinel
      /\ \A t \in Receivers \cup Decomps \cup Serializers : pc[t] \in Stopped
  BY <1>1 DEF WritersEndLast, Between, Stopped
<1>3. \A r \in Receivers : loc[r].in = NoBuffer /\ loc[r].out \in Buffers
  BY <1>2 DEF LeftInv, EndHolds, Threads, Receivers, Stage
<1>4. \A t \in Decomps \cup Serializers : loc[t].in = NoBuffer /\ loc[t].out = NoBuffer
  BY <1>2 DEF LeftInv, EndHolds, Threads, Decomps, Serializers, Stage
<1>5. \A w \in Writers : loc[w].in = NoBuffer /\ loc[w].out = NoBuffer
  BY DEF LeftInv, EndHolds, Threads, Writers, Stage, Stopped
<1> DEFINE queued == {s \in QueueSlots : queue[s[1]][s[2]] # Sentinel}
           held == {s \in ThreadSlots : loc[s[1]][s[2]] # NoBuffer}
           n == Len(queue["free"])
<1>6. held = Receivers \X {"out"}
  <2>1. ASSUME NEW s \in held PROVE s \in Receivers \X {"out"}
    <3>1. s[1] \in Threads /\ s[2] \in {"in", "out"} /\ s = <<s[1], s[2]>> /\ loc[s[1]][s[2]] # NoBuffer
      BY <1>0 DEF ThreadSlots
    <3>2. s[1] \in Receivers /\ s[2] = "out"
      BY <1>3, <1>4, <1>5, <3>1 DEF Threads
    <3> QED BY <3>1, <3>2
  <2>2. ASSUME NEW r \in Receivers PROVE <<r, "out">> \in held
    <3>1. r \in Threads /\ loc[r].out # NoBuffer
      BY <1>3, BufferFacts DEF Threads
    <3> QED BY <1>0, <3>1 DEF ThreadSlots
  <2> QED BY <2>1, <2>2
<1>7. queued = {"free"} \X (1..n)
  <2>1. ASSUME NEW s \in queued PROVE s \in {"free"} \X (1..n)
    <3>1. PICK m \in QueueNames : s \in {m} \X (1..Len(queue[m]))
      BY <1>0 DEF QueueSlots
    <3>2. s[1] = m /\ s[2] \in 1..Len(queue[m]) /\ queue[m][s[2]] # Sentinel /\ s = <<m, s[2]>>
      BY <3>1
    <3>3. m = "free"
      BY <1>2, <3>2 DEF QueueNames, Between
    <3> QED BY <3>2, <3>3
  <2>2. ASSUME NEW i \in 1..n PROVE <<"free", i>> \in queued
    <3>1. <<"free", i>> \in QueueSlots
      BY <1>0 DEF QueueSlots, QueueNames
    <3>2. queue["free"][i] \in Buffers
      BY <1>0
    <3> QED BY <3>1, <3>2, BufferFacts
  <2> QED BY <2>1, <2>2
<1>8. Cardinality(queued) + Cardinality(held) = BuffersInBufferpool
  <2>1. Cardinality(queued) + Cardinality(held) = Cardinality(DOMAIN content)
    BY DEF BufferConservation
  <2>2. DOMAIN content = Buffers
    BY <1>0 DEF Contents
  <2> QED BY <2>1, <2>2, BufferFacts
<1>9. Cardinality(queued) = n
  <2>1. n \in Nat /\ IsFiniteSet(1..n) /\ Cardinality(1..n) = n
    BY <1>0, FS_Interval
  <2>2. IsFiniteSet({"free"}) /\ Cardinality({"free"}) = 1
    BY FS_Singleton
  <2> HIDE DEF queued, n
  <2>3. Cardinality({"free"} \X (1..n)) = 1 * n
    BY <2>1, <2>2, FS_Product
  <2> QED BY <1>7, <2>1, <2>3
<1>10. Cardinality(held) = RcvParallelism
  <2>1. RcvParallelism \in Nat /\ IsFiniteSet(1..RcvParallelism) /\ Cardinality(1..RcvParallelism) = RcvParallelism
    BY ParallelismAssumption, FS_Interval
  <2>2. /\ IsFiniteSet({"rcv"}) /\ Cardinality({"rcv"}) = 1
        /\ IsFiniteSet({"out"}) /\ Cardinality({"out"}) = 1
    BY FS_Singleton
  <2>3. IsFiniteSet(Receivers) /\ Cardinality(Receivers) = 1 * RcvParallelism
    <3>1. /\ IsFiniteSet({"rcv"} \X (1..RcvParallelism))
          /\ Cardinality({"rcv"} \X (1..RcvParallelism)) = Cardinality({"rcv"}) * Cardinality(1..RcvParallelism)
      BY <2>1, <2>2, FS_Product
    <3> QED BY <2>1, <2>2, <3>1 DEF Receivers
  <2>4. Cardinality(Receivers \X {"out"}) = Cardinality(Receivers) * 1
    BY <2>2, <2>3, FS_Product
  <2> HIDE DEF held
  <2> QED BY <1>6, <2>1, <2>3, <2>4
<1>11. n \in Nat /\ BuffersInBufferpool \in Nat /\ RcvParallelism \in Nat
  BY <1>0, SizesAssumption, ParallelismAssumption
<1> HIDE DEF queued, held
<1>12. n = BuffersInBufferpool - RcvParallelism
  <2> HIDE DEF n
  <2> QED BY <1>8, <1>9, <1>10, <1>11
<1> QED BY <1>3, <1>4, <1>12, BufferFacts DEF n

\* When finalize() has joined all threads of a client with a sink, the pool is back but
\* for the one buffer that each receiver took before it met the end of the stream:
\* no failed read or decoder, and no order in which the threads end, keeps more.
\* (A receiver that could not connect keeps none, but then nothing is ever joined.)
THEOREM OneBufferKeptPerReceiver ==
  ASSUME TextFits, Sink # "pull", ~Arrow, StartPC["ser"] = "pop"
  PROVE  Spec => []OnlyKnownLeaks
<1>1. Init => EndInv
  BY DEF Init, EndInv
<1>2. ClientInv /\ LeftInv /\ EndInv /\ [Next]_vars => EndInv'
  <2> SUFFICES ASSUME ClientInv, LeftInv, EndInv, [Next]_vars PROVE EndInv'
    OBVIOUS
  <2>1. \A w \in Writers : pc[w] # "failed"
    BY DEF LeftInv, EndHolds, Threads, Writers, Stage
  <2> QED BY <2>1, EndStep
<1>3. ClientInv /\ LeftInv /\ EndInv /\ WritersEndLast /\ BufferConservation => OnlyKnownLeaks
  <2> SUFFICES ASSUME ClientInv, LeftInv, EndInv, WritersEndLast, BufferConservation, main = "joined"
               PROVE  /\ \A r \in Receivers : loc[r].out # NoBuffer
                      /\ \A s \in Serializers : loc[s].out = NoBuffer
                      /\ Len(queue.free) = BuffersInBufferpool - RcvParallelism - 0
    BY DEF OnlyKnownLeaks
  <2>1. \A w \in Writers : pc[w] = "done"
    BY DEF EndInv
  <2>2. BuffersInBufferpool - RcvParallelism - 0 = BuffersInBufferpool - RcvParallelism
    BY SizesAssumption, ParallelismAssumption
  <2> QED BY <2>1, <2>2, LeftAtEnd
<1> QED BY <1>1, <1>2, <1>3, ClientInvariant, LeftInvariant, NothingLeftUnwritten, ClientBuffersConserved,
           PTL DEF Spec
=============================================================================
