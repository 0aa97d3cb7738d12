-------------------------- MODULE StageQueueProofs ---------------------------
(***************************************************************************)
(* Proofs about StageQueue, for every number of producers and consumers,   *)
(* every set of buffers and every capacity.                                *)
(***************************************************************************)
EXTENDS StageQueue, PoolLemmas, TLAPS

\* The counter counts exactly the producers whose fetch_add is over.
CounterExact == finished = Cardinality(Counted)

\* Sentinels are pushed, and queued, only when every producer is counted.
SentinelsLate ==
  (\E p \in Producers : ppc[p] = "signal") \/ (\E i \in 1..Len(queue) : queue[i] = Sentinel)
    => Counted = Producers

\* The inductive invariant.
StageInv ==
  TypeOK /\ CounterExact /\ SentinelsLate /\ SentinelsLast /\ StopsOnlyWhenDrained

-----------------------------------------------------------------------------
\* The number of consumers, and of producers, is a positive natural number.
LEMMA StageSizes ==
  /\ Cardinality(Consumers) \in Nat /\ Cardinality(Consumers) > 0
  /\ Cardinality(Producers) \in Nat
BY StagesAssumption, FS_CardinalityType, FS_EmptySet

\* When the counter has reached the number of producers, all are counted.
LEMMA AllCounted ==
  ASSUME CounterExact, finished = Cardinality(Producers)
  PROVE  Counted = Producers
<1>1. Counted \subseteq Producers
  BY DEF Counted
<1> QED
  BY <1>1, StagesAssumption, FS_Subset DEF CounterExact

\* fetch_add counts one more producer.
LEMMA CountedGrows ==
  ASSUME TypeOK, CounterExact, NEW p \in Producers, FetchAdd(p)
  PROVE  CounterExact' /\ Counted' = Counted \cup {p}
<1>1. Counted' = Counted \cup {p} /\ p \notin Counted
  BY DEF TypeOK, FetchAdd, Counted
<1>2. IsFiniteSet(Counted)
  BY StagesAssumption, FS_Subset DEF Counted
<1>3. Cardinality(Counted \cup {p}) = Cardinality(Counted) + 1
  BY <1>1, <1>2, FS_AddElement
<1> QED
  BY <1>1, <1>3 DEF FetchAdd, CounterExact

\* A step that leaves the producers that are counted alone keeps the counter exact.
LEMMA CountedSame ==
  ASSUME CounterExact, Counted' = Counted, finished' = finished
  PROVE  CounterExact'
BY DEF CounterExact

-----------------------------------------------------------------------------
\* Every initial state satisfies the inductive invariant.
LEMMA StageInit == Init => StageInv
<1> SUFFICES ASSUME Init PROVE StageInv
  OBVIOUS
<1>1. TypeOK
  BY StageSizes DEF Init, TypeOK, ProducerPCs
<1>2. CounterExact
  <2>1. Counted = {}
    BY DEF Init, Counted
  <2> QED
    BY <2>1, FS_EmptySet DEF Init, CounterExact
<1>3. SentinelsLate /\ SentinelsLast /\ StopsOnlyWhenDrained
  BY DEF Init, SentinelsLate, SentinelsLast, StopsOnlyWhenDrained
<1> QED
  BY <1>1, <1>2, <1>3 DEF StageInv

\* A producer that pushes a buffer is not counted, so there is no sentinel.
LEMMA PushBufferInv ==
  ASSUME StageInv, NEW p \in Producers, NEW b \in Buffers, PushBuffer(p, b)
  PROVE  StageInv'
<1> USE DEF StageInv
<1>1. /\ queue \in Seq(Buffers \cup {Sentinel})
      /\ queue' = Append(queue, b) /\ b \in Buffers \cup {Sentinel}
      /\ ppc' = ppc /\ finished' = finished /\ cpc' = cpc /\ left' = left
  BY DEF PushBuffer, TypeOK
<1>2. /\ queue' \in Seq(Buffers \cup {Sentinel})
      /\ Len(queue') = Len(queue) + 1 /\ Len(queue) \in Nat
      /\ \A i \in 1..Len(queue') : queue'[i] = IF i = Len(queue) + 1 THEN b ELSE queue[i]
  BY <1>1, AppendElements
<1>3. Counted # Producers /\ Counted' = Counted
  BY <1>1 DEF PushBuffer, Counted
<1>4. /\ \A q \in Producers : ppc[q] # "signal"
      /\ \A i \in 1..Len(queue) : queue[i] # Sentinel
      /\ \A c \in Consumers : cpc[c] # "stopped"
  BY <1>3 DEF SentinelsLate, StopsOnlyWhenDrained
<1>5. b # Sentinel
  BY BuffersAssumption DEF Sentinel
<1>6. \A i \in 1..Len(queue') : queue'[i] # Sentinel
  BY <1>2, <1>4, <1>5
<1>7. TypeOK'
  BY <1>1, <1>2 DEF TypeOK
<1>8. CounterExact'
  BY <1>1, <1>3, CountedSame
<1>9. SentinelsLate' /\ SentinelsLast' /\ StopsOnlyWhenDrained'
  BY <1>1, <1>4, <1>6 DEF SentinelsLate, SentinelsLast, StopsOnlyWhenDrained
<1> QED
  BY <1>7, <1>8, <1>9

\* fetch_add leaves the queue alone and cannot uncount a producer.
LEMMA FetchAddInv ==
  ASSUME StageInv, NEW p \in Producers, FetchAdd(p)
  PROVE  StageInv'
<1> USE DEF StageInv
<1>1. Counted # Producers
  BY DEF FetchAdd, Counted
<1>2. /\ \A q \in Producers : ppc[q] # "signal"
      /\ \A i \in 1..Len(queue) : queue[i] # Sentinel
      /\ \A c \in Consumers : cpc[c] # "stopped"
  BY <1>1 DEF SentinelsLate, StopsOnlyWhenDrained
<1>3. TypeOK'
  <2>1. finished' \in Nat
    BY DEF FetchAdd, TypeOK
  <2>2. ppc' \in [Producers -> ProducerPCs] /\ (\A q \in Producers : ppc'[q] = "signal" <=> left'[q] > 0)
    BY <1>2 DEF FetchAdd, TypeOK, ProducerPCs
  <2> QED
    BY <2>1, <2>2 DEF FetchAdd, TypeOK
<1>4. CounterExact'
  BY CountedGrows
<1>5. \A q \in Producers : ppc'[q] # "signal"
  BY <1>2 DEF FetchAdd, TypeOK
<1>6. SentinelsLate' /\ SentinelsLast' /\ StopsOnlyWhenDrained'
  BY <1>2, <1>5 DEF FetchAdd, SentinelsLate, SentinelsLast, StopsOnlyWhenDrained
<1> QED
  BY <1>3, <1>4, <1>6

\* Only a producer that has seen every producer counted goes on to signal.
LEMMA LoadFinishedInv ==
  ASSUME StageInv, NEW p \in Producers, LoadFinished(p)
  PROVE  StageInv'
<1> USE DEF StageInv
<1>1. TypeOK'
  <2>1. ppc[p] = "load" /\ left[p] = 0
    BY StageSizes DEF LoadFinished, TypeOK
  <2>2. CASE finished = Cardinality(Producers)
    <3>1. /\ ppc' = [ppc EXCEPT ![p] = "signal"]
          /\ left' = [left EXCEPT ![p] = Cardinality(Consumers)]
      BY <2>2 DEF LoadFinished
    <3>2. /\ left' \in [Producers -> 0..Cardinality(Consumers)]
          /\ ppc' \in [Producers -> ProducerPCs]
      BY <3>1, StageSizes DEF TypeOK, ProducerPCs
    <3>3. \A q \in Producers : ppc'[q] = "signal" <=> left'[q] > 0
      BY <3>1, StageSizes DEF TypeOK
    <3> QED
      BY <3>2, <3>3 DEF LoadFinished, TypeOK
  <2>3. CASE finished # Cardinality(Producers)
    <3>1. ppc' = [ppc EXCEPT ![p] = "done"] /\ left' = left
      BY <2>3 DEF LoadFinished
    <3>2. ppc' \in [Producers -> ProducerPCs]
      BY <3>1 DEF TypeOK, ProducerPCs
    <3>3. \A q \in Producers : ppc'[q] = "signal" <=> left'[q] > 0
      BY <2>1, <3>1 DEF TypeOK
    <3> QED
      BY <3>1, <3>2, <3>3 DEF LoadFinished, TypeOK
  <2> QED
    BY <2>2, <2>3
<1>2. Counted' = Counted
  BY DEF LoadFinished, TypeOK, Counted
<1>3. CounterExact'
  BY <1>2, CountedSame DEF LoadFinished
<1>4. SentinelsLate'
  <2>1. CASE finished = Cardinality(Producers)
    BY <2>1, <1>2, AllCounted DEF SentinelsLate
  <2>2. CASE finished # Cardinality(Producers)
    <3>1. queue' = queue /\ \A q \in Producers : ppc'[q] = "signal" => ppc[q] = "signal"
      BY <2>2 DEF LoadFinished, TypeOK
    <3> QED
      BY <3>1, <1>2 DEF SentinelsLate
  <2> QED
    BY <2>1, <2>2
<1>5. SentinelsLast' /\ StopsOnlyWhenDrained'
  BY <1>2 DEF LoadFinished, SentinelsLast, StopsOnlyWhenDrained
<1> QED
  BY <1>1, <1>3, <1>4, <1>5

\* A sentinel goes behind whatever is queued.
LEMMA PushSentinelInv ==
  ASSUME StageInv, NEW p \in Producers, PushSentinel(p)
  PROVE  StageInv'
<1> USE DEF StageInv
<1>1. /\ queue \in Seq(Buffers \cup {Sentinel})
      /\ queue' = Append(queue, Sentinel) /\ Sentinel \in Buffers \cup {Sentinel}
      /\ finished' = finished /\ cpc' = cpc
  BY DEF PushSentinel, TypeOK
<1>2. /\ queue' \in Seq(Buffers \cup {Sentinel})
      /\ Len(queue') = Len(queue) + 1 /\ Len(queue) \in Nat
      /\ \A i \in 1..Len(queue') : queue'[i] = IF i = Len(queue) + 1 THEN Sentinel ELSE queue[i]
  BY <1>1, AppendElements
<1>3. Counted = Producers /\ Counted' = Counted
  BY DEF PushSentinel, SentinelsLate, TypeOK, Counted
<1>4. TypeOK'
  <2>1. left[p] \in 1..Cardinality(Consumers)
    BY StageSizes DEF PushSentinel, TypeOK
  <2>2. /\ left' \in [Producers -> 0..Cardinality(Consumers)]
        /\ ppc' \in [Producers -> ProducerPCs]
        /\ \A q \in Producers : ppc'[q] = "signal" <=> left'[q] > 0
    BY <2>1, StageSizes DEF PushSentinel, TypeOK, ProducerPCs
  <2> QED
    BY <1>1, <1>2, <2>2 DEF TypeOK
<1>5. CounterExact'
  BY <1>1, <1>3, CountedSame
<1>6. SentinelsLate'
  BY <1>3 DEF SentinelsLate
<1>7. SentinelsLast' /\ StopsOnlyWhenDrained'
  BY <1>1, <1>2, <1>3 DEF SentinelsLast, StopsOnlyWhenDrained
<1> QED
  BY <1>4, <1>5, <1>6, <1>7

\* Taking a buffer out leaves the rest of the queue in its order.
LEMMA PopBufferInv ==
  ASSUME StageInv, NEW c \in Consumers, PopBuffer(c)
  PROVE  StageInv'
<1> USE DEF StageInv
<1>1. /\ queue \in Seq(Buffers \cup {Sentinel}) /\ queue # <<>> /\ queue' = Tail(queue)
      /\ ppc' = ppc /\ finished' = finished /\ cpc' = cpc /\ left' = left
  BY DEF PopBuffer, TypeOK
<1>2. /\ queue' \in Seq(Buffers \cup {Sentinel})
      /\ Len(queue') = Len(queue) - 1 /\ Len(queue) \in Nat
      /\ \A i \in 1..Len(queue') : queue'[i] = queue[i+1] /\ i+1 \in 1..Len(queue)
  BY <1>1, TailElements
<1>3. Counted' = Counted
  BY <1>1 DEF Counted
<1>4. TypeOK' /\ CounterExact'
  BY <1>1, <1>2, <1>3, CountedSame DEF TypeOK
<1>5. SentinelsLate' /\ SentinelsLast' /\ StopsOnlyWhenDrained'
  BY <1>1, <1>2, <1>3 DEF SentinelsLate, SentinelsLast, StopsOnlyWhenDrained
<1> QED
  BY <1>4, <1>5

\* A consumer that pops a sentinel leaves only sentinels behind.
LEMMA PopSentinelInv ==
  ASSUME StageInv, NEW c \in Consumers, PopSentinel(c)
  PROVE  StageInv'
<1> USE DEF StageInv
<1>1. /\ queue \in Seq(Buffers \cup {Sentinel}) /\ queue # <<>> /\ queue' = Tail(queue)
      /\ ppc' = ppc /\ finished' = finished /\ left' = left
  BY DEF PopSentinel, TypeOK
<1>2. /\ queue' \in Seq(Buffers \cup {Sentinel})
      /\ Len(queue') = Len(queue) - 1 /\ Len(queue) \in Nat /\ Len(queue) > 0
      /\ Head(queue) = queue[1]
      /\ \A i \in 1..Len(queue') : queue'[i] = queue[i+1] /\ i+1 \in 1..Len(queue)
  BY <1>1, TailElements
<1>3. queue[1] = Sentinel /\ 1 \in 1..Len(queue)
  BY <1>2 DEF PopSentinel
<1>4. \A i \in 1..Len(queue) : queue[i] = Sentinel
  BY <1>2, <1>3 DEF SentinelsLast
<1>5. Counted = Producers /\ Counted' = Counted
  BY <1>1, <1>3 DEF SentinelsLate, Counted
<1>6. TypeOK' /\ CounterExact'
  BY <1>1, <1>2, <1>5, CountedSame DEF TypeOK, PopSentinel
<1>7. SentinelsLate' /\ SentinelsLast' /\ StopsOnlyWhenDrained'
  BY <1>1, <1>2, <1>4, <1>5 DEF SentinelsLate, SentinelsLast, StopsOnlyWhenDrained
<1> QED
  BY <1>6, <1>7

\* Every step of the specification preserves the inductive invariant.
LEMMA StageNext == StageInv /\ [Next]_vars => StageInv'
<1> SUFFICES ASSUME StageInv, [Next]_vars PROVE StageInv'
  OBVIOUS
<1>1. ASSUME NEW p \in Producers, NEW b \in Buffers, PushBuffer(p, b) PROVE StageInv'
  BY <1>1, PushBufferInv
<1>2. ASSUME NEW p \in Producers, Finish(p) PROVE StageInv'
  BY <1>2, FetchAddInv, LoadFinishedInv, PushSentinelInv DEF Finish
<1>3. ASSUME NEW c \in Consumers, Consume(c) PROVE StageInv'
  BY <1>3, PopBufferInv, PopSentinelInv DEF Consume
<1>4. CASE UNCHANGED vars
  <2>1. Counted' = Counted
    BY <1>4 DEF vars, Counted
  <2> QED
    BY <1>4, <2>1 DEF vars, StageInv, TypeOK, CounterExact, SentinelsLate,
                      SentinelsLast, StopsOnlyWhenDrained
<1> QED
  BY <1>1, <1>2, <1>3, <1>4 DEF Next

-----------------------------------------------------------------------------
\* The inductive invariant holds in every reachable state of a hand-off.
THEOREM StageInvariant == Spec => []StageInv
BY StageInit, StageNext, PTL DEF Spec

\* Type correctness of the hand-off.
THEOREM StageTypeCorrect == Spec => []TypeOK
<1>1. StageInv => TypeOK
  BY DEF StageInv
<1> QED
  BY <1>1, StageInvariant, PTL

\* No buffer is ever queued behind a sentinel, although fetch_add and the load
\* that follows it are two steps and several producers may send sentinels.
THEOREM NoBufferBehindSentinel == Spec => []SentinelsLast
<1>1. StageInv => SentinelsLast
  BY DEF StageInv
<1> QED
  BY <1>1, StageInvariant, PTL

\* No consumer stops before its whole input has been taken.
THEOREM NoEarlyStop == Spec => []StopsOnlyWhenDrained
<1>1. StageInv => StopsOnlyWhenDrained
  BY DEF StageInv
<1> QED
  BY <1>1, StageInvariant, PTL
=============================================================================
