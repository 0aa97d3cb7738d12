----------------------------- MODULE StageQueue ------------------------------
(***************************************************************************)
(* The hand-off between two stages of a pipeline, the pattern XDBC repeats *)
(* at every queue of filled buffers: read -> deser -> comp -> send on the  *)
(* server, rcv -> decomp -> ser -> write on the client.                    *)
(*                                                                         *)
(* Producers push buffer ids.  A producer that is finished increments the  *)
(* stage's counter (fetch_add) and then, in a separate step, reads it      *)
(* again; if it sees the number of producers it pushes one sentinel -1 per *)
(* consumer.  A consumer stops at the first sentinel it pops.              *)
(*                                                                         *)
(* This module says what a stage may rely on.  ServerPipeline and          *)
(* ClientPipeline implement it at each of their queues.                    *)
(***************************************************************************)
EXTENDS QueueOps, FiniteSets

CONSTANTS Producers,  \* the threads of the stage before the queue
          Consumers,  \* the threads of the stage after it
          Buffers,    \* the buffer ids
          Capacity    \* the capacity of the queue, 0 for unlimited

ASSUME StagesAssumption ==
  /\ IsFiniteSet(Producers) /\ Producers # {}
  /\ IsFiniteSet(Consumers) /\ Consumers # {}

ASSUME BuffersAssumption == Buffers \subseteq Nat

ASSUME CapacityAssumption == Capacity \in Nat

VARIABLES queue,     \* the ids and sentinels between the two stages
          finished,  \* the counter finished...Threads of the producing stage
          ppc,       \* where each producer is
          left,      \* the sentinels each producer still has to push
          cpc        \* whether each consumer still runs

vars == <<queue, finished, ppc, left, cpc>>

Init ==
  /\ queue = <<>>
  /\ finished = 0
  /\ ppc = [p \in Producers |-> "produce"]
  /\ left = [p \in Producers |-> 0]
  /\ cpc = [c \in Consumers |-> "running"]

-----------------------------------------------------------------------------
PushBuffer(p, b) ==
  /\ ppc[p] = "produce"
  /\ HasSpace(queue, Capacity)
  /\ queue' = Append(queue, b)
  /\ UNCHANGED <<finished, ppc, left, cpc>>

\* finished...Threads.fetch_add(1), after the producer's last push.
FetchAdd(p) ==
  /\ ppc[p] = "produce"
  /\ finished' = finished + 1
  /\ ppc' = [ppc EXCEPT ![p] = "load"]
  /\ UNCHANGED <<queue, left, cpc>>

\* Mutant of LoadFinished: the comparison is off by one.
LoadFinishedOffByOne(p) ==
  /\ ppc[p] = "load"
  /\ IF finished >= Cardinality(Producers) - 1
     THEN /\ ppc' = [ppc EXCEPT ![p] = "signal"]
          /\ left' = [left EXCEPT ![p] = Cardinality(Consumers)]
     ELSE /\ ppc' = [ppc EXCEPT ![p] = "done"]
          /\ UNCHANGED left
  /\ UNCHANGED <<queue, finished, cpc>>

\* The comparison reads the counter again, so two producers that finish
\* together can both see the final value.
LoadFinished(p) ==
  /\ ppc[p] = "load"
  /\ IF finished = Cardinality(Producers)
     THEN /\ ppc' = [ppc EXCEPT ![p] = "signal"]
          /\ left' = [left EXCEPT ![p] = Cardinality(Consumers)]
     ELSE /\ ppc' = [ppc EXCEPT ![p] = "done"]
          /\ UNCHANGED left
  /\ UNCHANGED <<queue, finished, cpc>>

\* Mutant of PushSentinel: the loop pushes one sentinel too few.
PushSentinelOneShort(p) ==
  /\ ppc[p] = "signal"
  /\ IF left[p] = 1
     THEN UNCHANGED queue
     ELSE HasSpace(queue, Capacity) /\ queue' = Append(queue, Sentinel)
  /\ left' = [left EXCEPT ![p] = @ - 1]
  /\ ppc' = [ppc EXCEPT ![p] = IF left[p] = 1 THEN "done" ELSE "signal"]
  /\ UNCHANGED <<finished, cpc>>

\* Mutant of PushSentinel: the loop condition is <= instead of <.
PushSentinelOneMore(p) ==
  /\ ppc[p] = "signal"
  /\ HasSpace(queue, Capacity)
  /\ queue' = Append(queue, Sentinel)
  /\ left' = [left EXCEPT ![p] = @ - 1]
  /\ ppc' = [ppc EXCEPT ![p] = IF left[p] = 0 THEN "done" ELSE "signal"]
  /\ UNCHANGED <<finished, cpc>>

PushSentinel(p) ==
  /\ ppc[p] = "signal"
  /\ HasSpace(queue, Capacity)
  /\ queue' = Append(queue, Sentinel)
  /\ left' = [left EXCEPT ![p] = @ - 1]
  /\ ppc' = [ppc EXCEPT ![p] = IF left[p] = 1 THEN "done" ELSE "signal"]
  /\ UNCHANGED <<finished, cpc>>

PopBuffer(c) ==
  /\ cpc[c] = "running"
  /\ queue # <<>>
  /\ Head(queue) # Sentinel
  /\ queue' = Tail(queue)
  /\ UNCHANGED <<finished, ppc, left, cpc>>

\* Mutant of PopSentinel: stops at the first empty queue instead.
StopWhenEmpty(c) ==
  /\ cpc[c] = "running"
  /\ queue = <<>>
  /\ cpc' = [cpc EXCEPT ![c] = "stopped"]
  /\ UNCHANGED <<queue, finished, ppc, left>>

\* Mutant of PopSentinel: leaves the sentinel in the queue for the others.
PeekSentinel(c) ==
  /\ cpc[c] = "running"
  /\ queue # <<>>
  /\ Head(queue) = Sentinel
  /\ cpc' = [cpc EXCEPT ![c] = "stopped"]
  /\ UNCHANGED <<queue, finished, ppc, left>>

PopSentinel(c) ==
  /\ cpc[c] = "running"
  /\ queue # <<>>
  /\ Head(queue) = Sentinel
  /\ queue' = Tail(queue)
  /\ cpc' = [cpc EXCEPT ![c] = "stopped"]
  /\ UNCHANGED <<finished, ppc, left>>

-----------------------------------------------------------------------------
Finish(p) == FetchAdd(p) \/ LoadFinished(p) \/ PushSentinel(p)

Consume(c) == PopBuffer(c) \/ PopSentinel(c)

Next ==
  \/ \E p \in Producers : (\E b \in Buffers : PushBuffer(p, b)) \/ Finish(p)
  \/ \E c \in Consumers : Consume(c)

Spec == Init /\ [][Next]_vars

\* The input is finite, so every producer eventually finishes; threads that
\* can run are scheduled.
FairSpec ==
  /\ Spec
  /\ \A p \in Producers : WF_vars(Finish(p))
  /\ \A c \in Consumers : WF_vars(Consume(c))

-----------------------------------------------------------------------------
ProducerPCs == {"produce", "load", "signal", "done"}

\* The producers whose fetch_add is over.
Counted == {p \in Producers : ppc[p] # "produce"}

\* Type invariant.
TypeOK ==
  /\ queue \in Seq(Buffers \cup {Sentinel})
  /\ finished \in Nat
  /\ ppc \in [Producers -> ProducerPCs]
  /\ left \in [Producers -> 0..Cardinality(Consumers)]
  /\ \A p \in Producers : ppc[p] = "signal" <=> left[p] > 0
  /\ cpc \in [Consumers -> {"running", "stopped"}]

\* No buffer is ever queued behind a sentinel: whichever producer sees the
\* final counter value, every other one pushed its last buffer before it
\* incremented the counter.  Otherwise the buffer would never be popped.
SentinelsLast ==
  \A i, j \in 1..Len(queue) :
     i < j /\ queue[i] = Sentinel => queue[j] = Sentinel

\* A consumer stops only when its whole input has been taken: nothing is left
\* in the queue but sentinels and no producer will push another buffer.
StopsOnlyWhenDrained ==
  (\E c \in Consumers : cpc[c] = "stopped") =>
     /\ \A i \in 1..Len(queue) : queue[i] = Sentinel
     /\ Counted = Producers

\* Every consumer eventually pops a sentinel (the MultipleSentinels test), in
\* every interleaving of the fetch_adds, loads and pushes.
ConsumersStop == <>(\A c \in Consumers : cpc[c] = "stopped")

\* Every producer thread eventually ends.
ProducersEnd == <>(\A p \in Producers : ppc[p] = "done")
=============================================================================
