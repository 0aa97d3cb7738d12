-------------------------- MODULE CustomQueueProofs --------------------------
(***************************************************************************)
(* Proofs about CustomQueue, for every set of threads, values and          *)
(* capacities: type correctness, mutual exclusion, no lost wakeup, and     *)
(* that it implements BoundedFifo.                                         *)
(***************************************************************************)
EXTENDS CustomQueue, TLAPS

\* The inductive invariant is the conjunction of the invariants TLC checks.
QueueInv == TypeOK /\ MutualExclusion /\ NoLostItemWakeup /\ NoLostSpaceWakeup

-----------------------------------------------------------------------------
\* The elements left by a pop, and those present after a push, are values.
LEMMA QueueTypes ==
  ASSUME NEW S, NEW q \in Seq(S)
  PROVE  /\ \A x \in S : Append(q, x) \in Seq(S)
         /\ q # <<>> => Tail(q) \in Seq(S) /\ Head(q) \in S
OBVIOUS

\* Every initial state satisfies the inductive invariant.
LEMMA QueueInit == Init => QueueInv
<1> SUFFICES ASSUME Init PROVE QueueInv
  OBVIOUS
<1>1. TypeOK
  BY DEF Init, TypeOK, PCs, Threads
<1>2. MutualExclusion
  BY UnlockedAssumption DEF Init, MutualExclusion, InCriticalSection
<1>3. NoLostItemWakeup /\ NoLostSpaceWakeup
  BY DEF Init, NoLostItemWakeup, NoLostSpaceWakeup
<1> QED
  BY <1>1, <1>2, <1>3 DEF QueueInv

\* Type correctness is preserved by every step.
LEMMA TypeNext == TypeOK /\ [Next]_vars => TypeOK'
<1> SUFFICES ASSUME TypeOK, [Next]_vars PROVE TypeOK'
  OBVIOUS
<1> USE RolesAssumption DEF TypeOK, PCs, Threads
<1>1. ASSUME NEW t \in Threads, Lock(t) PROVE TypeOK'
  BY <1>1 DEF Lock
<1>2. ASSUME NEW t \in Producers, NEW v \in Values, Call(t, v) PROVE TypeOK'
  BY <1>2 DEF Call
<1>3. ASSUME NEW t \in Consumers, Call(t, NoArg) PROVE TypeOK'
  BY <1>3 DEF Call
<1>4. ASSUME NEW t \in Admins, NEW c \in Capacities, Call(t, c) PROVE TypeOK'
  BY <1>4 DEF Call
<1>5. ASSUME NEW t \in Producers, PushWait(t) PROVE TypeOK'
  BY <1>5 DEF PushWait
<1>6. ASSUME NEW t \in Producers, PushFront(t) PROVE TypeOK'
  <2>1. d_queue' \in Seq(Values)
    BY <1>6, QueueTypes DEF PushFront
  <2> QED
    BY <1>6, <2>1 DEF PushFront
<1>7. ASSUME NEW t \in Producers, PushNotify(t) PROVE TypeOK'
  BY <1>7 DEF PushNotify, NotifyAll
<1>8. ASSUME NEW t \in Consumers, PopWait(t) PROVE TypeOK'
  BY <1>8 DEF PopWait
<1>9. ASSUME NEW t \in Consumers, PopBack(t) PROVE TypeOK'
  <2>1. d_queue' \in Seq(Values) /\ Head(d_queue) \in Values
    BY <1>9, QueueTypes DEF PopBack
  <2> QED
    BY <1>9, <2>1 DEF PopBack
<1>10. ASSUME NEW t \in Consumers, PopNotify(t) PROVE TypeOK'
  BY <1>10 DEF PopNotify, NotifyAll
<1>11. ASSUME NEW t \in Admins, SetCapacity(t) PROVE TypeOK'
  BY <1>11 DEF SetCapacity
<1>12. ASSUME NEW t \in Admins, SetCapacityNotify(t) PROVE TypeOK'
  BY <1>12 DEF SetCapacityNotify, NotifyAll
<1>13. ASSUME NEW t \in Threads, SpuriousWakeup(t) PROVE TypeOK'
  BY <1>13 DEF SpuriousWakeup
<1>14. CASE UNCHANGED vars
  BY <1>14 DEF vars
<1> QED
  BY <1>1, <1>2, <1>3, <1>4, <1>5, <1>6, <1>7, <1>8, <1>9, <1>10, <1>11, <1>12,
     <1>13, <1>14
     DEF Next, Push, Pop, Resize

\* The mutex is owned by exactly the thread in a critical section.
LEMMA MutexNext == TypeOK /\ MutualExclusion /\ [Next]_vars => MutualExclusion'
<1> SUFFICES ASSUME TypeOK, MutualExclusion, [Next]_vars PROVE MutualExclusion'
  OBVIOUS
<1> USE RolesAssumption, UnlockedAssumption
    DEF TypeOK, PCs, Threads, MutualExclusion, InCriticalSection
<1>1. ASSUME NEW t \in Threads, Lock(t) PROVE MutualExclusion'
  BY <1>1 DEF Lock
<1>2. ASSUME NEW t \in Threads, NEW a, Call(t, a) PROVE MutualExclusion'
  BY <1>2 DEF Call
<1>3. ASSUME NEW t \in Producers, PushWait(t) PROVE MutualExclusion'
  BY <1>3 DEF PushWait
<1>4. ASSUME NEW t \in Producers, PushFront(t) PROVE MutualExclusion'
  BY <1>4 DEF PushFront
<1>5. ASSUME NEW t \in Producers, PushNotify(t) PROVE MutualExclusion'
  BY <1>5 DEF PushNotify, NotifyAll
<1>6. ASSUME NEW t \in Consumers, PopWait(t) PROVE MutualExclusion'
  BY <1>6 DEF PopWait
<1>7. ASSUME NEW t \in Consumers, PopBack(t) PROVE MutualExclusion'
  BY <1>7 DEF PopBack
<1>8. ASSUME NEW t \in Consumers, PopNotify(t) PROVE MutualExclusion'
  BY <1>8 DEF PopNotify, NotifyAll
<1>9. ASSUME NEW t \in Admins, SetCapacity(t) PROVE MutualExclusion'
  BY <1>9 DEF SetCapacity
<1>10. ASSUME NEW t \in Admins, SetCapacityNotify(t) PROVE MutualExclusion'
  BY <1>10 DEF SetCapacityNotify, NotifyAll
<1>11. ASSUME NEW t \in Threads, SpuriousWakeup(t) PROVE MutualExclusion'
  BY <1>11 DEF SpuriousWakeup
<1>12. CASE UNCHANGED vars
  BY <1>12 DEF vars
<1> QED
  BY <1>1, <1>2, <1>3, <1>4, <1>5, <1>6, <1>7, <1>8, <1>9, <1>10, <1>11, <1>12
     DEF Next, Push, Pop, Resize

\* A consumer starts to wait only on an empty queue, and whoever makes the
\* queue non-empty is at its notify_all in the state that results.
LEMMA ItemWakeupNext ==
  TypeOK /\ NoLostItemWakeup /\ [Next]_vars => NoLostItemWakeup'
<1> SUFFICES ASSUME TypeOK, NoLostItemWakeup, [Next]_vars PROVE NoLostItemWakeup'
  OBVIOUS
<1> USE RolesAssumption DEF TypeOK, PCs, Threads, NoLostItemWakeup
<1>1. ASSUME NEW t \in Threads, Lock(t) PROVE NoLostItemWakeup'
  BY <1>1 DEF Lock
<1>2. ASSUME NEW t \in Threads, NEW a, Call(t, a) PROVE NoLostItemWakeup'
  BY <1>2 DEF Call
<1>3. ASSUME NEW t \in Producers, PushWait(t) PROVE NoLostItemWakeup'
  BY <1>3 DEF PushWait
<1>4. ASSUME NEW t \in Producers, PushFront(t) PROVE NoLostItemWakeup'
  BY <1>4 DEF PushFront
<1>5. ASSUME NEW t \in Producers, PushNotify(t) PROVE NoLostItemWakeup'
  BY <1>5 DEF PushNotify, NotifyAll
<1>6. ASSUME NEW t \in Consumers, PopWait(t) PROVE NoLostItemWakeup'
  BY <1>6 DEF PopWait
<1>7. ASSUME NEW t \in Consumers, PopBack(t) PROVE NoLostItemWakeup'
  BY <1>7 DEF PopBack
<1>8. ASSUME NEW t \in Consumers, PopNotify(t) PROVE NoLostItemWakeup'
  BY <1>8 DEF PopNotify, NotifyAll
<1>9. ASSUME NEW t \in Admins, SetCapacity(t) PROVE NoLostItemWakeup'
  BY <1>9 DEF SetCapacity
<1>10. ASSUME NEW t \in Admins, SetCapacityNotify(t) PROVE NoLostItemWakeup'
  BY <1>10 DEF SetCapacityNotify, NotifyAll
<1>11. ASSUME NEW t \in Threads, SpuriousWakeup(t) PROVE NoLostItemWakeup'
  BY <1>11 DEF SpuriousWakeup
<1>12. CASE UNCHANGED vars
  BY <1>12 DEF vars
<1> QED
  BY <1>1, <1>2, <1>3, <1>4, <1>5, <1>6, <1>7, <1>8, <1>9, <1>10, <1>11, <1>12
     DEF Next, Push, Pop, Resize

\* A producer starts to wait only on a full queue, and whoever makes room is
\* at its notify_all in the state that results.
LEMMA SpaceWakeupNext ==
  TypeOK /\ NoLostSpaceWakeup /\ [Next]_vars => NoLostSpaceWakeup'
<1> SUFFICES ASSUME TypeOK, NoLostSpaceWakeup, [Next]_vars PROVE NoLostSpaceWakeup'
  OBVIOUS
<1> USE RolesAssumption DEF TypeOK, PCs, Threads, NoLostSpaceWakeup
<1>1. ASSUME NEW t \in Threads, Lock(t) PROVE NoLostSpaceWakeup'
  BY <1>1 DEF Lock
<1>2. ASSUME NEW t \in Threads, NEW a, Call(t, a) PROVE NoLostSpaceWakeup'
  BY <1>2 DEF Call
<1>3. ASSUME NEW t \in Producers, PushWait(t) PROVE NoLostSpaceWakeup'
  BY <1>3 DEF PushWait
<1>4. ASSUME NEW t \in Producers, PushFront(t) PROVE NoLostSpaceWakeup'
  <2>1. HasSpace(d_queue, capacity)
    BY <1>4 DEF PushFront
  <2>2. \A u \in Consumers \cup Admins : pc'[u] = pc[u]
    BY <1>4 DEF PushFront
  <2> QED
    BY <1>4, <2>1, <2>2 DEF PushFront
<1>5. ASSUME NEW t \in Producers, PushNotify(t) PROVE NoLostSpaceWakeup'
  BY <1>5 DEF PushNotify, NotifyAll
<1>6. ASSUME NEW t \in Consumers, PopWait(t) PROVE NoLostSpaceWakeup'
  BY <1>6 DEF PopWait
<1>7. ASSUME NEW t \in Consumers, PopBack(t) PROVE NoLostSpaceWakeup'
  BY <1>7 DEF PopBack
<1>8. ASSUME NEW t \in Consumers, PopNotify(t) PROVE NoLostSpaceWakeup'
  BY <1>8 DEF PopNotify, NotifyAll
<1>9. ASSUME NEW t \in Admins, SetCapacity(t) PROVE NoLostSpaceWakeup'
  BY <1>9 DEF SetCapacity
<1>10. ASSUME NEW t \in Admins, SetCapacityNotify(t) PROVE NoLostSpaceWakeup'
  BY <1>10 DEF SetCapacityNotify, NotifyAll
<1>11. ASSUME NEW t \in Threads, SpuriousWakeup(t) PROVE NoLostSpaceWakeup'
  BY <1>11 DEF SpuriousWakeup
<1>12. CASE UNCHANGED vars
  BY <1>12 DEF vars
<1> QED
  BY <1>1, <1>2, <1>3, <1>4, <1>5, <1>6, <1>7, <1>8, <1>9, <1>10, <1>11, <1>12
     DEF Next, Push, Pop, Resize

-----------------------------------------------------------------------------
\* The inductive invariant holds in every reachable state of the queue.
THEOREM QueueInvariant == Spec => []QueueInv
<1>1. QueueInv /\ [Next]_vars => QueueInv'
  BY TypeNext, MutexNext, ItemWakeupNext, SpaceWakeupNext DEF QueueInv
<1> QED
  BY <1>1, QueueInit, PTL DEF Spec

\* Type correctness of customQueue.
THEOREM QueueTypeCorrect == Spec => []TypeOK
<1>1. QueueInv => TypeOK
  BY DEF QueueInv
<1> QED
  BY <1>1, QueueInvariant, PTL

\* d_mutex excludes: no two threads are in a critical section of customQueue.
THEOREM MutexExcludes == Spec => []MutualExclusion
<1>1. QueueInv => MutualExclusion
  BY DEF QueueInv
<1> QED
  BY <1>1, QueueInvariant, PTL

\* No consumer sleeps on a non-empty queue without a notify_all on its way.
THEOREM ItemWakeupKept == Spec => []NoLostItemWakeup
<1>1. QueueInv => NoLostItemWakeup
  BY DEF QueueInv
<1> QED
  BY <1>1, QueueInvariant, PTL

\* No producer sleeps although there is room without a notify_all on its way.
THEOREM SpaceWakeupKept == Spec => []NoLostSpaceWakeup
<1>1. QueueInv => NoLostSpaceWakeup
  BY DEF QueueInv
<1> QED
  BY <1>1, QueueInvariant, PTL

-----------------------------------------------------------------------------
\* The abstract status of a thread, as the refinement mapping gives it.
StatusOf(p) ==
  [t \in Threads |-> IF p[t] = "idle" THEN "idle"
                     ELSE IF p[t] = "notify" THEN "done" ELSE "pending"]

\* notify_all only moves waiters to "lock": to the callers they stay pending.
LEMMA NotifyAllStatus ==
  ASSUME TypeOK, NEW t \in Threads, pc[t] = "notify",
         NEW waiters, waiters \in {d_condition, d_space_available},
         pc' = NotifyAll(t, waiters)
  PROVE  StatusOf(pc)[t] = "done" /\ StatusOf(pc') = [StatusOf(pc) EXCEPT ![t] = "idle"]
BY DEF TypeOK, PCs, Threads, NotifyAll, StatusOf

\* A step that moves one thread moves its abstract status and no other.
LEMMA MoveStatus ==
  ASSUME TypeOK, NEW t \in Threads, NEW s \in PCs, pc' = [pc EXCEPT ![t] = s]
  PROVE  /\ s = "idle" => StatusOf(pc') = [StatusOf(pc) EXCEPT ![t] = "idle"]
         /\ s = "notify" => StatusOf(pc') = [StatusOf(pc) EXCEPT ![t] = "done"]
         /\ s \in {"lock", "locked", "waiting"} =>
               StatusOf(pc') = [StatusOf(pc) EXCEPT ![t] = "pending"]
         /\ pc[t] \in {"lock", "locked", "waiting"} => StatusOf(pc)[t] = "pending"
         /\ pc[t] = "idle" => StatusOf(pc)[t] = "idle"
         /\ (pc[t] \in {"lock", "locked", "waiting"} /\ s \in {"lock", "locked", "waiting"}) =>
               StatusOf(pc') = StatusOf(pc)
BY DEF TypeOK, PCs, Threads, StatusOf

\* Every step of customQueue is a step of BoundedFifo or changes nothing that
\* BoundedFifo sees.
LEMMA FifoNext == TypeOK /\ [Next]_vars => [Fifo!Next]_(Fifo!vars)
<1> SUFFICES ASSUME TypeOK, [Next]_vars PROVE [Fifo!Next]_(Fifo!vars)
  OBVIOUS
<1> USE DEF Fifo!vars, Threads, PCs
<1>1. ASSUME NEW t \in Threads, Lock(t) \/ PushWait(t) \/ PopWait(t) \/ SpuriousWakeup(t)
      PROVE  [Fifo!Next]_(Fifo!vars)
  <2>1. \E s \in {"lock", "locked", "waiting"} : pc' = [pc EXCEPT ![t] = s]
    BY <1>1 DEF Lock, PushWait, PopWait, SpuriousWakeup
  <2>2. pc[t] \in {"lock", "locked", "waiting"}
    BY <1>1 DEF Lock, PushWait, PopWait, SpuriousWakeup
  <2>3. StatusOf(pc') = StatusOf(pc)
    BY <2>1, <2>2, MoveStatus
  <2> QED
    BY <1>1, <2>3 DEF Lock, PushWait, PopWait, SpuriousWakeup, StatusOf
<1>2. ASSUME NEW t \in Threads, NEW a, Call(t, a) PROVE Fifo!Invoke(t, a)
  <2>1. StatusOf(pc)[t] = "idle" /\ StatusOf(pc') = [StatusOf(pc) EXCEPT ![t] = "pending"]
    BY <1>2, MoveStatus DEF Call
  <2> QED
    BY <1>2, <2>1 DEF Call, StatusOf, Fifo!Invoke
<1>3. ASSUME NEW t \in Producers, PushFront(t) PROVE Fifo!Enqueue(t)
  <2>1. StatusOf(pc)[t] = "pending" /\ StatusOf(pc') = [StatusOf(pc) EXCEPT ![t] = "done"]
    BY <1>3, MoveStatus DEF PushFront
  <2> QED
    BY <1>3, <2>1 DEF PushFront, StatusOf, Fifo!Enqueue, Fifo!HasSpace, HasSpace
<1>4. ASSUME NEW t \in Consumers, PopBack(t) PROVE Fifo!Dequeue(t)
  <2>1. StatusOf(pc)[t] = "pending" /\ StatusOf(pc') = [StatusOf(pc) EXCEPT ![t] = "done"]
    BY <1>4, MoveStatus DEF PopBack
  <2> QED
    BY <1>4, <2>1 DEF PopBack, StatusOf, Fifo!Dequeue
<1>5. ASSUME NEW t \in Admins, SetCapacity(t) PROVE Fifo!Resize(t)
  <2>1. StatusOf(pc)[t] = "pending" /\ StatusOf(pc') = [StatusOf(pc) EXCEPT ![t] = "done"]
    BY <1>5, MoveStatus DEF SetCapacity
  <2> QED
    BY <1>5, <2>1 DEF SetCapacity, StatusOf, Fifo!Resize
<1>6. ASSUME NEW t \in Threads, PushNotify(t) \/ PopNotify(t) \/ SetCapacityNotify(t)
      PROVE  Fifo!Return(t)
  <2>1. StatusOf(pc)[t] = "done" /\ StatusOf(pc') = [StatusOf(pc) EXCEPT ![t] = "idle"]
    BY <1>6, NotifyAllStatus DEF PushNotify, PopNotify, SetCapacityNotify
  <2> QED
    BY <1>6, <2>1 DEF PushNotify, PopNotify, SetCapacityNotify, StatusOf, Fifo!Return
<1>7. CASE UNCHANGED vars
  BY <1>7 DEF vars
<1> QED
  BY <1>1, <1>2, <1>3, <1>4, <1>5, <1>6, <1>7
     DEF Next, Push, Pop, Resize, Fifo!Next

\* customQueue implements BoundedFifo: to its callers, push, pop and
\* setCapacity are atomic and elements leave in the order they entered.
THEOREM ImplementsBoundedFifo == Spec => LinearizableFifo
<1>1. Init => Fifo!Init
  BY DEF Init, Fifo!Init, Threads, Fifo!Threads
<1>2. TypeOK /\ [Next]_vars => [Fifo!Next]_(Fifo!vars)
  BY FifoNext
<1> QED
  BY <1>1, <1>2, QueueTypeCorrect, PTL DEF Spec, LinearizableFifo, Fifo!Spec
=============================================================================
