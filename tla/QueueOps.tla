------------------------------ MODULE QueueOps ------------------------------
(***************************************************************************)
(* What the pipelines use of customQueue<int> once each push and pop is    *)
(* taken as one atomic step (CustomQueue shows that this is sound), and    *)
(* the arithmetic by which the constructors of XDBCServer and XClient give *)
(* every queue its capacity.                                               *)
(*                                                                         *)
(* A queue is a sequence whose Head is d_queue.back(), the next element    *)
(* pop() returns; push() appends at the other end.                         *)
(***************************************************************************)
EXTENDS Integers, Sequences

\* The value every producer pushes to tell a consumer to stop.
Sentinel == -1

\* The wait predicate of push(): capacity 0 means unlimited.
HasSpace(queue, capacity) == capacity = 0 \/ Len(queue) < capacity

-----------------------------------------------------------------------------
\* C++ integer division and remainder by 4 truncate towards zero.
QuarterOf(n) == IF n >= 0 THEN n \div 4 ELSE -((-n) \div 4)

RestOfQuarter(n) == n - 4 * QuarterOf(n)

\* setCapacity takes a size_t: a negative int becomes a bound close to 2^64,
\* which no queue of buffer ids reaches, so it behaves as "unlimited" (0).
AsCapacity(n) == IF n < 0 THEN 0 ELSE n

\* queueCapacityPerComp, the capacity of every inner queue but one.
QueueCapacityPerComp(buffers, workers) ==
  AsCapacity(QuarterOf(buffers - workers))

\* deserQueueCapacity (server) and serQueueCapacity (client): the queue that
\* also gets the remainder.
RemainderQueueCapacity(buffers, workers) ==
  AsCapacity(QuarterOf(buffers - workers) + RestOfQuarter(buffers - workers))
=============================================================================
