----------------------------- MODULE CustomQueue -----------------------------
(***************************************************************************)
(* customQueue<T> (server/customQueue.h, and its copy in client/xdbc): a   *)
(* deque guarded by d_mutex, with condition variable d_condition for       *)
(* threads waiting in pop() and d_space_available for threads waiting in   *)
(* push().  A step is what a thread does between two points where another  *)
(* thread can interfere: taking the mutex, the critical section, and the   *)
(* notify_all, which push() and setCapacity() call after they have         *)
(* released the mutex and pop() while it still holds it.                   *)
(***************************************************************************)
EXTENDS QueueOps

CONSTANTS Producers,   \* threads that call push
          Consumers,   \* threads that call pop
          Admins,      \* threads that call setCapacity
          Values,      \* what is queued
          Capacities,  \* the capacities setCapacity is called with
          NoArg,       \* no argument, no result
          Unlocked     \* the owner of a free mutex

Threads == Producers \cup Consumers \cup Admins

ASSUME RolesAssumption ==
  /\ Producers \cap Consumers = {}
  /\ Producers \cap Admins = {}
  /\ Consumers \cap Admins = {}

ASSUME CapacitiesAssumption == Capacities \subseteq Nat

ASSUME UnlockedAssumption == Unlocked \notin Threads

VARIABLES d_queue,           \* the deque
          capacity,          \* its capacity, 0 for unlimited
          d_mutex,           \* the thread that owns the mutex, or Unlocked
          d_condition,       \* the threads waiting in pop()
          d_space_available, \* the threads waiting in push()
          pc,                \* where each thread is
          arg                \* its argument, or what pop() took out

vars == <<d_queue, capacity, d_mutex, d_condition, d_space_available, pc, arg>>

\* idle: outside; lock: about to take the mutex; locked: owns it;
\* waiting: in a condition variable; notify: about to call notify_all.
PCs == {"idle", "lock", "locked", "waiting", "notify"}

Init ==
  /\ d_queue = <<>>
  /\ capacity \in Capacities
  /\ d_mutex = Unlocked
  /\ d_condition = {}
  /\ d_space_available = {}
  /\ pc = [t \in Threads |-> "idle"]
  /\ arg = [t \in Threads |-> NoArg]

-----------------------------------------------------------------------------
Call(t, a) ==
  /\ pc[t] = "idle"
  /\ pc' = [pc EXCEPT ![t] = "lock"]
  /\ arg' = [arg EXCEPT ![t] = a]
  /\ UNCHANGED <<d_queue, capacity, d_mutex, d_condition, d_space_available>>

\* Mutant of Lock: the critical section is entered without the mutex.
LockIgnoringOwner(t) ==
  /\ pc[t] = "lock"
  /\ d_mutex' = t
  /\ pc' = [pc EXCEPT ![t] = "locked"]
  /\ UNCHANGED <<d_queue, capacity, d_condition, d_space_available, arg>>

\* Both the constructor of unique_lock and the return of wait() take d_mutex.
Lock(t) ==
  /\ pc[t] = "lock"
  /\ d_mutex = Unlocked
  /\ d_mutex' = t
  /\ pc' = [pc EXCEPT ![t] = "locked"]
  /\ UNCHANGED <<d_queue, capacity, d_condition, d_space_available, arg>>

\* The effect on pc of notify_all by t on a condition variable with these
\* waiters: all of them must take the mutex again; t itself returns.
NotifyAll(t, waiters) ==
  [u \in Threads |-> IF u = t THEN "idle"
                     ELSE IF u \in waiters THEN "lock" ELSE pc[u]]

-----------------------------------------------------------------------------
PushWait(t) ==
  /\ pc[t] = "locked"
  /\ ~HasSpace(d_queue, capacity)
  /\ d_mutex' = Unlocked
  /\ d_space_available' = d_space_available \cup {t}
  /\ pc' = [pc EXCEPT ![t] = "waiting"]
  /\ UNCHANGED <<d_queue, capacity, d_condition, arg>>

\* Mutant of PushFront: returns without notify_all.
PushFrontSilently(t) ==
  /\ pc[t] = "locked"
  /\ HasSpace(d_queue, capacity)
  /\ d_queue' = Append(d_queue, arg[t])
  /\ d_mutex' = Unlocked
  /\ pc' = [pc EXCEPT ![t] = "idle"]
  /\ UNCHANGED <<capacity, d_condition, d_space_available, arg>>

\* Mutant of PushFront: inserts at the end that pop() takes from.
PushBack(t) ==
  /\ pc[t] = "locked"
  /\ HasSpace(d_queue, capacity)
  /\ d_queue' = <<arg[t]>> \o d_queue
  /\ d_mutex' = Unlocked
  /\ pc' = [pc EXCEPT ![t] = "notify"]
  /\ UNCHANGED <<capacity, d_condition, d_space_available, arg>>

PushFront(t) ==
  /\ pc[t] = "locked"
  /\ HasSpace(d_queue, capacity)
  /\ d_queue' = Append(d_queue, arg[t])
  /\ d_mutex' = Unlocked
  /\ pc' = [pc EXCEPT ![t] = "notify"]
  /\ UNCHANGED <<capacity, d_condition, d_space_available, arg>>

\* Mutant of PushNotify: notify_one.
PushNotifyOne(t) ==
  /\ pc[t] = "notify"
  /\ \E woken \in SUBSET d_condition :
        /\ d_condition # {} => woken # {}
        /\ \A u, v \in woken : u = v
        /\ pc' = NotifyAll(t, woken)
        /\ d_condition' = d_condition \ woken
  /\ UNCHANGED <<d_queue, capacity, d_mutex, d_space_available, arg>>

PushNotify(t) ==
  /\ pc[t] = "notify"
  /\ pc' = NotifyAll(t, d_condition)
  /\ d_condition' = {}
  /\ UNCHANGED <<d_queue, capacity, d_mutex, d_space_available, arg>>

\* Mutant of PopWait: waits on the other condition variable.
PopWaitForSpace(t) ==
  /\ pc[t] = "locked"
  /\ d_queue = <<>>
  /\ d_mutex' = Unlocked
  /\ d_space_available' = d_space_available \cup {t}
  /\ pc' = [pc EXCEPT ![t] = "waiting"]
  /\ UNCHANGED <<d_queue, capacity, d_condition, arg>>

PopWait(t) ==
  /\ pc[t] = "locked"
  /\ d_queue = <<>>
  /\ d_mutex' = Unlocked
  /\ d_condition' = d_condition \cup {t}
  /\ pc' = [pc EXCEPT ![t] = "waiting"]
  /\ UNCHANGED <<d_queue, capacity, d_space_available, arg>>

PopBack(t) ==
  /\ pc[t] = "locked"
  /\ d_queue # <<>>
  /\ arg' = [arg EXCEPT ![t] = Head(d_queue)]
  /\ d_queue' = Tail(d_queue)
  /\ pc' = [pc EXCEPT ![t] = "notify"]
  /\ UNCHANGED <<capacity, d_mutex, d_condition, d_space_available>>

\* Mutant of PopNotify: returns without notify_all.
PopReturnSilently(t) ==
  /\ pc[t] = "notify"
  /\ pc' = [pc EXCEPT ![t] = "idle"]
  /\ d_mutex' = Unlocked
  /\ UNCHANGED <<d_queue, capacity, d_condition, d_space_available, arg>>

\* notify_all, then the return that destroys the lock.
PopNotify(t) ==
  /\ pc[t] = "notify"
  /\ pc' = NotifyAll(t, d_space_available)
  /\ d_space_available' = {}
  /\ d_mutex' = Unlocked
  /\ UNCHANGED <<d_queue, capacity, d_condition, arg>>

SetCapacity(t) ==
  /\ pc[t] = "locked"
  /\ capacity' = arg[t]
  /\ d_mutex' = Unlocked
  /\ pc' = [pc EXCEPT ![t] = "notify"]
  /\ UNCHANGED <<d_queue, d_condition, d_space_available, arg>>

SetCapacityNotify(t) ==
  /\ pc[t] = "notify"
  /\ pc' = NotifyAll(t, d_space_available)
  /\ d_space_available' = {}
  /\ UNCHANGED <<d_queue, capacity, d_mutex, d_condition, arg>>

\* A condition variable may wake a waiter without any notification.
SpuriousWakeup(t) ==
  /\ pc[t] = "waiting"
  /\ pc' = [pc EXCEPT ![t] = "lock"]
  /\ d_condition' = d_condition \ {t}
  /\ d_space_available' = d_space_available \ {t}
  /\ UNCHANGED <<d_queue, capacity, d_mutex, arg>>

-----------------------------------------------------------------------------
Push(t) == Lock(t) \/ PushWait(t) \/ PushFront(t) \/ PushNotify(t)
Pop(t) == Lock(t) \/ PopWait(t) \/ PopBack(t) \/ PopNotify(t)
Resize(t) == Lock(t) \/ SetCapacity(t) \/ SetCapacityNotify(t)

Next ==
  \/ \E t \in Producers : (\E v \in Values : Call(t, v)) \/ Push(t)
  \/ \E t \in Consumers : Call(t, NoArg) \/ Pop(t)
  \/ \E t \in Admins : (\E c \in Capacities : Call(t, c)) \/ Resize(t)
  \/ \E t \in Threads : SpuriousWakeup(t)

Spec == Init /\ [][Next]_vars

\* The operating system keeps running every thread that can run.  A caller
\* need not call again and no thread need wake spuriously.
Fairness ==
  /\ \A t \in Producers : WF_vars(Push(t))
  /\ \A t \in Consumers : WF_vars(Pop(t))
  /\ \A t \in Admins : WF_vars(Resize(t))

FairSpec == Spec /\ Fairness

-----------------------------------------------------------------------------
\* The threads whose code is inside a block that holds d_mutex: pop() still
\* holds it when it notifies, push() and setCapacity() do not.
InCriticalSection(t) ==
  pc[t] = "locked" \/ (t \in Consumers /\ pc[t] = "notify")

\* Type invariant: every variable has its type, the argument of a pending call
\* is of its kind, and a thread is in a condition variable exactly when it
\* waits, consumers in d_condition and producers in d_space_available.
TypeOK ==
  /\ d_queue \in Seq(Values)
  /\ capacity \in Capacities
  /\ d_mutex \in Threads \cup {Unlocked}
  /\ d_condition = {t \in Consumers : pc[t] = "waiting"}
  /\ d_space_available = {t \in Producers : pc[t] = "waiting"}
  /\ pc \in [Threads -> PCs]
  /\ arg \in [Threads -> Values \cup Capacities \cup {NoArg}]
  /\ \A t \in Producers : pc[t] # "idle" => arg[t] \in Values
  /\ \A t \in Admins : pc[t] # "waiting" /\ (pc[t] # "idle" => arg[t] \in Capacities)

\* d_mutex protects d_queue and capacity: exactly the thread inside a critical
\* section owns it, so there is never more than one.
MutualExclusion ==
  \A t \in Threads : InCriticalSection(t) <=> d_mutex = t

\* No wakeup of a consumer is lost (push() notifies after it has unlocked):
\* when consumers wait although the queue holds something, a producer is still
\* on its way to notify_all on d_condition.
NoLostItemWakeup ==
  d_condition # {} /\ d_queue # <<>> => \E t \in Producers : pc[t] = "notify"

\* No wakeup of a producer is lost: when producers wait although there is
\* room, a consumer or a setCapacity is still on its way to notify_all on
\* d_space_available.
NoLostSpaceWakeup ==
  d_space_available # {} /\ HasSpace(d_queue, capacity) =>
     \E t \in Consumers \cup Admins : pc[t] = "notify"

\* customQueue implements BoundedFifo: push, pop and setCapacity are atomic to
\* their callers and elements leave in the order in which they entered.
Fifo == INSTANCE BoundedFifo WITH
  items <- d_queue,
  status <- [t \in Threads |-> IF pc[t] = "idle" THEN "idle"
                               ELSE IF pc[t] = "notify" THEN "done" ELSE "pending"]

LinearizableFifo == Fifo!Spec

\* A consumer that waits while the queue holds something is eventually woken
\* (d_condition.notify_all at the end of push), whoever else takes elements.
ConsumersWoken ==
  \A t \in Consumers :
     (t \in d_condition /\ d_queue # <<>>) ~> (t \notin d_condition)
=============================================================================
