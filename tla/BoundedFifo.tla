----------------------------- MODULE BoundedFifo -----------------------------
(***************************************************************************)
(* What customQueue promises its callers: a FIFO whose push, pop and       *)
(* setCapacity each take effect at one instant between call and return,    *)
(* whose push takes effect only while there is room, and whose pop takes   *)
(* effect only on a non-empty queue.  CustomQueue, with its mutex and its  *)
(* two condition variables, implements this specification.                 *)
(***************************************************************************)
EXTENDS QueueOps

CONSTANTS Producers, Consumers, Admins, \* callers of push, pop, setCapacity
          Values,                       \* what is queued
          Capacities,                   \* the values capacity can take
          NoArg                         \* no argument, no result

VARIABLES items,     \* the queue
          capacity,  \* its capacity
          status,    \* per caller: "idle", "pending" or "done"
          arg        \* per caller: the argument of its call, or pop's result

vars == <<items, capacity, status, arg>>

Threads == Producers \cup Consumers \cup Admins

Init ==
  /\ items = <<>>
  /\ capacity \in Capacities
  /\ status = [t \in Threads |-> "idle"]
  /\ arg = [t \in Threads |-> NoArg]

Invoke(t, a) ==
  /\ status[t] = "idle"
  /\ status' = [status EXCEPT ![t] = "pending"]
  /\ arg' = [arg EXCEPT ![t] = a]
  /\ UNCHANGED <<items, capacity>>

Return(t) ==
  /\ status[t] = "done"
  /\ status' = [status EXCEPT ![t] = "idle"]
  /\ UNCHANGED <<items, capacity, arg>>

Enqueue(t) ==
  /\ status[t] = "pending"
  /\ HasSpace(items, capacity)
  /\ items' = Append(items, arg[t])
  /\ status' = [status EXCEPT ![t] = "done"]
  /\ UNCHANGED <<capacity, arg>>

Dequeue(t) ==
  /\ status[t] = "pending"
  /\ items # <<>>
  /\ arg' = [arg EXCEPT ![t] = Head(items)]
  /\ items' = Tail(items)
  /\ status' = [status EXCEPT ![t] = "done"]
  /\ UNCHANGED capacity

Resize(t) ==
  /\ status[t] = "pending"
  /\ capacity' = arg[t]
  /\ status' = [status EXCEPT ![t] = "done"]
  /\ UNCHANGED <<items, arg>>

Next ==
  \/ \E t \in Producers : (\E v \in Values : Invoke(t, v)) \/ Enqueue(t) \/ Return(t)
  \/ \E t \in Consumers : Invoke(t, NoArg) \/ Dequeue(t) \/ Return(t)
  \/ \E t \in Admins : (\E c \in Capacities : Invoke(t, c)) \/ Resize(t) \/ Return(t)

Spec == Init /\ [][Next]_vars
=============================================================================
