---------------------------- MODULE MCCustomQueue ----------------------------
(***************************************************************************)
(* CustomQueue for TLC.  With capacity 0 the queue is unbounded, so a push *)
(* is only called while the elements queued and being pushed are fewer     *)
(* than MaxLen; once called it runs as in the specification.               *)
(***************************************************************************)
EXTENDS CustomQueue, FiniteSets

CONSTANT MaxLen  \* bound on the length of an unlimited queue

Pushing == {t \in Producers : pc[t] \in {"lock", "locked", "waiting"}}

MCNext ==
  \/ \E t \in Producers :
       \/ /\ Len(d_queue) + Cardinality(Pushing) < MaxLen
          /\ \E v \in Values : Call(t, v)
       \/ Push(t)
  \/ \E t \in Consumers : Call(t, NoArg) \/ Pop(t)
  \/ \E t \in Admins : (\E c \in Capacities : Call(t, c)) \/ Resize(t)
  \/ \E t \in Threads : SpuriousWakeup(t)

MCSpec == Init /\ [][MCNext]_vars /\ Fairness
=============================================================================
