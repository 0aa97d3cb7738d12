------------------------------- MODULE Metrics -------------------------------
(***************************************************************************)
(* The report of a transfer.  Every thread of a pipeline records when it   *)
(* starts, pops a buffer, pushes one and ends, in the queue pts that all   *)
(* threads share; when they have been joined, calculate_metrics makes      *)
(* waiting, processing and overall times of it.  The monitor records the   *)
(* lengths of the queues, of which printAndReturnAverageLoad makes average *)
(* loads.                                                                  *)
(*                                                                         *)
(* Threads differ in what they record: some record the pop of the sentinel *)
(* as well (send, write, and deserializers and serializers that forward),  *)
(* deserializers record one or no push for several pops, or several pushes *)
(* for one pop.  Times are ticks since the epoch of the clock, averages    *)
(* are fractions.  What is made of the times of several threads (means,    *)
(* throughputs, deviations) is left out.                                   *)
(***************************************************************************)
EXTENDS Integers, Sequences, FiniteSets, SequencesExt, FiniteSetsExt

CONSTANTS Components,   \* names, with the number of threads of each
          Style,        \* per component: "plain", "sentinel" or "recut"
          Delays,       \* ticks between two events
          StartTime,    \* ticks from the epoch to the start of the transfer
          MaxEvents,    \* bound on the events of all threads together
          SampleSizes,  \* lengths of a queue
          MaxSamples    \* bound on the samples of the monitor

VARIABLES now,         \* the clock
          pts,         \* the events recorded, in the order of the queue
          state,       \* what each thread does
          queueSizes   \* the samples of the monitor

vars == <<now, pts, state, queueSizes>>

Queues == {"free", "first", "second", "third"}   \* in the order of the stages

Threads == UNION {{c} \X (1..Components[c]) : c \in DOMAIN Components}

Init ==
  /\ now = StartTime
  /\ pts = <<>>
  /\ state = [t \in Threads |-> "created"]
  /\ queueSizes = <<>>

-----------------------------------------------------------------------------
Record(t, event, from, to) ==
  /\ Len(pts) < MaxEvents /\ queueSizes = <<>>
  /\ state[t] \in from
  /\ state' = [state EXCEPT ![t] = to]
  /\ pts' = Append(pts, [timestamp |-> now, component |-> t[1], thread |-> t[2], event |-> event])
  /\ \E d \in Delays : now' = now + d
  /\ UNCHANGED queueSizes

Recut(t) == Style[t[1]] = "recut"

Start(t) == Record(t, "start", {"created"}, "waiting")
Pop(t) == Record(t, "pop", IF Recut(t) THEN {"waiting", "working"} ELSE {"waiting"}, "working")
Push(t) == Record(t, "push", {"working"}, IF Recut(t) THEN "working" ELSE "waiting")
\* The sentinel.
PopSentinel(t) == Style[t[1]] = "sentinel" /\ Record(t, "pop", {"waiting"}, "leaving")
\* Also after a pop that is followed by an error (send, receive).
End(t) ==
  Record(t, "end", CASE Style[t[1]] = "sentinel" -> {"leaving", "working"}
                     [] Style[t[1]] = "plain" -> {"waiting"}
                     [] OTHER -> {"waiting", "working"}, "ended")

\* monitorQueues.  Samples and events do not meet; a behaviour has one or the other.
Sample ==
  /\ pts = <<>> /\ Len(queueSizes) < MaxSamples
  /\ \E sizes \in [Queues -> SampleSizes] : queueSizes' = Append(queueSizes, sizes)
  /\ UNCHANGED <<now, pts, state>>

Next == Sample \/ \E t \in Threads : Start(t) \/ Pop(t) \/ Push(t) \/ PopSentinel(t) \/ End(t)

Spec == Init /\ [][Next]_vars

-----------------------------------------------------------------------------
(* calculate_metrics. *)

\* The events of a thread, out of the queue that all threads share.
EventsOf(t) == SelectSeq(pts, LAMBDA e : e.component = t[1] /\ e.thread = t[2])

\* The local variables of the loop; a default time_point is the epoch.
NoEvents == [start |-> 0, push |-> 0, pop |-> 0, end |-> 0, waiting |-> 0, processing |-> 0,
             hasPop |-> FALSE, hasStart |-> FALSE, buffers |-> 0]

\* Mutant of Count: waiting is counted from the start of the thread.
CountFromStart(m, e) ==
  CASE e.event = "start" -> [m EXCEPT !.start = e.timestamp, !.hasStart = TRUE]
    [] e.event = "pop" -> [m EXCEPT !.pop = e.timestamp, !.hasPop = TRUE,
                                    !.waiting = @ + e.timestamp - m.start]
    [] e.event = "push" -> [m EXCEPT !.push = e.timestamp, !.buffers = @ + 1,
                                     !.processing = @ + e.timestamp - m.pop]
    [] e.event = "end" -> [m EXCEPT !.end = e.timestamp]

Count(m, e) ==
  CASE e.event = "start" -> [m EXCEPT !.start = e.timestamp, !.hasStart = TRUE]
    [] e.event = "pop" ->
         [m EXCEPT !.pop = e.timestamp, !.hasPop = TRUE,
                   !.waiting = @ + IF m.hasPop THEN e.timestamp - m.push
                                   ELSE IF m.hasStart THEN e.timestamp - m.start ELSE 0]
    [] e.event = "push" ->
         [m EXCEPT !.push = e.timestamp, !.buffers = @ + 1, !.processing = @ + e.timestamp - m.pop]
    [] e.event = "end" ->
         [m EXCEPT !.end = e.timestamp, !.processing = @ + IF m.hasPop THEN e.timestamp - m.push ELSE 0]

Times(t) == FoldLeft(Count, NoEvents, EventsOf(t))

-----------------------------------------------------------------------------
(* printAndReturnAverageLoad. *)

\* Fractions: a numerator and a positive denominator.
Frac(n, d) == [n |-> n, d |-> d]
Same(x, y) == x.n * y.d = y.n * x.d

AverageLoad(q) ==
  IF queueSizes = <<>> THEN Frac(0, 1)
  ELSE Frac(FoldLeft(LAMBDA sum, s : sum + s[q], 0, queueSizes), Len(queueSizes))

\* The four averages that the server prints; the third one is made of the sum for
\* the first queue.  (The client's are made of four sums.)
ServerLoads == <<AverageLoad("free"), AverageLoad("first"), AverageLoad("first"), AverageLoad("third")>>

-----------------------------------------------------------------------------
\* What a last pop without a push waited for, or all time since the epoch if the
\* thread never pushed a buffer.
CountedTwice(t) == IF Style[t[1]] = "sentinel" THEN Times(t).pop - Times(t).push ELSE 0

\* The report accounts for the whole life of a thread that popped a buffer: waiting
\* and processing add up to its overall time, except that a thread that records a
\* last pop without a push (send, write, receive) counts that last wait as
\* processing too, and that a deserializer that cuts tuples into other buffers
\* counts some time twice (calculate_metrics).  A thread that popped nothing
\* neither waited nor processed.
TimesAddUp ==
  \A t \in Threads :
    state[t] = "ended" =>
      LET m == Times(t)
          counted == m.waiting + m.processing
      IN IF ~m.hasPop THEN counted = 0
         ELSE IF Recut(t) THEN counted >= m.end - m.start
         ELSE counted = m.end - m.start + CountedTwice(t)

\* The line printed above the averages names the queues "Free, Deserializer,
\* Compressor, Sender": each average is that of the queue named, the lengths that
\* the monitor recorded for it (printAndReturnAverageLoad).
LoadsAsLabelled ==
  LET label == <<"free", "first", "second", "third">>
  IN \A q \in DOMAIN ServerLoads : Same(ServerLoads[q], AverageLoad(label[q]))
=============================================================================
