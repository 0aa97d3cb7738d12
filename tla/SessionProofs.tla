---------------------------- MODULE SessionProofs -----------------------------
(***************************************************************************)
(* Proofs about Session, for every number of send and receive threads,     *)
(* every number of buffers, every request and every choice of faults.      *)
(***************************************************************************)
EXTENDS Session, PoolLemmas, TLAPS

Ids == 1..BuffersToSend

ServerStates == {"off", "accept", "readName", "readSchema", "prepare", "barrier",
                 "signal", "joinComp", "joinNet", "joinMonitor", "done", "crashed"}

ClientStates == {"connect", "retry", "writeName", "writeSchema", "readReady", "start", "joinSink",
                 "finalize", "done", "threw", "aborted", "killed"}

ConnStates == {"none", "open", "eof", "reset"}

BaseType == [st : ConnStates, c2s : Seq({"writeName", "writeSchema"}), s2c : Seq({"ready"})]
ConnType == [st : ConnStates, unread : BOOLEAN, data : Seq(Ids)]

\* TypeOK and the types of what it leaves out.
FullTypes ==
  /\ TypeOK
  /\ srv \in ServerStates /\ cli \in ClientStates
  /\ sendQ \in Seq(Ids \cup {Sentinel})
  /\ base \in BaseType
  /\ conn \in [Ports -> ConnType]

-----------------------------------------------------------------------------
\* No thread has been started yet.
Preparing == srv \in {"off", "accept", "readName", "readSchema", "prepare"}

\* The send thread has told the barrier that it listens.
Told(s) == sender[s] \in {"accept", "loop", "close", "ended"}

\* The barrier counts every send thread once: those before q have told it, and
\* when it is open all have.
BarrierInv ==
  /\ Preparing => /\ barrier.acc = 0 /\ barrier.q = 1 /\ sendQ = <<>>
                  /\ \A s \in Senders : sender[s] = "none"
  /\ srv = "barrier" => /\ barrier.acc < NetworkParallelism /\ barrier.q = barrier.acc + 1
                        /\ \A s \in Senders : s < barrier.q => Told(s)
  /\ srv \in {"signal", "joinComp", "joinNet", "joinMonitor", "done"} =>
       \A s \in Senders : Told(s)
  /\ srv \in {"joinMonitor", "done"} => \A s \in Senders : sender[s] = "ended"
  /\ \A s \in Senders : ~Told(s) => barrier.ready[s] = 0

\* What the state of the base connection tells one side of the other.
BaseInv ==
  /\ cli \in {"connect", "retry"} => base.st = "none"
  /\ base.st = "none" => /\ srv \in {"off", "accept", "crashed"}
                         /\ cli \in {"connect", "retry", "threw", "killed"}
  /\ base.st \in {"eof", "reset"} => srv \in {"done", "crashed"}
  /\ base.s2c # <<>> => srv \in {"joinComp", "joinNet", "joinMonitor", "done", "crashed"}
  /\ cli \in {"start", "joinSink", "finalize", "done"} => base.s2c # <<>> \/ base.st \in {"eof", "reset"}
  /\ cli \in {"connect", "retry", "writeName", "writeSchema", "readReady", "start"} =>
       \A r \in Receivers : receiver[r] = "none"
  /\ Preparing => \A r \in Receivers : receiver[r] = "none"

\* No receive thread has connected to port p.
Unconnected(p) == p \notin Receivers \/ receiver[p] \in {"none", "connect", "refused"}

\* The receive thread has written its id.
Introduced(p) == p \in Receivers /\ receiver[p] \in {"loop", "count", "ended"}

\* The send thread has read that id.
Greeted(s) == sender[s] \in {"loop", "close", "ended"}

\* What the state of a connection tells its send thread of its receive thread.
ConnInv ==
  /\ \A p \in Ports : Unconnected(p) => conn[p].st = "none" /\ conn[p].data = <<>>
  /\ \A p \in Ports : conn[p].unread => Introduced(p)
  /\ \A s \in Senders : Greeted(s) =>
       conn[s].st # "none" /\ ~conn[s].unread /\ (Introduced(s) \/ ~ClientUp)
  /\ \A p \in Ports : conn[p].st = "reset" => srv = "crashed"
  /\ \A p \in Ports : conn[p].st = "eof" => p \in Senders /\ sender[p] = "ended"
  /\ \A r \in Receivers : receiver[r] \in {"count", "ended"} =>
       conn[r].st = "reset" \/ (conn[r].st = "eof" /\ conn[r].data = <<>>)

Counted == {r \in Receivers : receiver[r] = "ended"}

\* finishedRcvThreads counts the receive threads that have ended.
CountInv ==
  /\ finished = Cardinality(Counted)
  /\ cli \in {"finalize", "done"} => \A r \in Receivers : receiver[r] = "ended"

\* Buffer b is on its way to the client; buffer b is still to be sent.
InData(b) == \E p \in Ports : \E i \in 1..Len(conn[p].data) : conn[p].data[i] = b
InQueue(b) == \E i \in 1..Len(sendQ) : sendQ[i] = b

\* No buffer is queued twice, and the sentinels come last.
QueueOrdered ==
  \A i, j \in 1..Len(sendQ) : i < j =>
    /\ sendQ[i] = Sentinel => sendQ[j] = Sentinel
    /\ sendQ[i] # Sentinel => sendQ[j] # sendQ[i]

\* No buffer is on its way twice.
DataDistinct ==
  \A p, q \in Ports : \A i \in 1..Len(conn[p].data), j \in 1..Len(conn[q].data) :
    conn[p].data[i] = conn[q].data[j] => p = q /\ i = j

\* Every buffer is in at most one place.
OnceInv ==
  /\ QueueOrdered /\ DataDistinct
  /\ \A b \in Ids : InQueue(b) => ~InData(b) /\ received[b] = 0
  /\ \A b \in Ids : InData(b) => received[b] = 0
  /\ \A b \in Ids : received[b] <= 1
  /\ Preparing => \A b \in Ids : received[b] = 0

\* No buffer is lost while both processes live, and a send thread stops only
\* when none is left.
KeptInv ==
  /\ ~Preparing /\ srv # "crashed" /\ cli # "killed" =>
       \A b \in Ids : InQueue(b) \/ InData(b) \/ received[b] = 1
  /\ \A s \in Senders : sender[s] \in {"close", "ended"} =>
       cli = "killed" \/ \A i \in 1..Len(sendQ) : sendQ[i] = Sentinel

\* The inductive invariant.
SessionInv ==
  /\ FullTypes /\ BarrierInv /\ BaseInv /\ ConnInv /\ CountInv /\ OnceInv /\ KeptInv
  /\ ReceiversFindSenders

-----------------------------------------------------------------------------
\* Every initial state satisfies the inductive invariant.
LEMMA SessionInit == Init => SessionInv
<1> SUFFICES ASSUME Init PROVE SessionInv
  OBVIOUS
<1>1. FullTypes
  BY SessionAssumption
  DEF Init, FullTypes, TypeOK, Senders, Receivers, Ports, MaxTries, ServerStates, ClientStates,
      ConnStates, BaseType, ConnType, Ids
<1>2. BarrierInv /\ BaseInv /\ ConnInv
  BY SessionAssumption DEF Init, BarrierInv, BaseInv, ConnInv, Preparing, Told, Greeted, Unconnected
<1>3. CountInv
  <2>1. Counted = {}
    BY DEF Init, Counted
  <2> QED
    BY <2>1, FS_EmptySet DEF Init, CountInv
<1>4. OnceInv /\ KeptInv /\ ReceiversFindSenders
  BY DEF Init, OnceInv, QueueOrdered, DataDistinct, KeptInv, InData, InQueue, Ids, Preparing, ReceiversFindSenders
<1> QED
  BY <1>1, <1>2, <1>3, <1>4 DEF SessionInv

-----------------------------------------------------------------------------
\* The barrier goes round the queues from the first to the last.
LEMMA NextReadyQueue ==
  ASSUME NEW n \in Nat \ {0}, NEW q \in 1..n
  PROVE  (q < n => q % n = q) /\ (q = n => q % n = 0)
OBVIOUS

\* A step of the server's main thread or of a send thread keeps the barrier exact.
LEMMA BarrierStep == SessionInv /\ [Next]_vars => BarrierInv'
<1> SUFFICES ASSUME SessionInv, [Next]_vars PROVE BarrierInv'
  OBVIOUS
<1> USE SessionAssumption DEF SessionInv, BarrierInv, Preparing, Told
<1>1. CASE UNCHANGED serverVars
  BY <1>1 DEF serverVars
<1>2. CASE \E how \in {"eof", "reset"} : ServerDies(how)
  BY <1>2 DEF ServerDies
<1>3. CASE StartServer
  BY <1>3 DEF StartServer, Goto
<1>4. CASE AcceptBase
  BY <1>4 DEF AcceptBase, Goto
<1>5. CASE ReadRequest("readName", "readSchema")
  BY <1>5, <1>2 DEF ReadRequest, Goto
<1>6. CASE ReadRequest("readSchema", "prepare")
  BY <1>6, <1>2 DEF ReadRequest, Goto
<1>7. CASE Prepare
  <2>1. CASE Servable
    <3>1. srv' = "barrier" /\ sender' = [s \in Senders |-> "bind"] /\ barrier' = barrier
      BY <1>7, <2>1 DEF Prepare, Goto
    <3>2. barrier.acc = 0 /\ barrier.q = 1 /\ \A s \in Senders : barrier.ready[s] = 0
      BY <1>7 DEF Prepare
    <3> QED
      BY <3>1, <3>2 DEF Senders
  <2> QED
    BY <1>7, <1>2, <2>1 DEF Prepare
<1>8. CASE WaitReady
  <2>1. /\ barrier.q \in Senders /\ barrier.acc < NetworkParallelism /\ barrier.q = barrier.acc + 1
        /\ sender' = sender /\ barrier'.acc = barrier.acc + 1
        /\ \A s \in Senders : s <= barrier.q => Told(s)
        /\ \A s \in Senders : ~Told(s) => barrier'.ready[s] = 0
    BY <1>8 DEF WaitReady, FullTypes, TypeOK, Senders
  <2>2. CASE barrier.acc + 1 = NetworkParallelism
    BY <1>8, <2>1, <2>2 DEF WaitReady, Goto, Senders
  <2>3. CASE barrier.acc + 1 # NetworkParallelism
    <3>1. barrier.q % NetworkParallelism = barrier.q /\ barrier.q < NetworkParallelism
      BY <2>1, <2>3, NextReadyQueue DEF Senders
    <3>2. srv' = "barrier" /\ barrier'.q = barrier.q + 1
      BY <1>8, <2>3, <3>1 DEF WaitReady, Goto
    <3> QED
      BY <2>1, <3>1, <3>2 DEF Senders
  <2> QED
    BY <2>2, <2>3
<1>9. CASE SignalReady
  BY <1>9 DEF SignalReady, Goto
<1>10. CASE JoinComp
  BY <1>10 DEF JoinComp, Goto
<1>11. CASE JoinNet
  BY <1>11 DEF JoinNet, Goto
<1>12. CASE JoinMonitor
  BY <1>12 DEF JoinMonitor, Goto
<1>13. ASSUME NEW s \in Senders, Send(s) PROVE BarrierInv'
  <2> USE DEF SenderGoto, FullTypes, TypeOK
  <2>1. CASE Bind(s)
    BY <2>1 DEF Bind
  <2>2. CASE PushReady(s)
    BY <2>2 DEF PushReady
  <2>3. CASE Accept(s)
    BY <2>3 DEF Accept
  <2>4. CASE SendBuffer(s)
    BY <2>4 DEF SendBuffer
  <2>5. CASE SendFails(s)
    BY <2>5 DEF SendFails
  <2>6. CASE CloseSender(s)
    BY <2>6 DEF CloseSender
  <2> QED
    BY <1>13, <2>1, <2>2, <2>3, <2>4, <2>5, <2>6 DEF Send
<1>14. CASE ClientStep
  BY <1>14, <1>1
  DEF ClientStep, ClientMain, Connect, Retry, WriteRequest, ReadReady, StartThreads, JoinSink, Finalize,
      Receive, ConnectReceiver, WriteId, ReadBuffer, ReadFails, CountReceiver, Monitor
<1>15. CASE Monitor("server")
  BY <1>15, <1>1 DEF Monitor
<1>16. CASE KillServer
  BY <1>16, <1>2 DEF KillServer
<1>17. CASE KillClient
  BY <1>17, <1>1 DEF KillClient
<1>18. CASE UNCHANGED vars
  BY <1>18, <1>1 DEF vars
<1> QED
  BY <1>3, <1>4, <1>5, <1>6, <1>7, <1>8, <1>9, <1>10, <1>11, <1>12, <1>13, <1>14, <1>15, <1>16,
     <1>17, <1>18 DEF Next, ServerStep, Serve

\* A step of either side keeps what the base connection tells of the other.
LEMMA BaseStep == SessionInv /\ [Next]_vars => BaseInv'
<1> SUFFICES ASSUME SessionInv, [Next]_vars PROVE BaseInv'
  OBVIOUS
<1> USE DEF SessionInv, BaseInv, Preparing
<1>1. CASE UNCHANGED <<srv, cli, receiver, base>>
  BY <1>1
<1>2. ASSUME NEW how \in {"eof", "reset"}, ServerDies(how) PROVE BaseInv'
  BY <1>2 DEF ServerDies, clientVars, FullTypes, BaseType
<1>3. CASE StartServer \/ AcceptBase \/ JoinComp \/ JoinNet
  BY <1>3 DEF StartServer, AcceptBase, JoinComp, JoinNet, Goto, clientVars
<1>4. CASE ReadRequest("readName", "readSchema")
  BY <1>4, <1>2 DEF ReadRequest, Goto, FullTypes, BaseType, clientVars
<1>5. CASE ReadRequest("readSchema", "prepare")
  BY <1>5, <1>2 DEF ReadRequest, Goto, FullTypes, BaseType, clientVars
<1>6. CASE Prepare
  BY <1>6, <1>2 DEF Prepare, Goto, clientVars
<1>7. CASE WaitReady
  BY <1>7 DEF WaitReady, Goto, clientVars
<1>8. CASE SignalReady
  BY <1>8 DEF SignalReady, Goto, FullTypes, BaseType, clientVars
<1>9. CASE JoinMonitor
  BY <1>9 DEF JoinMonitor, Goto, FullTypes, BaseType, clientVars
<1>10. ASSUME NEW s \in Senders, Send(s) PROVE BaseInv'
  BY <1>10, <1>1 DEF Send, Bind, PushReady, Accept, SendBuffer, SendFails, CloseSender, clientVars
<1>11. CASE Connect
  BY <1>11 DEF Connect, ClientGoto, serverVars, ServerUp, FullTypes, BaseType, ServerStates
<1>111. CASE Retry
  BY <1>111 DEF Retry, ClientGoto, serverVars
<1>12. CASE WriteRequest("writeName", "writeSchema")
  BY <1>12 DEF WriteRequest, ClientGoto, serverVars, FullTypes, BaseType
<1>13. CASE WriteRequest("writeSchema", "readReady")
  BY <1>13 DEF WriteRequest, ClientGoto, serverVars, FullTypes, BaseType
<1>14. CASE ReadReady
  BY <1>14 DEF ReadReady, ClientGoto, serverVars, FullTypes, BaseType, ConnStates
<1>15. CASE StartThreads \/ JoinSink \/ Finalize
  BY <1>15 DEF StartThreads, JoinSink, Finalize, ClientGoto, serverVars
<1>16. CASE KillClient
  BY <1>16 DEF KillClient, ClientUp, ClientGoto, serverVars
<1>17. ASSUME NEW r \in Receivers, ClientUp, Receive(r) PROVE BaseInv'
  <2>1. cli \in {"joinSink", "finalize"}
    BY <1>17 DEF Receive, ConnectReceiver, WriteId, ReadBuffer, ReadFails, CountReceiver, ClientUp,
                 FullTypes, BaseType, ClientStates
  <2>2. cli' \in {cli, "aborted"} /\ base' = base /\ srv' = srv
    BY <1>17 DEF Receive, ConnectReceiver, WriteId, ReadBuffer, ReadFails, CountReceiver,
                 ClientGoto, serverVars
  <2> QED
    BY <2>1, <2>2
<1>18. ASSUME NEW side, Monitor(side) PROVE BaseInv'
  BY <1>18, <1>1 DEF Monitor, serverVars, clientVars
<1>19. CASE KillServer
  BY <1>19, <1>2 DEF KillServer
<1>20. CASE UNCHANGED vars
  BY <1>20, <1>1 DEF vars, serverVars, clientVars
<1> QED
  BY <1>3, <1>4, <1>5, <1>6, <1>7, <1>8, <1>9, <1>10, <1>11, <1>111, <1>12, <1>13, <1>14, <1>15, <1>16,
     <1>17, <1>18, <1>19, <1>20 DEF Next, ServerStep, Serve, ClientStep, ClientMain

\* A step of a send or of a receive thread keeps what their connection tells of
\* the other; in particular no connection is closed with unread input.
LEMMA ConnStep == SessionInv /\ [Next]_vars => ConnInv'
<1> SUFFICES ASSUME SessionInv, [Next]_vars PROVE ConnInv'
  OBVIOUS
<1> USE DEF SessionInv, ConnInv, Unconnected, Introduced, Greeted, ClientUp
<1>1. CASE UNCHANGED <<sender, receiver, conn>> /\ (srv = "crashed" => srv' = "crashed")
           /\ (ClientUp' => ClientUp)
  BY <1>1
<1>2. ASSUME NEW how, ServerDies(how) PROVE ConnInv'
  <2>1. /\ srv' = "crashed" /\ sender' = sender /\ receiver' = receiver /\ cli' = cli
        /\ conn' = [p \in Ports |-> IF conn[p].st = "open" THEN [conn[p] EXCEPT !.st = "reset"]
                                                           ELSE conn[p]]
    BY <1>2 DEF ServerDies, clientVars
  <2>2. \A p \in Ports : /\ conn'[p].data = conn[p].data /\ conn'[p].unread = conn[p].unread
                         /\ conn'[p].st \in {conn[p].st, "reset"}
                         /\ conn'[p].st = "reset" => conn[p].st # "none"
                         /\ conn'[p].st = "none" => conn[p].st = "none"
    BY <2>1 DEF FullTypes
  <2> QED
    BY <2>1, <2>2 DEF Ports
<1>3. CASE Serve
  <2>1. CASE \E how \in {"eof", "reset"} : ServerDies(how)
    BY <2>1, <1>2
  <2>2. CASE Prepare /\ Servable
    <3>1. /\ sender' = [s \in Senders |-> "bind"] /\ receiver' = receiver /\ conn' = conn
          /\ cli' = cli /\ srv' # "crashed" /\ srv # "crashed"
      BY <2>2 DEF Prepare, clientVars, Goto
    <3>2. \A p \in Ports : conn[p].st # "eof"
      BY <2>2 DEF Prepare, BarrierInv, Preparing
    <3> QED
      BY <3>1, <3>2 DEF Ports
  <2> QED
    BY <1>1, <1>3, <2>1, <2>2
    DEF Serve, StartServer, AcceptBase, ReadRequest, Prepare, WaitReady, SignalReady, JoinComp, JoinNet,
        JoinMonitor, Goto, clientVars
<1>4. ASSUME NEW s \in Senders, srv # "crashed", Send(s) PROVE ConnInv'
  <2> USE DEF FullTypes, TypeOK, SenderGoto, Ports, clientVars
  <2>1. CASE Bind(s)
    BY <2>1 DEF Bind
  <2>2. CASE PushReady(s)
    BY <2>2 DEF PushReady
  <2>3. CASE Accept(s)
    BY <2>3 DEF Accept
  <2>4. CASE SendBuffer(s)
    <3>1. CASE Head(sendQ) = Sentinel
      BY <2>4, <3>1 DEF SendBuffer
    <3>2. CASE Head(sendQ) # Sentinel
      <4>1. /\ sender[s] = "loop" /\ sender' = sender /\ receiver' = receiver /\ cli' = cli /\ srv' = srv
            /\ conn' = [conn EXCEPT ![s].data = Append(@, Head(sendQ))]
        BY <2>4, <3>2 DEF SendBuffer
      <4>2. /\ \A p \in Ports : conn'[p].st = conn[p].st /\ conn'[p].unread = conn[p].unread
            /\ \A p \in Ports : p # s => conn'[p].data = conn[p].data
        BY <4>1
      <4>3. conn[s].st # "none" /\ conn[s].st # "eof"
        BY <4>1
      <4>4. \A r \in Receivers : receiver[r] \in {"count", "ended"} =>
              conn[r].st = "reset" \/ (conn[r].st = "eof" /\ r # s)
        BY <4>3
      <4> QED
        BY <4>1, <4>2, <4>3, <4>4
    <3> QED
      BY <3>1, <3>2
  <2>5. CASE SendFails(s)
    BY <2>5 DEF SendFails
  <2>6. CASE CloseSender(s)
    <3>1. sender[s] = "close" /\ conn[s].st # "none" /\ ~conn[s].unread
      BY <2>6 DEF CloseSender
    <3>2. /\ receiver' = receiver /\ cli' = cli /\ srv' = srv /\ sender' = [sender EXCEPT ![s] = "ended"]
          /\ conn' = [conn EXCEPT ![s].st = "eof"]
      BY <2>6, <3>1 DEF CloseSender
    <3>3. /\ \A p \in Ports : conn'[p].data = conn[p].data /\ conn'[p].unread = conn[p].unread
          /\ \A p \in Ports : p # s => conn'[p].st = conn[p].st
          /\ conn'[s].st = "eof"
      BY <3>2
    <3>4. receiver[s] \in {"count", "ended"} /\ s \in Receivers => FALSE
      BY <1>4, <3>1
    <3> QED
      BY <3>1, <3>2, <3>3, <3>4
  <2> QED
    BY <1>4, <2>1, <2>2, <2>3, <2>4, <2>5, <2>6 DEF Send
<1>5. CASE ClientMain
  <2>1. CASE StartThreads
    BY <2>1 DEF StartThreads, BaseInv, ClientGoto, serverVars, Ports, FullTypes, TypeOK
  <2> QED
    BY <1>1, <1>5, <2>1
    DEF ClientMain, Connect, Retry, WriteRequest, ReadReady, JoinSink, Finalize, ClientGoto, serverVars
<1>6. ASSUME NEW r \in Receivers, ClientUp, Receive(r) PROVE ConnInv'
  <2> USE DEF FullTypes, TypeOK, ReceiverGoto, Ports, serverVars
  <2>1. CASE ConnectReceiver(r)
    <3>1. CASE base.st = "reset"
      BY <2>1, <3>1 DEF ConnectReceiver, ClientGoto
    <3>2. CASE base.st # "reset" /\ Listening(r)
      <4>1. /\ receiver' = [receiver EXCEPT ![r] = "hello"] /\ cli' = cli
            /\ conn' = [conn EXCEPT ![r].st = "open"] /\ receiver[r] = "connect"
            /\ sender' = sender /\ srv' = srv
        BY <2>1, <3>2 DEF ConnectReceiver
      <4>2. /\ \A p \in Ports : conn'[p].data = conn[p].data /\ conn'[p].unread = conn[p].unread
            /\ \A p \in Ports : p # r => conn'[p].st = conn[p].st
            /\ conn'[r].st = "open" /\ conn[r].st = "none"
        BY <4>1
      <4> QED
        BY <1>6, <4>1, <4>2
    <3>3. CASE base.st # "reset" /\ ~Listening(r)
      <4>1. /\ receiver' = [receiver EXCEPT ![r] = "refused"] /\ cli' = cli /\ conn' = conn
            /\ sender' = sender /\ srv' = srv /\ receiver[r] = "connect"
        BY <2>1, <3>3 DEF ConnectReceiver
      <4> QED
        BY <4>1
    <3> QED
      BY <3>1, <3>2, <3>3
  <2>2. CASE WriteId(r)
    BY <1>6, <2>2 DEF WriteId
  <2>3. CASE ReadBuffer(r)
    BY <1>6, <2>3 DEF ReadBuffer
  <2>4. CASE ReadFails(r)
    BY <1>6, <2>4 DEF ReadFails
  <2>5. CASE CountReceiver(r)
    BY <1>6, <2>5 DEF CountReceiver
  <2> QED
    BY <1>6, <2>1, <2>2, <2>3, <2>4, <2>5 DEF Receive
<1>7. CASE KillServer
  BY <1>7, <1>2 DEF KillServer
<1>8. CASE KillClient
  BY <1>8, <1>1 DEF KillClient, ClientGoto, serverVars
<1>9. ASSUME NEW side, Monitor(side) PROVE ConnInv'
  BY <1>9, <1>1 DEF Monitor, serverVars, clientVars
<1>10. CASE UNCHANGED vars
  BY <1>10, <1>1 DEF vars, serverVars, clientVars
<1> QED
  BY <1>3, <1>4, <1>5, <1>6, <1>7, <1>8, <1>9, <1>10 DEF Next, ServerStep, ClientStep

-----------------------------------------------------------------------------
\* The receive threads that have ended are a finite set of at most all of them.
LEMMA CountedBounds ==
  /\ IsFiniteSet(Counted) /\ Cardinality(Counted) \in 0..RcvParallelism
  /\ Cardinality(Counted) = RcvParallelism => Counted = Receivers
<1>1. IsFiniteSet(Receivers) /\ Cardinality(Receivers) = RcvParallelism
  BY SessionAssumption, FS_Interval DEF Receivers
<1>2. Counted \subseteq Receivers
  BY DEF Counted
<1> QED
  BY <1>1, <1>2, SessionAssumption, FS_Subset, FS_CardinalityType

\* fetch_add of finishedRcvThreads counts the thread that ends.
LEMMA CountStep == SessionInv /\ [Next]_vars => CountInv'
<1> SUFFICES ASSUME SessionInv, [Next]_vars PROVE CountInv'
  OBVIOUS
<1> USE DEF SessionInv, CountInv
<1>1. CASE Counted' = Counted /\ finished' = finished
           /\ (cli' \in {"finalize", "done"} => \A r \in Receivers : receiver'[r] = "ended")
  BY <1>1
<1>2. CASE UNCHANGED <<finished, receiver>> /\ (cli' \in {"finalize", "done"} => cli \in {"finalize", "done"})
  BY <1>2, <1>1 DEF Counted
<1>3. CASE JoinSink
  <2>1. finished = RcvParallelism /\ finished' = finished /\ receiver' = receiver
    BY <1>3 DEF JoinSink
  <2>2. Counted = Receivers /\ Counted' = Counted
    BY <2>1, CountedBounds DEF Counted
  <2> QED
    BY <2>1, <2>2, <1>1 DEF Counted
<1>4. CASE StartThreads
  <2>1. /\ cli = "start" /\ cli' = "joinSink" /\ finished' = finished
        /\ receiver' = [r \in Receivers |-> "connect"]
    BY <1>4 DEF StartThreads, ClientGoto
  <2>2. Counted' = {} /\ Counted = {}
    BY <2>1 DEF Counted, BaseInv
  <2> QED
    BY <2>1, <2>2, <1>1
<1>5. ASSUME NEW r \in Receivers, Receive(r) PROVE CountInv'
  <2> USE DEF ReceiverGoto, FullTypes, TypeOK
  <2>1. CASE ConnectReceiver(r)
    <3>1. receiver[r] = "connect" /\ finished' = finished /\ cli' \in {cli, "aborted"}
          /\ \A q \in Receivers : receiver'[q] = "ended" <=> receiver[q] = "ended"
      BY <2>1 DEF ConnectReceiver, ClientGoto
    <3>2. Counted' = Counted
      BY <3>1 DEF Counted
    <3> QED
      BY <3>1, <3>2, <1>1
  <2>2. CASE WriteId(r)
    <3>1. receiver[r] = "hello" /\ finished' = finished /\ cli' = cli
          /\ \A q \in Receivers : receiver'[q] = "ended" <=> receiver[q] = "ended"
      BY <2>2 DEF WriteId
    <3>2. Counted' = Counted
      BY <3>1 DEF Counted
    <3> QED
      BY <3>1, <3>2, <1>1
  <2>3. CASE ReadBuffer(r)
    BY <2>3, <1>2 DEF ReadBuffer
  <2>4. CASE ReadFails(r)
    <3>1. receiver[r] = "loop" /\ finished' = finished /\ cli' = cli
          /\ \A q \in Receivers : receiver'[q] = "ended" <=> receiver[q] = "ended"
      BY <2>4 DEF ReadFails
    <3>2. Counted' = Counted
      BY <3>1 DEF Counted
    <3> QED
      BY <3>1, <3>2, <1>1
  <2>5. CASE CountReceiver(r)
    <3>1. /\ receiver[r] = "count" /\ finished' = finished + 1 /\ cli' = cli
          /\ receiver' = [receiver EXCEPT ![r] = "ended"]
      BY <2>5 DEF CountReceiver
    <3>2. Counted' = Counted \cup {r} /\ r \notin Counted
      BY <3>1 DEF Counted
    <3>3. Cardinality(Counted \cup {r}) = Cardinality(Counted) + 1
      BY <3>2, CountedBounds, FS_AddElement
    <3> QED
      BY <3>1, <3>2, <3>3
  <2> QED
    BY <1>5, <2>1, <2>2, <2>3, <2>4, <2>5 DEF Receive
<1>6. CASE ServerStep \/ KillServer \/ KillClient \/ Monitor("client") \/ UNCHANGED vars
  BY <1>6, <1>2
  DEF ServerStep, Serve, StartServer, AcceptBase, ReadRequest, Prepare, WaitReady, SignalReady, JoinComp,
      JoinNet, JoinMonitor, ServerDies, Send, Bind, PushReady, Accept, SendBuffer, SendFails, CloseSender,
      Monitor, KillServer, KillClient, ClientGoto, clientVars, vars
<1>7. CASE Connect \/ Retry \/ WriteRequest("writeName", "writeSchema") \/ WriteRequest("writeSchema", "readReady")
           \/ ReadReady \/ Finalize
  BY <1>7, <1>2 DEF Connect, Retry, WriteRequest, ReadReady, Finalize, ClientGoto
<1> QED
  BY <1>3, <1>4, <1>5, <1>6, <1>7 DEF Next, ClientStep, ClientMain

\* A receive thread is refused only by a server that has died or has no send
\* thread for it: when it connects, the barrier has seen all send threads listen,
\* and a send thread ends only after its connection exists.
LEMMA FindStep == SessionInv /\ [Next]_vars => ReceiversFindSenders'
<1> SUFFICES ASSUME SessionInv, [Next]_vars, NEW r \in DOMAIN receiver', receiver'[r] = "refused"
             PROVE  r \notin DOMAIN sender' \/ srv' = "crashed"
  BY DEF ReceiversFindSenders
<1> USE DEF SessionInv
<1>1. /\ DOMAIN receiver' = Receivers /\ DOMAIN sender' = Senders
      /\ DOMAIN receiver = Receivers /\ DOMAIN sender = Senders /\ (srv = "crashed" => srv' = "crashed")
  <2>1. DOMAIN receiver = Receivers /\ DOMAIN sender = Senders
    BY DEF FullTypes, TypeOK
  <2>2. DOMAIN sender' = Senders /\ (srv = "crashed" => srv' = "crashed")
    BY <2>1
    DEF Next, ServerStep, Serve, StartServer, AcceptBase, ReadRequest, Prepare, WaitReady, SignalReady,
        JoinComp, JoinNet, JoinMonitor, ServerDies, Send, Bind, PushReady, Accept, SendBuffer, SendFails,
        CloseSender, Monitor, KillServer, KillClient, SenderGoto, vars, serverVars, ClientStep, ClientMain,
        Connect, Retry, WriteRequest, ReadReady, StartThreads, JoinSink, Finalize, Receive, ConnectReceiver,
        WriteId, ReadBuffer, ReadFails, CountReceiver
  <2>3. DOMAIN receiver' = Receivers
    BY <2>1
    DEF Next, ServerStep, Serve, StartServer, AcceptBase, ReadRequest, Prepare, WaitReady, SignalReady,
        JoinComp, JoinNet, JoinMonitor, ServerDies, Send, Bind, PushReady, Accept, SendBuffer, SendFails,
        CloseSender, Monitor, KillServer, KillClient, ReceiverGoto, vars, clientVars, ClientStep, ClientMain,
        Connect, Retry, WriteRequest, ReadReady, StartThreads, JoinSink, Finalize, Receive, ConnectReceiver,
        WriteId, ReadBuffer, ReadFails, CountReceiver
  <2> QED
    BY <2>1, <2>2, <2>3
<1>2. CASE receiver[r] = "refused"
  BY <1>1, <1>2 DEF ReceiversFindSenders
<1>3. CASE receiver[r] # "refused"
  <2>1. ClientUp /\ ConnectReceiver(r) /\ base.st # "reset" /\ ~Listening(r)
    BY <1>1, <1>3
    DEF Next, ServerStep, Serve, StartServer, AcceptBase, ReadRequest, Prepare, WaitReady, SignalReady,
        JoinComp, JoinNet, JoinMonitor, ServerDies, Send, Bind, PushReady, Accept, SendBuffer, SendFails,
        CloseSender, Monitor, KillServer, KillClient, ReceiverGoto, vars, clientVars, ClientStep, ClientMain,
        Connect, Retry, WriteRequest, ReadReady, StartThreads, JoinSink, Finalize, Receive, ConnectReceiver,
        WriteId, ReadBuffer, ReadFails, CountReceiver, FullTypes, TypeOK
  <2>2. receiver[r] = "connect" /\ r \in Receivers /\ srv' = srv /\ sender' = sender
    BY <1>1, <2>1 DEF ConnectReceiver, serverVars
  <2>3. cli \in {"joinSink", "finalize"}
    BY <2>1, <2>2 DEF BaseInv, ClientUp, FullTypes, ClientStates
  <2>4. srv \in {"joinComp", "joinNet", "joinMonitor", "done", "crashed"}
    BY <2>3 DEF BaseInv
  <2>5. r \in Senders => (Told(r) /\ sender[r] # "ended") \/ srv = "crashed"
    BY <2>2, <2>4 DEF BarrierInv, ConnInv, Unconnected, Greeted, Told, Ports
  <2>6. CASE srv = "done"
    BY <2>5, <2>6, <2>2, <1>1 DEF BarrierInv
  <2> QED
    BY <1>1, <2>1, <2>2, <2>4, <2>5, <2>6 DEF Listening, ServerUp, Told
<1> QED
  BY <1>2, <1>3

-----------------------------------------------------------------------------
\* A field of the base connection is assigned.
LEMMA BaseUpdate ==
  ASSUME NEW b \in BaseType, NEW st \in ConnStates, NEW c2s \in Seq({"writeName", "writeSchema"}),
         NEW s2c \in Seq({"ready"})
  PROVE  /\ [b EXCEPT !.st = st] \in BaseType
         /\ [b EXCEPT !.c2s = c2s] \in BaseType
         /\ [b EXCEPT !.s2c = s2c] \in BaseType
BY DEF BaseType

\* A field of the connection of one port is assigned.
LEMMA ConnUpdate ==
  ASSUME NEW f \in [Ports -> ConnType], NEW p \in Ports, NEW st \in ConnStates,
         NEW unread \in BOOLEAN, NEW data \in Seq(Ids)
  PROVE  /\ [f EXCEPT ![p].st = st] \in [Ports -> ConnType]
         /\ [f EXCEPT ![p].unread = unread] \in [Ports -> ConnType]
         /\ [f EXCEPT ![p].data = data] \in [Ports -> ConnType]
BY DEF ConnType

\* Every step keeps the types; the counter stays within bounds because it counts.
LEMMA TypesStep == SessionInv /\ [Next]_vars => FullTypes'
<1> SUFFICES ASSUME SessionInv, [Next]_vars PROVE FullTypes'
  OBVIOUS
<1> USE DEF FullTypes, TypeOK
<1>t. FullTypes
  BY DEF SessionInv
<1>1. CASE UNCHANGED vars
  BY <1>t, <1>1 DEF vars, serverVars, clientVars
<1>2. ASSUME NEW how \in {"eof", "reset"}, ServerDies(how) PROVE FullTypes'
  <2>1. base' \in BaseType
    <3>1. base.st \in ConnStates /\ how \in ConnStates
      BY <1>t DEF BaseType, ConnStates
    <3> QED
      BY <1>t, <1>2, <3>1, BaseUpdate DEF ServerDies, BaseType
  <2>2. conn' \in [Ports -> ConnType]
    <3>1. \A p \in Ports : [conn[p] EXCEPT !.st = "reset"] \in ConnType
      BY <1>t DEF ConnType, ConnStates
    <3> QED
      BY <1>t, <1>2, <3>1 DEF ServerDies
  <2> QED
    BY <1>t, <1>2, <2>1, <2>2 DEF ServerDies, ServerStates, clientVars
<1>3. CASE StartServer \/ AcceptBase \/ JoinComp \/ JoinNet
  BY <1>t, <1>3 DEF StartServer, AcceptBase, JoinComp, JoinNet, Goto, ServerStates, clientVars
<1>4. ASSUME NEW from, NEW to \in ServerStates, ReadRequest(from, to) PROVE FullTypes'
  <2>1. CASE base.c2s # <<>>
    <3>1. Tail(base.c2s) \in Seq({"writeName", "writeSchema"})
      BY <1>t, <2>1, TailElements DEF BaseType
    <3>2. base' \in BaseType
      BY <1>t, <1>4, <2>1, <3>1, BaseUpdate DEF ReadRequest, BaseType
    <3> QED
      BY <1>t, <1>4, <2>1, <3>2 DEF ReadRequest, Goto, clientVars
  <2> QED
    BY <1>4, <1>2, <2>1 DEF ReadRequest
<1>6. CASE Prepare
  <2>1. CASE Servable
    <3>1. /\ srv' = "barrier" /\ sender' = [s \in Senders |-> "bind"]
          /\ sendQ' = [i \in 1..(BuffersToSend + NetworkParallelism) |->
                         IF i <= BuffersToSend THEN i ELSE Sentinel]
          /\ UNCHANGED <<barrier, clientVars, base, conn>>
      BY <1>6, <2>1 DEF Prepare, Goto
    <3>2. sendQ' \in Seq(Ids \cup {Sentinel})
      BY <3>1, SessionAssumption DEF Ids
    <3> QED
      BY <1>t, <3>1, <3>2 DEF ServerStates, clientVars
  <2> QED
    BY <1>6, <1>2, <2>1 DEF Prepare
<1>7. CASE WaitReady
  <2>1. barrier.acc \in 0..NetworkParallelism /\ barrier.acc < NetworkParallelism /\ barrier.q \in Senders
    BY <1>t, <1>7 DEF WaitReady, BarrierInv, SessionInv
  <2>2. (barrier.q % NetworkParallelism) + 1 \in Senders
    BY <2>1, NextReadyQueue, SessionAssumption DEF Senders
  <2>3. [barrier.ready EXCEPT ![barrier.q] = @ - 1] \in [Senders -> {0, 1}]
    BY <1>t, <1>7, <2>1 DEF WaitReady
  <2>4. barrier.acc + 1 \in 0..NetworkParallelism
    BY <2>1, SessionAssumption
  <2>5. barrier' \in [ready : [Senders -> {0, 1}], acc : 0..NetworkParallelism, q : Senders]
    BY <1>7, <2>2, <2>3, <2>4 DEF WaitReady
  <2> QED
    BY <1>t, <1>7, <2>5 DEF WaitReady, Goto, ServerStates, clientVars
<1>8. CASE SignalReady
  <2>1. Append(base.s2c, "ready") \in Seq({"ready"})
    BY <1>t DEF BaseType
  <2>2. base' \in BaseType
    BY <1>t, <1>8, <2>1, BaseUpdate DEF SignalReady, BaseType
  <2> QED
    BY <1>t, <1>8, <2>2 DEF SignalReady, Goto, ServerStates, clientVars
<1>9. CASE JoinMonitor
  <2>1. base' \in BaseType
    BY <1>t, <1>9 DEF JoinMonitor, BaseType, ConnStates
  <2> QED
    BY <1>t, <1>9, <2>1 DEF JoinMonitor, Goto, ServerStates, clientVars
<1>10. ASSUME NEW s \in Senders, Send(s) PROVE FullTypes'
  <2> USE DEF SenderGoto, clientVars
  <2>p. s \in Ports /\ conn[s] \in ConnType
    BY <1>t DEF Ports
  <2>1. CASE Bind(s)
    BY <1>t, <2>1 DEF Bind
  <2>2. CASE PushReady(s)
    <3>1. barrier.ready[s] = 0
      BY <1>t, <2>2 DEF PushReady, BarrierInv, Told, SessionInv
    <3>2. barrier' \in [ready : [Senders -> {0, 1}], acc : 0..NetworkParallelism, q : Senders]
      BY <1>t, <2>2, <3>1 DEF PushReady
    <3> QED
      BY <1>t, <2>2, <3>2 DEF PushReady
  <2>3. CASE Accept(s)
    <3>1. conn' \in [Ports -> ConnType]
      BY <1>t, <2>3, <2>p DEF Accept, ConnType
    <3> QED
      BY <1>t, <2>3, <3>1 DEF Accept
  <2>4. CASE SendBuffer(s)
    <3>1. Tail(sendQ) \in Seq(Ids \cup {Sentinel}) /\ Head(sendQ) \in Ids \cup {Sentinel}
      BY <1>t, <2>4, TailElements DEF SendBuffer
    <3>2. CASE Head(sendQ) = Sentinel
      BY <1>t, <2>4, <3>1, <3>2 DEF SendBuffer
    <3>3. CASE Head(sendQ) # Sentinel
      <4>1. Append(conn[s].data, Head(sendQ)) \in Seq(Ids)
        BY <2>p, <3>1, <3>3, AppendElements DEF ConnType
      <4>2. conn' \in [Ports -> ConnType]
        <5>1. conn' = [conn EXCEPT ![s].data = Append(conn[s].data, Head(sendQ))]
          BY <1>t, <2>4, <2>p, <3>3 DEF SendBuffer
        <5> QED
          BY <1>t, <2>p, <4>1, <5>1 DEF ConnType
      <4> QED
        BY <1>t, <2>4, <3>1, <3>3, <4>2 DEF SendBuffer
    <3> QED
      BY <3>2, <3>3
  <2>5. CASE SendFails(s)
    BY <1>t, <2>5, TailElements DEF SendFails
  <2>6. CASE CloseSender(s)
    <3>1. conn' \in [Ports -> ConnType]
      BY <1>t, <2>6, <2>p DEF CloseSender, ConnType, ConnStates
    <3> QED
      BY <1>t, <2>6, <3>1 DEF CloseSender
  <2> QED
    BY <1>10, <2>1, <2>2, <2>3, <2>4, <2>5, <2>6 DEF Send
<1>11. CASE Connect
  <2>1. base' \in BaseType
    BY <1>t, <1>11 DEF Connect, BaseType, ConnStates
  <2>2. cli' \in ClientStates
    BY <1>t, <1>11 DEF Connect, ClientGoto, ClientStates
  <2> QED
    BY <1>t, <1>11, <2>1, <2>2 DEF Connect, serverVars
<1>111. CASE Retry
  <2>1. tries' \in 0..MaxTries /\ cli' \in ClientStates
    BY <1>t, <1>111 DEF Retry, ClientGoto, ClientStates, MaxTries
  <2> QED
    BY <1>t, <1>111, <2>1 DEF Retry, serverVars
<1>12. ASSUME NEW from \in {"writeName", "writeSchema"}, NEW to \in ClientStates, WriteRequest(from, to)
       PROVE  FullTypes'
  <2>1. Append(base.c2s, from) \in Seq({"writeName", "writeSchema"})
    BY <1>t, <1>12 DEF BaseType
  <2>2. base' \in BaseType
    BY <1>t, <1>12, <2>1, BaseUpdate DEF WriteRequest, BaseType
  <2> QED
    BY <1>t, <1>12, <2>2 DEF WriteRequest, ClientGoto, serverVars
<1>14. CASE ReadReady \/ StartThreads \/ JoinSink \/ Finalize \/ KillClient
  BY <1>t, <1>14
  DEF ReadReady, StartThreads, JoinSink, Finalize, KillClient, ClientGoto, serverVars, ClientStates
<1>15. ASSUME NEW r \in Receivers, Receive(r) PROVE FullTypes'
  <2> USE DEF ReceiverGoto, serverVars
  <2>p. r \in Ports /\ conn[r] \in ConnType
    BY <1>t DEF Ports
  <2>1. CASE ConnectReceiver(r)
    <3>1. [conn EXCEPT ![r].st = "open"] \in [Ports -> ConnType]
      BY <1>t, <2>p DEF ConnType, ConnStates
    <3>2. conn' \in [Ports -> ConnType] /\ cli' \in ClientStates
      BY <1>t, <2>1, <3>1 DEF ConnectReceiver, ClientGoto, ClientStates
    <3> QED
      BY <1>t, <2>1, <3>2 DEF ConnectReceiver
  <2>2. CASE WriteId(r)
    <3>1. conn' \in [Ports -> ConnType]
      BY <1>t, <2>2, <2>p DEF WriteId, ConnType
    <3> QED
      BY <1>t, <2>2, <3>1 DEF WriteId
  <2>3. CASE ReadBuffer(r)
    <3>1. Tail(conn[r].data) \in Seq(Ids) /\ Head(conn[r].data) \in Ids
      BY <2>3, <2>p, TailElements DEF ReadBuffer, ConnType
    <3>2. conn' \in [Ports -> ConnType]
      BY <1>t, <2>3, <2>p, <3>1, ConnUpdate DEF ReadBuffer, ConnType
    <3>3. received' \in [1..BuffersToSend -> Nat]
      BY <1>t, <2>3, <3>1 DEF ReadBuffer, Ids
    <3> QED
      BY <1>t, <2>3, <3>2, <3>3 DEF ReadBuffer
  <2>4. CASE ReadFails(r)
    BY <1>t, <2>4 DEF ReadFails
  <2>5. CASE CountReceiver(r)
    <3>1. finished' \in 0..RcvParallelism
      <4>1. finished' = Cardinality(Counted')
        BY CountStep DEF CountInv
      <4>2. receiver' = [receiver EXCEPT ![r] = "ended"] /\ Counted' = {q \in Receivers : receiver'[q] = "ended"}
        BY <2>5 DEF CountReceiver, Counted
      <4>3. IsFiniteSet(Receivers) /\ Cardinality(Receivers) = RcvParallelism /\ Counted' \subseteq Receivers
        BY <4>2, FS_Interval, SessionAssumption DEF Receivers
      <4> QED
        BY <4>1, <4>3, FS_Subset, FS_CardinalityType
    <3> QED
      BY <1>t, <2>5, <3>1 DEF CountReceiver
  <2> QED
    BY <1>15, <2>1, <2>2, <2>3, <2>4, <2>5 DEF Receive
<1>16. ASSUME NEW side, Monitor(side) PROVE FullTypes'
  BY <1>t, <1>16 DEF Monitor, serverVars, clientVars
<1>17. CASE KillServer
  BY <1>17, <1>2 DEF KillServer
<1>18. /\ "readSchema" \in ServerStates /\ "prepare" \in ServerStates
       /\ "writeSchema" \in ClientStates /\ "readReady" \in ClientStates
  BY DEF ServerStates, ClientStates
<1> QED
  BY <1>1, <1>3, <1>4, <1>6, <1>7, <1>8, <1>9, <1>10, <1>11, <1>111, <1>12, <1>14, <1>15,
     <1>16, <1>17, <1>18 DEF Next, ServerStep, Serve, ClientStep, ClientMain

-----------------------------------------------------------------------------
\* A step by which a buffer moves.
Moving ==
  \/ Prepare /\ Servable
  \/ \E s \in Senders : SendBuffer(s) \/ SendFails(s)
  \/ \E r \in Receivers : ReadBuffer(r)

\* No other step moves a buffer, and none restarts a process or a send thread.
LEMMA QuietStep ==
  ASSUME SessionInv, [Next]_vars, ~Moving
  PROVE  /\ sendQ' = sendQ /\ received' = received
         /\ \A p \in Ports : conn'[p].data = conn[p].data
         /\ \A s \in Senders : sender'[s] \in {"close", "ended"} => sender[s] \in {"close", "ended"}
         /\ cli = "killed" => cli' = "killed"
         /\ ~Preparing' /\ srv' # "crashed" => ~Preparing /\ srv # "crashed"
         /\ Preparing' => Preparing
<1> DEFINE Quiet == /\ sendQ' = sendQ /\ received' = received
                    /\ \A p \in Ports : conn'[p].data = conn[p].data
                    /\ \A s \in Senders : sender'[s] \in {"close", "ended"} => sender[s] \in {"close", "ended"}
                    /\ cli = "killed" => cli' = "killed"
                    /\ ~Preparing' /\ srv' # "crashed" => ~Preparing /\ srv # "crashed"
                    /\ Preparing' => Preparing
<1> SUFFICES Quiet
  OBVIOUS
<1>t. FullTypes
  BY DEF SessionInv
<1>1. CASE UNCHANGED <<sendQ, received, conn, sender, cli, srv>>
  BY <1>1 DEF Preparing
<1>2. ASSUME NEW how, ServerDies(how) PROVE Quiet
  <2>1. \A p \in Ports : conn'[p].data = conn[p].data
    BY <1>t, <1>2 DEF ServerDies, FullTypes, ConnType
  <2> QED
    BY <1>2, <2>1 DEF ServerDies, clientVars, Preparing
<1>3. CASE Serve
  <2>1. CASE \E how : ServerDies(how)
    BY <2>1, <1>2
  <2>2. CASE ~\E how : ServerDies(how)
    <3>1. UNCHANGED <<sendQ, received, conn, sender, cli>>
      BY <1>3, <2>2
      DEF Serve, Moving, StartServer, AcceptBase, ReadRequest, Prepare, WaitReady, SignalReady, JoinComp,
          JoinNet, JoinMonitor, clientVars
    <3>2. CASE WaitReady \/ SignalReady \/ JoinComp \/ JoinNet \/ JoinMonitor
      BY <3>1, <3>2 DEF WaitReady, SignalReady, JoinComp, JoinNet, JoinMonitor, Goto, Preparing
    <3>3. CASE StartServer \/ AcceptBase \/ ReadRequest("readName", "readSchema")
               \/ ReadRequest("readSchema", "prepare")
      BY <2>2, <3>1, <3>3 DEF StartServer, AcceptBase, ReadRequest, Goto, Preparing
    <3>4. ~Prepare
      BY <2>2 DEF Prepare, Moving
    <3> QED
      BY <1>3, <3>2, <3>3, <3>4 DEF Serve
  <2> QED
    BY <2>1, <2>2
<1>4. ASSUME NEW s \in Senders, Send(s) PROVE Quiet
  <2>1. Bind(s) \/ PushReady(s) \/ Accept(s) \/ CloseSender(s)
    BY <1>4 DEF Send, Moving
  <2>2. UNCHANGED <<sendQ, received, cli, srv>>
    BY <2>1 DEF Bind, PushReady, Accept, CloseSender, clientVars
  <2>3. \A p \in Ports : conn'[p].data = conn[p].data
    BY <1>t, <2>1 DEF Bind, PushReady, Accept, CloseSender, FullTypes, ConnType
  <2>4. \A q \in Senders : sender'[q] \in {"close", "ended"} => sender[q] \in {"close", "ended"}
    BY <1>t, <2>1 DEF Bind, PushReady, Accept, CloseSender, SenderGoto, FullTypes, TypeOK
  <2> QED
    BY <2>2, <2>3, <2>4 DEF Preparing
<1>5. CASE ClientUp /\ (ClientMain \/ KillClient)
  BY <1>5 DEF ClientMain, Connect, Retry, WriteRequest, ReadReady, StartThreads, JoinSink, Finalize, KillClient,
              ClientUp, serverVars, Preparing
<1>6. ASSUME NEW r \in Receivers, ClientUp, Receive(r) PROVE Quiet
  <2>1. ConnectReceiver(r) \/ WriteId(r) \/ ReadFails(r) \/ CountReceiver(r)
    BY <1>6 DEF Receive, Moving
  <2>2. UNCHANGED <<serverVars, received>>
    BY <2>1 DEF ConnectReceiver, WriteId, ReadFails, CountReceiver
  <2>3. \A p \in Ports : conn'[p].data = conn[p].data
    <3>1. CASE conn' = conn
      BY <3>1
    <3>2. CASE conn' = [conn EXCEPT ![r].st = "open"]
      BY <1>t, <3>2 DEF FullTypes, ConnType
    <3>3. CASE conn' = [conn EXCEPT ![r].unread = TRUE]
      BY <1>t, <3>3 DEF FullTypes, ConnType
    <3> QED
      BY <2>1, <3>1, <3>2, <3>3 DEF ConnectReceiver, WriteId, ReadFails, CountReceiver
  <2> QED
    BY <1>6, <2>2, <2>3 DEF serverVars, ClientUp, Preparing
<1>7. ASSUME NEW side, Monitor(side) PROVE Quiet
  BY <1>7, <1>1 DEF Monitor, serverVars, clientVars
<1>8. CASE UNCHANGED vars
  BY <1>8, <1>1 DEF vars, serverVars, clientVars
<1>9. CASE KillServer
  BY <1>9, <1>2 DEF KillServer
<1> QED
  BY <1>3, <1>4, <1>5, <1>6, <1>7, <1>8, <1>9 DEF Next, ServerStep, ClientStep, KillClient

\* What sending a buffer does: the head of the queue goes to the connection.
LEMMA SendEffect ==
  ASSUME SessionInv, NEW s \in Senders, SendBuffer(s), Head(sendQ) # Sentinel
  PROVE  /\ Head(sendQ) \in Ids /\ InQueue(Head(sendQ)) /\ s \in Ports
         /\ received' = received /\ sender' = sender /\ cli' = cli /\ srv' = srv
         /\ \A p \in Ports : p # s => conn'[p].data = conn[p].data
         /\ conn'[s].data = Append(conn[s].data, Head(sendQ))
         /\ \A b : InQueue(b)' => InQueue(b) /\ (b # Head(sendQ))
         /\ \A b : InQueue(b) => InQueue(b)' \/ b = Head(sendQ)
         /\ \A b : InData(b)' <=> InData(b) \/ b = Head(sendQ)
<1>t. FullTypes /\ s \in Ports
  BY DEF SessionInv, Ports
<1>1. /\ sendQ # <<>> /\ sendQ' = Tail(sendQ) /\ UNCHANGED <<received, sender, cli, srv>>
      /\ conn' = [conn EXCEPT ![s].data = Append(@, Head(sendQ))]
  BY DEF SendBuffer, clientVars
<1>2. sendQ \in Seq(Ids \cup {Sentinel})
  BY <1>t DEF FullTypes
<1>3. /\ Len(sendQ') = Len(sendQ) - 1 /\ Len(sendQ) \in Nat /\ Len(sendQ) > 0
      /\ Head(sendQ) = sendQ[1] /\ Head(sendQ) \in Ids \cup {Sentinel}
      /\ \A i \in 1..Len(sendQ') : sendQ'[i] = sendQ[i+1] /\ i+1 \in 1..Len(sendQ)
  BY <1>1, <1>2, TailElements
<1>4. Head(sendQ) \in Ids /\ InQueue(Head(sendQ))
  BY <1>3 DEF InQueue
<1>5. \A b : InQueue(b)' => InQueue(b) /\ (b # Head(sendQ))
  <2> SUFFICES ASSUME NEW i \in 1..Len(sendQ')
               PROVE  InQueue(sendQ'[i]) /\ sendQ'[i] # Head(sendQ)
    BY DEF InQueue
  <2>1. sendQ'[i] = sendQ[i+1] /\ i+1 \in 1..Len(sendQ) /\ 1 < i+1 /\ 1 \in 1..Len(sendQ)
    BY <1>3
  <2> QED
    BY <1>3, <2>1 DEF SessionInv, OnceInv, QueueOrdered, InQueue
<1>6. \A b : InQueue(b) => InQueue(b)' \/ b = Head(sendQ)
  <2> SUFFICES ASSUME NEW i \in 1..Len(sendQ), i # 1
               PROVE  \E j \in 1..Len(sendQ') : sendQ'[j] = sendQ[i]
    BY <1>3 DEF InQueue
  <2>1. i - 1 \in 1..Len(sendQ') /\ (i-1) + 1 = i
    BY <1>3
  <2> QED
    BY <1>3, <2>1
<1>7. /\ \A p \in Ports : p # s => conn'[p].data = conn[p].data
      /\ conn'[s].data = Append(conn[s].data, Head(sendQ))
  BY <1>t, <1>1 DEF FullTypes, ConnType
<1>8. conn[s].data \in Seq(Ids)
  BY <1>t DEF FullTypes, ConnType
<1>9. /\ Len(conn'[s].data) = Len(conn[s].data) + 1 /\ Len(conn[s].data) \in Nat
      /\ \A i \in 1..Len(conn'[s].data) :
           conn'[s].data[i] = IF i = Len(conn[s].data) + 1 THEN Head(sendQ) ELSE conn[s].data[i]
  BY <1>4, <1>7, <1>8, AppendElements
<1>10. \A b : InData(b)' => InData(b) \/ b = Head(sendQ)
  <2> SUFFICES ASSUME NEW p \in Ports, NEW i \in 1..Len(conn'[p].data), conn'[p].data[i] # Head(sendQ)
               PROVE  InData(conn'[p].data[i])
    BY DEF InData
  <2>1. CASE p = s
    BY <1>9, <2>1 DEF InData
  <2>2. CASE p # s
    BY <1>7, <2>2 DEF InData
  <2> QED
    BY <2>1, <2>2
<1>11. \A b : InData(b) => InData(b)'
  <2> SUFFICES ASSUME NEW p \in Ports, NEW i \in 1..Len(conn[p].data)
               PROVE  \E q \in Ports : \E j \in 1..Len(conn'[q].data) : conn'[q].data[j] = conn[p].data[i]
    BY DEF InData
  <2>1. i \in 1..Len(conn'[p].data) /\ conn'[p].data[i] = conn[p].data[i]
    <3>1. CASE p = s
      BY <1>9, <3>1
    <3>2. CASE p # s
      BY <1>7, <3>2
    <3> QED
      BY <3>1, <3>2
  <2> QED
    BY <2>1
<1>12. \A b : b = Head(sendQ) => InData(b)'
  <2>1. Len(conn[s].data) + 1 \in 1..Len(conn'[s].data)
    BY <1>9
  <2>2. conn'[s].data[Len(conn[s].data) + 1] = Head(sendQ)
    BY <1>9, <2>1
  <2>3. \E p \in Ports : \E i \in 1..Len(conn'[p].data) : conn'[p].data[i] = Head(sendQ)
    BY <1>t, <2>1, <2>2
  <2> QED
    BY <2>3 DEF InData
<1> QED
  BY <1>t, <1>1, <1>4, <1>5, <1>6, <1>7, <1>10, <1>11, <1>12

\* What receiving a buffer does: the head of the connection's data is counted.
LEMMA ReadEffect ==
  ASSUME SessionInv, NEW r \in Receivers, ReadBuffer(r)
  PROVE  LET x == Head(conn[r].data)
         IN  /\ x \in Ids /\ InData(x) /\ r \in Ports /\ conn[r].data \in Seq(Ids) /\ conn[r].data # <<>>
             /\ received' = [received EXCEPT ![x] = @ + 1]
             /\ UNCHANGED <<sendQ, sender, cli, srv>>
             /\ \A p \in Ports : p # r => conn'[p].data = conn[p].data
             /\ conn'[r].data = Tail(conn[r].data)
             /\ \A b : InData(b)' => InData(b) /\ b # x
             /\ \A b : InData(b) => InData(b)' \/ b = x
<1> DEFINE x == Head(conn[r].data)
<1>t. FullTypes /\ r \in Ports
  BY DEF SessionInv, Ports
<1>1. /\ conn[r].data # <<>> /\ UNCHANGED <<sendQ, sender, cli, srv>>
      /\ received' = [received EXCEPT ![x] = @ + 1]
      /\ conn' = [conn EXCEPT ![r].data = Tail(@)]
  BY DEF ReadBuffer, serverVars
<1>2. conn[r].data \in Seq(Ids)
  BY <1>t DEF FullTypes, ConnType
<1>3. /\ \A p \in Ports : p # r => conn'[p].data = conn[p].data
      /\ conn'[r].data = Tail(conn[r].data)
  BY <1>t, <1>1 DEF FullTypes, ConnType
<1>4. /\ Len(conn'[r].data) = Len(conn[r].data) - 1 /\ Len(conn[r].data) \in Nat /\ Len(conn[r].data) > 0
      /\ x = conn[r].data[1] /\ x \in Ids
      /\ \A i \in 1..Len(conn'[r].data) : conn'[r].data[i] = conn[r].data[i+1] /\ i+1 \in 1..Len(conn[r].data)
  <2> DEFINE d == conn[r].data
  <2>1. d \in Seq(Ids) /\ d # <<>> /\ conn'[r].data = Tail(d) /\ x = Head(d)
    BY <1>1, <1>2, <1>3
  <2> HIDE DEF d, x
  <2>2. /\ Len(Tail(d)) = Len(d) - 1 /\ Len(d) \in Nat /\ Len(d) > 0 /\ Head(d) = d[1] /\ Head(d) \in Ids
        /\ \A i \in 1..Len(Tail(d)) : Tail(d)[i] = d[i+1] /\ i+1 \in 1..Len(d)
    BY <2>1, TailElements
  <2> QED
    BY <2>1, <2>2 DEF d
<1>5. InData(x)
  <2>1. 1 \in 1..Len(conn[r].data)
    BY <1>4
  <2> QED
    BY <1>t, <1>4, <2>1 DEF InData
<1> HIDE DEF x
<1>6. \A b : InData(b)' => InData(b) /\ b # x
  <2> SUFFICES ASSUME NEW p \in Ports, NEW i \in 1..Len(conn'[p].data)
               PROVE  InData(conn'[p].data[i]) /\ conn'[p].data[i] # x
    BY DEF InData
  <2>1. 1 \in 1..Len(conn[r].data)
    BY <1>4
  <2>2. CASE p = r
    <3>1. conn'[p].data[i] = conn[r].data[i+1] /\ i+1 \in 1..Len(conn[r].data) /\ i+1 # 1
      BY <1>4, <2>2
    <3>2. conn[r].data[i+1] # conn[r].data[1]
      BY <1>t, <2>1, <3>1 DEF SessionInv, OnceInv, DataDistinct
    <3> QED
      BY <1>t, <1>4, <3>1, <3>2 DEF InData
  <2>3. CASE p # r
    <3>1. conn'[p].data = conn[p].data
      BY <1>3, <2>3
    <3>2. conn[p].data[i] # conn[r].data[1]
      BY <1>t, <2>1, <2>3, <3>1 DEF SessionInv, OnceInv, DataDistinct
    <3> QED
      BY <1>4, <3>1, <3>2 DEF InData
  <2> QED
    BY <2>2, <2>3
<1>7. \A b : InData(b) => InData(b)' \/ b = x
  <2> SUFFICES ASSUME NEW p \in Ports, NEW i \in 1..Len(conn[p].data), conn[p].data[i] # x
               PROVE  \E q \in Ports : \E j \in 1..Len(conn'[q].data) : conn'[q].data[j] = conn[p].data[i]
    BY DEF InData
  <2>1. CASE p = r
    <3>1. i # 1
      BY <1>4, <2>1
    <3>2. i - 1 \in 1..Len(conn'[r].data) /\ (i - 1) + 1 = i
      BY <1>4, <2>1, <3>1
    <3>3. conn'[r].data[i - 1] = conn[r].data[i]
      BY <1>4, <3>2
    <3> QED
      BY <1>t, <2>1, <3>2, <3>3
  <2>2. CASE p # r
    BY <1>3, <2>2
  <2> QED
    BY <2>1, <2>2
<1> QED
  BY <1>t, <1>1, <1>2, <1>3, <1>4, <1>5, <1>6, <1>7 DEF x

\* The queue as Prepare fills it: every buffer once, then the sentinels.
LEMMA FilledQueue ==
  ASSUME SessionInv, Prepare, Servable
  PROVE  /\ Len(sendQ') = BuffersToSend + NetworkParallelism /\ Len(sendQ') \in Nat
         /\ \A i \in 1..Len(sendQ') : sendQ'[i] = IF i <= BuffersToSend THEN i ELSE Sentinel
         /\ \A b \in Ids : InQueue(b)'
         /\ UNCHANGED <<conn, received, cli>> /\ srv' = "barrier"
         /\ sender' = [s \in Senders |-> "bind"]
<1>1. /\ sendQ' = [i \in 1..(BuffersToSend + NetworkParallelism) |-> IF i <= BuffersToSend THEN i ELSE Sentinel]
      /\ UNCHANGED <<conn, received, cli>> /\ srv' = "barrier"
      /\ sender' = [s \in Senders |-> "bind"]
  BY DEF Prepare, Goto, clientVars
<1>2. Len(sendQ') = BuffersToSend + NetworkParallelism /\ Len(sendQ') \in Nat
  BY <1>1, SessionAssumption
<1>3. \A i \in 1..Len(sendQ') : sendQ'[i] = IF i <= BuffersToSend THEN i ELSE Sentinel
  BY <1>1, <1>2
<1>4. \A b \in Ids : b \in 1..Len(sendQ') /\ sendQ'[b] = b
  BY <1>2, <1>3, SessionAssumption DEF Ids
<1> QED
  BY <1>1, <1>2, <1>3, <1>4 DEF InQueue

\* Before the threads are started nothing has been sent.
LEMMA NothingSent ==
  ASSUME SessionInv, Preparing
  PROVE  \A b : ~InData(b)
<1>1. \A p \in Ports : conn[p].data = <<>>
  BY DEF SessionInv, BaseInv, ConnInv, Unconnected
<1> QED
  BY <1>1 DEF InData

\* Every step keeps every buffer in at most one place.
LEMMA OnceStep == SessionInv /\ [Next]_vars => OnceInv'
<1> SUFFICES ASSUME SessionInv, [Next]_vars PROVE OnceInv'
  OBVIOUS
<1>t. FullTypes /\ OnceInv /\ Sentinel \notin Ids
  BY DEF SessionInv, Sentinel, Ids
<1>1. CASE ~Moving
  <2>1. /\ sendQ' = sendQ /\ received' = received /\ (Preparing' => Preparing)
        /\ \A p \in Ports : conn'[p].data = conn[p].data
    BY <1>1, QuietStep
  <2> QED
    <3>1. QueueOrdered'
      BY <1>t, <2>1 DEF OnceInv, QueueOrdered
    <3>2. DataDistinct'
      BY <1>t, <2>1 DEF OnceInv, DataDistinct
    <3>3. \A b : (InQueue(b)' <=> InQueue(b)) /\ (InData(b)' <=> InData(b))
      BY <2>1 DEF InQueue, InData
    <3> QED
      BY <1>t, <2>1, <3>1, <3>2, <3>3 DEF OnceInv
<1>2. CASE Prepare /\ Servable
  <2>1. \A b : ~InData(b) /\ ~InData(b)'
    BY <1>2, NothingSent, FilledQueue DEF Prepare, Preparing, InData
  <2>2. \A b \in Ids : received'[b] = 0
    BY <1>2, <1>t, FilledQueue DEF OnceInv, Prepare, Preparing
  <2>3. QueueOrdered'
    BY <1>2, FilledQueue, SessionAssumption DEF Sentinel, QueueOrdered
  <2>4. DataDistinct'
    BY <2>1 DEF InData, DataDistinct
  <2> QED
    BY <2>1, <2>2, <2>3, <2>4 DEF OnceInv
<1>3. ASSUME NEW s \in Senders, SendBuffer(s) \/ SendFails(s) PROVE OnceInv'
  <2>1. sendQ # <<>> /\ sendQ' = Tail(sendQ) /\ received' = received /\ srv' = srv
        /\ sendQ \in Seq(Ids \cup {Sentinel})
    BY <1>3, <1>t DEF SendBuffer, SendFails, clientVars, FullTypes
  <2>2. /\ Len(sendQ') = Len(sendQ) - 1 /\ Len(sendQ) \in Nat /\ Len(sendQ) > 0
        /\ \A i \in 1..Len(sendQ') : sendQ'[i] = sendQ[i+1] /\ i+1 \in 1..Len(sendQ)
    BY <2>1, TailElements
  <2>3. QueueOrdered'
    <3> SUFFICES ASSUME NEW i \in 1..Len(sendQ'), NEW j \in 1..Len(sendQ'), i < j
                 PROVE  /\ sendQ'[i] = Sentinel => sendQ'[j] = Sentinel
                        /\ sendQ'[i] # Sentinel => sendQ'[j] # sendQ'[i]
      BY DEF QueueOrdered
    <3>1. i+1 \in 1..Len(sendQ) /\ j+1 \in 1..Len(sendQ) /\ i+1 < j+1
      BY <2>2
    <3> QED
      BY <1>t, <2>2, <3>1 DEF OnceInv, QueueOrdered
  <2>4. \A b : InQueue(b)' => InQueue(b)
    BY <2>2 DEF InQueue
  <2>5. Preparing' => Preparing
    BY <2>1 DEF Preparing
  <2>6. CASE conn' = conn
    <3>1. DataDistinct' /\ \A b : InData(b)' <=> InData(b)
      BY <1>t, <2>6 DEF OnceInv, DataDistinct, InData
    <3> QED
      BY <1>t, <2>1, <2>3, <2>4, <2>5, <3>1 DEF OnceInv
  <2>7. CASE SendBuffer(s) /\ Head(sendQ) # Sentinel
    <3> DEFINE x == Head(sendQ)
    <3>1. x \in Ids /\ ~InData(x) /\ received[x] = 0
      BY <1>t, <2>7, SendEffect DEF OnceInv
    <3>2. /\ \A b : InQueue(b)' => InQueue(b) /\ b # x
          /\ \A b : InData(b)' <=> InData(b) \/ b = x
      BY <2>7, SendEffect
    <3>3. DataDistinct'
      <4>1. /\ s \in Ports /\ \A p \in Ports : p # s => conn'[p].data = conn[p].data
            /\ conn'[s].data = Append(conn[s].data, x)
        BY <2>7, SendEffect
      <4>2. conn[s].data \in Seq(Ids)
        BY <1>t, <4>1 DEF FullTypes, ConnType
      <4> HIDE DEF x
      <4>3. /\ Len(conn'[s].data) = Len(conn[s].data) + 1 /\ Len(conn[s].data) \in Nat
            /\ \A i \in 1..Len(conn'[s].data) :
                 conn'[s].data[i] = IF i = Len(conn[s].data) + 1 THEN x ELSE conn[s].data[i]
        BY <3>1, <4>1, <4>2, AppendElements
      <4>4. ASSUME NEW p \in Ports, NEW i \in 1..Len(conn'[p].data)
            PROVE  \/ i \in 1..Len(conn[p].data) /\ conn'[p].data[i] = conn[p].data[i] /\ conn[p].data[i] # x
                   \/ p = s /\ i = Len(conn[s].data) + 1 /\ conn'[p].data[i] = x
        <5>1. CASE p = s
          BY <3>1, <4>3, <5>1 DEF InData
        <5>2. CASE p # s
          BY <3>1, <4>1, <5>2 DEF InData
        <5> QED
          BY <5>1, <5>2
      <4> SUFFICES ASSUME NEW p \in Ports, NEW q \in Ports, NEW i \in 1..Len(conn'[p].data),
                          NEW j \in 1..Len(conn'[q].data), conn'[p].data[i] = conn'[q].data[j]
                   PROVE  p = q /\ i = j
        BY DEF DataDistinct
      <4>5. DataDistinct
        BY <1>t DEF OnceInv
      <4>6. CASE conn'[p].data[i] = x
        BY <4>4, <4>6
      <4>7. CASE conn'[p].data[i] # x
        <5>1. /\ i \in 1..Len(conn[p].data) /\ conn'[p].data[i] = conn[p].data[i]
              /\ j \in 1..Len(conn[q].data) /\ conn'[q].data[j] = conn[q].data[j]
          BY <4>4, <4>7
        <5>2. conn[p].data[i] = conn[q].data[j]
          BY <5>1
        <5> QED
          BY <4>5, <5>1, <5>2 DEF DataDistinct
      <4> QED
        BY <4>6, <4>7
    <3> QED
      BY <1>t, <2>1, <2>3, <2>5, <3>1, <3>2, <3>3 DEF OnceInv
  <2> QED
    BY <1>3, <2>6, <2>7 DEF SendBuffer, SendFails
<1>4. ASSUME NEW r \in Receivers, ReadBuffer(r) PROVE OnceInv'
  <2> DEFINE x == Head(conn[r].data)
  <2>1. /\ x \in Ids /\ InData(x) /\ r \in Ports /\ conn[r].data \in Seq(Ids) /\ conn[r].data # <<>>
        /\ received' = [received EXCEPT ![x] = @ + 1]
        /\ UNCHANGED <<sendQ, sender, cli, srv>>
        /\ \A p \in Ports : p # r => conn'[p].data = conn[p].data
        /\ conn'[r].data = Tail(conn[r].data)
        /\ \A b : InData(b)' => InData(b) /\ b # x
    BY <1>4, ReadEffect
  <2>2. ~Preparing /\ ~Preparing'
    BY <1>4, <2>1 DEF ReadBuffer, SessionInv, BaseInv, Preparing
  <2>3. received[x] = 0 /\ ~InQueue(x) /\ \A b \in Ids : received[b] \in Nat
    BY <1>t, <2>1 DEF OnceInv, FullTypes, TypeOK, Ids
  <2>4. received'[x] = 1 /\ \A b \in Ids : b # x => received'[b] = received[b]
    BY <1>t, <2>1, <2>3 DEF FullTypes, TypeOK, Ids
  <2>5. \A b : InQueue(b)' <=> InQueue(b)
    BY <2>1 DEF InQueue
  <2>6. /\ Len(conn'[r].data) = Len(conn[r].data) - 1 /\ Len(conn[r].data) \in Nat
        /\ \A i \in 1..Len(conn'[r].data) : conn'[r].data[i] = conn[r].data[i+1] /\ i+1 \in 1..Len(conn[r].data)
    <3> DEFINE d == conn[r].data
    <3>1. d \in Seq(Ids) /\ d # <<>> /\ conn'[r].data = Tail(d)
      BY <2>1
    <3> HIDE DEF d
    <3>2. /\ Len(Tail(d)) = Len(d) - 1 /\ Len(d) \in Nat
          /\ \A i \in 1..Len(Tail(d)) : Tail(d)[i] = d[i+1] /\ i+1 \in 1..Len(d)
      BY <3>1, TailElements
    <3> QED
      BY <3>1, <3>2 DEF d
  <2>7. DataDistinct'
    <3> SUFFICES ASSUME NEW p \in Ports, NEW q \in Ports, NEW i \in 1..Len(conn'[p].data),
                        NEW j \in 1..Len(conn'[q].data), conn'[p].data[i] = conn'[q].data[j]
                 PROVE  p = q /\ i = j
      BY DEF DataDistinct
    <3>1. PICK k \in 1..Len(conn[p].data) : conn'[p].data[i] = conn[p].data[k] /\ k = IF p = r THEN i + 1 ELSE i
      BY <2>1, <2>6
    <3>2. PICK m \in 1..Len(conn[q].data) : conn'[q].data[j] = conn[q].data[m] /\ m = IF q = r THEN j + 1 ELSE j
      BY <2>1, <2>6
    <3>3. DataDistinct /\ conn[p].data[k] = conn[q].data[m]
      BY <1>t, <3>1, <3>2 DEF OnceInv
    <3>4. p = q /\ k = m
      BY <3>3 DEF DataDistinct
    <3> QED
      BY <3>1, <3>2, <3>4
  <2>8. QueueOrdered'
    BY <1>t, <2>1 DEF OnceInv, QueueOrdered
  <2> HIDE DEF x
  <2> QED
    BY <1>t, <2>1, <2>2, <2>3, <2>4, <2>5, <2>7, <2>8 DEF OnceInv
<1> QED
  BY <1>1, <1>2, <1>3, <1>4 DEF Moving

\* Every step keeps every buffer somewhere, and a send thread that meets a sentinel
\* leaves no buffer behind.
LEMMA KeptStep == SessionInv /\ [Next]_vars => KeptInv'
<1> SUFFICES ASSUME SessionInv, [Next]_vars PROVE KeptInv'
  OBVIOUS
<1>t. FullTypes /\ KeptInv /\ OnceInv
  BY DEF SessionInv
<1>1. CASE ~Moving
  <2>1. /\ sendQ' = sendQ /\ received' = received
        /\ \A p \in Ports : conn'[p].data = conn[p].data
        /\ \A s \in Senders : sender'[s] \in {"close", "ended"} => sender[s] \in {"close", "ended"}
        /\ cli = "killed" => cli' = "killed"
        /\ ~Preparing' /\ srv' # "crashed" => ~Preparing /\ srv # "crashed"
    BY <1>1, QuietStep
  <2>2. \A b : (InQueue(b)' <=> InQueue(b)) /\ (InData(b)' <=> InData(b))
    BY <2>1 DEF InQueue, InData
  <2> QED
    BY <1>t, <2>1, <2>2 DEF KeptInv
<1>2. CASE Prepare /\ Servable
  BY <1>2, FilledQueue DEF KeptInv
<1>3. ASSUME NEW s \in Senders, SendBuffer(s) \/ SendFails(s) PROVE KeptInv'
  <2>1. sendQ # <<>> /\ sendQ' = Tail(sendQ) /\ received' = received /\ srv' = srv /\ cli' = cli
        /\ sendQ \in Seq(Ids \cup {Sentinel})
    BY <1>3, <1>t DEF SendBuffer, SendFails, clientVars, FullTypes
  <2>2. /\ Len(sendQ') = Len(sendQ) - 1 /\ Len(sendQ) \in Nat /\ Len(sendQ) > 0 /\ Head(sendQ) = sendQ[1]
        /\ \A i \in 1..Len(sendQ') : sendQ'[i] = sendQ[i+1] /\ i+1 \in 1..Len(sendQ)
    BY <2>1, TailElements
  <2>3. CASE cli = "killed"
    BY <2>1, <2>3 DEF KeptInv
  <2>4. CASE SendBuffer(s) /\ Head(sendQ) # Sentinel
    <3>1. /\ received' = received /\ sender' = sender /\ cli' = cli /\ srv' = srv
          /\ \A b : InQueue(b) => InQueue(b)' \/ b = Head(sendQ)
          /\ \A b : InData(b)' <=> InData(b) \/ b = Head(sendQ)
      BY <2>4, SendEffect
    <3>2. (\A i \in 1..Len(sendQ) : sendQ[i] = Sentinel) => \A i \in 1..Len(sendQ') : sendQ'[i] = Sentinel
      BY <2>2
    <3> QED
      BY <1>t, <3>1, <3>2 DEF KeptInv, Preparing
  <2>5. CASE SendBuffer(s) /\ Head(sendQ) = Sentinel
    <3>1. \A i \in 1..Len(sendQ) : sendQ[i] = Sentinel
      BY <1>t, <2>2, <2>5 DEF OnceInv, QueueOrdered
    <3>2. \A i \in 1..Len(sendQ') : sendQ'[i] = Sentinel
      BY <2>2, <3>1
    <3>3. \A b \in Ids : ~InQueue(b)
      BY <3>1 DEF InQueue, Ids, Sentinel
    <3>4. \A b : InData(b)' <=> InData(b)
      BY <2>5 DEF SendBuffer, InData
    <3> QED
      BY <1>t, <2>1, <3>2, <3>3, <3>4 DEF KeptInv, Preparing
  <2> QED
    BY <1>3, <2>3, <2>4, <2>5 DEF SendFails
<1>4. ASSUME NEW r \in Receivers, ReadBuffer(r) PROVE KeptInv'
  <2> DEFINE x == Head(conn[r].data)
  <2>1. /\ x \in Ids /\ InData(x)
        /\ received' = [received EXCEPT ![x] = @ + 1]
        /\ UNCHANGED <<sendQ, sender, cli, srv>>
        /\ \A b : InData(b) => InData(b)' \/ b = x
    BY <1>4, ReadEffect
  <2> HIDE DEF x
  <2>2. received[x] = 0
    BY <1>t, <2>1 DEF OnceInv
  <2>3. received'[x] = 1 /\ \A b \in Ids : b # x => received'[b] = received[b]
    BY <1>t, <2>1, <2>2 DEF FullTypes, TypeOK, Ids
  <2>4. \A b : InQueue(b)' <=> InQueue(b)
    BY <2>1 DEF InQueue
  <2> QED
    BY <1>t, <2>1, <2>3, <2>4 DEF KeptInv, Preparing
<1> QED
  BY <1>1, <1>2, <1>3, <1>4 DEF Moving

-----------------------------------------------------------------------------
\* The inductive invariant holds in every reachable state of a session.
THEOREM SessionInvariant == Spec => []SessionInv
<1>1. SessionInv /\ [Next]_vars => SessionInv'
  BY TypesStep, BarrierStep, BaseStep, ConnStep, CountStep, OnceStep, KeptStep, FindStep DEF SessionInv
<1> QED
  BY SessionInit, <1>1, PTL DEF Spec

\* Type correctness of a session: in particular the barrier's counter never exceeds
\* the number of send threads, each of its queues holds at most one signal, and
\* finishedRcvThreads never exceeds the number of receive threads.
THEOREM SessionTypeCorrect == Spec => []TypeOK
<1>1. SessionInv => TypeOK
  BY DEF SessionInv, FullTypes
<1> QED
  BY <1>1, SessionInvariant, PTL

\* serve() sends "Server ready" only after every send thread listens, so a receive
\* thread is refused only by a server that has died or has no such send thread.
THEOREM BarrierWorks == Spec => []ReceiversFindSenders
<1>1. SessionInv => ReceiversFindSenders
  BY DEF SessionInv
<1> QED
  BY <1>1, SessionInvariant, PTL

\* In a state of the inductive invariant the client has finished only when every
\* connection has been read to its end and the send queue holds only sentinels.
LEMMA CompleteWhenDone == SessionInv => TransferComplete
<1> SUFFICES ASSUME SessionInv PROVE TransferComplete
  OBVIOUS
<1>1. DOMAIN received = Ids
  BY DEF SessionInv, FullTypes, TypeOK, Ids
<1>2. \A b \in Ids : received[b] <= 1
  BY DEF SessionInv, OnceInv
<1>3. ASSUME cli = "done", srv # "crashed", NEW b \in Ids PROVE received[b] = 1
  <2>1. 1 \in Receivers /\ \A r \in Receivers : receiver[r] = "ended"
    BY <1>3, SessionAssumption DEF SessionInv, CountInv, Receivers
  <2>2. \A p \in Ports : conn[p].data = <<>>
    BY <1>3, <2>1 DEF SessionInv, ConnInv, Unconnected, Ports
  <2>3. ~InData(b)
    BY <2>2 DEF InData
  <2>4. 1 \in Senders /\ sender[1] = "ended"
    BY <1>3, <2>1 DEF SessionInv, ConnInv, Ports
  <2>5. ~InQueue(b)
    BY <1>3, <2>4 DEF SessionInv, KeptInv, InQueue, Ids, Sentinel
  <2>6. ~Preparing
    BY <2>4 DEF SessionInv, BarrierInv
  <2> QED
    BY <1>3, <2>3, <2>5, <2>6 DEF SessionInv, KeptInv
<1> QED
  BY <1>1, <1>2, <1>3 DEF TransferComplete

\* No buffer is received twice, and when the client's main thread returns 0 none is
\* missing, unless the server died: send closes a connection only after it has read
\* all of its input, and a send thread stops only when no buffer is left.
THEOREM NothingLost == Spec => []TransferComplete
BY SessionInvariant, CompleteWhenDone, PTL
=============================================================================
