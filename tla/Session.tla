------------------------------- MODULE Session -------------------------------
(***************************************************************************)
(* One transfer seen from the network: the server process with its main    *)
(* thread (XDBCServer::serve), its send threads and its monitor, and the   *)
(* client process with its main thread (client main, XClient::initialize,  *)
(* startReceiving and finalize), its receive threads and its monitor.      *)
(*                                                                         *)
(* The client asks for a table on the base connection, waits for "Server   *)
(* ready" and opens one connection per receive thread, to the port of the  *)
(* send thread with the same number.  What happens to a buffer before it   *)
(* is sent and after it has been received is the matter of ServerPipeline  *)
(* and ClientPipeline; here the send queue is full from the start and the  *)
(* client's sinks end when every receive thread has been counted.          *)
(*                                                                         *)
(* TCP is reliable and in order as long as both processes live.  A         *)
(* connection exists as soon as the other side listens, before accept.     *)
(* Closing a socket that has unread input resets the connection, and what  *)
(* is still in flight on a reset connection may be lost.                   *)
(***************************************************************************)
EXTENDS QueueOps

CONSTANTS NetworkParallelism,  \* send threads of the server
          RcvParallelism,      \* receive threads of the client (net-parallelism)
          BuffersToSend,       \* buffers the server's pipeline produces
          SendCapacity,        \* capacity of sendBufferPtr
          System,              \* --system of the server
          TupleSize,           \* size of a tuple of the schema the client sends
          Faults               \* which process may be killed: "server", "client"

ASSUME SessionAssumption ==
  /\ NetworkParallelism \in Nat \ {0} /\ RcvParallelism \in Nat \ {0}
  /\ BuffersToSend \in Nat /\ SendCapacity \in Nat /\ TupleSize \in Nat
  /\ Faults \subseteq {"server", "client"}

VARIABLES srv,       \* where the server's main thread is
          sender,    \* where each send thread is
          barrier,   \* sendThreadReady, acc and sendThreadReadyQ
          sendQ,     \* sendBufferPtr
          cli,       \* where the client's main thread is
          tries,     \* tries of XClient::initialize
          receiver,  \* where each receive thread is
          finished,  \* finishedRcvThreads
          received,  \* how often each buffer has been received
          base,      \* the base connection
          conn,      \* the connections of the send ports
          monitor    \* the flag monitor and the monitor thread, on each side

serverVars == <<srv, sender, barrier, sendQ>>
clientVars == <<cli, tries, receiver, finished, received>>
vars == <<serverVars, clientVars, base, conn, monitor>>

-----------------------------------------------------------------------------
Senders == 1..NetworkParallelism
Receivers == 1..RcvParallelism
Ports == Senders \cup Receivers
MaxTries == 3

ServerUp == srv \notin {"off", "crashed", "done"}
ClientUp == cli \notin {"threw", "aborted", "killed", "done"}

\* serve() divides by tuple_size after it has chosen a DataSource: a system it
\* does not know and an empty schema both leave tuple_size 0.
Servable == System \in {"postgres", "clickhouse", "csv", "parquet"} /\ TupleSize > 0

Init ==
  /\ srv = "off"
  /\ sender = [s \in Senders |-> "none"]
  /\ barrier = [ready |-> [s \in Senders |-> 0], acc |-> 0, q |-> 1]
  /\ sendQ = <<>>
  /\ cli = "connect"
  /\ tries = 0
  /\ receiver = [r \in Receivers |-> "none"]
  /\ finished = 0
  /\ received = [b \in 1..BuffersToSend |-> 0]
  /\ base = [st |-> "none", c2s |-> <<>>, s2c |-> <<>>]
  /\ conn = [p \in Ports |-> [st |-> "none", unread |-> FALSE, data |-> <<>>]]
  /\ monitor = [server |-> [flag |-> FALSE, thread |-> "none"],
                client |-> [flag |-> FALSE, thread |-> "none"]]

-----------------------------------------------------------------------------
(* XDBCServer::serve. *)

\* The process ends: a kill, an exception nobody catches or a division by 0.
\* The operating system closes its sockets.
ServerDies(how) ==
  /\ srv' = "crashed"
  /\ base' = [base EXCEPT !.st = IF @ = "open" THEN how ELSE @]
  /\ conn' = [p \in Ports |-> IF conn[p].st = "open" THEN [conn[p] EXCEPT !.st = "reset"] ELSE conn[p]]
  /\ UNCHANGED <<sender, barrier, sendQ, clientVars, monitor>>

Goto(to) == srv' = to

StartServer ==
  /\ srv = "off"
  /\ Goto("accept")
  /\ UNCHANGED <<sender, barrier, sendQ, clientVars, base, conn, monitor>>

AcceptBase ==
  /\ srv = "accept"
  /\ base.st # "none"
  /\ Goto("readName")
  /\ UNCHANGED <<sender, barrier, sendQ, clientVars, base, conn, monitor>>

\* The table name, then the schema; read throws if the client is gone.
ReadRequest(from, to) ==
  /\ srv = from
  /\ \/ /\ base.c2s # <<>>
        /\ base' = [base EXCEPT !.c2s = Tail(@)]
        /\ Goto(to)
        /\ UNCHANGED <<sender, barrier, sendQ, clientVars, conn, monitor>>
     \/ /\ base.c2s = <<>> /\ ~ClientUp
        /\ ServerDies("eof")

\* The pool is sized and all threads are started.
Prepare ==
  /\ srv = "prepare"
  /\ IF Servable
     THEN /\ Goto("barrier")
          /\ sender' = [s \in Senders |-> "bind"]
          /\ sendQ' = [i \in 1..(BuffersToSend + NetworkParallelism) |->
                         IF i <= BuffersToSend THEN i ELSE Sentinel]
          /\ monitor' = [monitor EXCEPT !.server = [flag |-> TRUE, thread |-> "run"]]
          /\ UNCHANGED <<barrier, clientVars, base, conn>>
     ELSE \E how \in {"eof", "reset"} : ServerDies(how)

\* Mutant of WaitReady: the barrier opens one send thread too early.
WaitReadyOneShort ==
  /\ srv = "barrier"
  /\ barrier.ready[barrier.q] > 0
  /\ barrier' = [ready |-> [barrier.ready EXCEPT ![barrier.q] = @ - 1],
                 acc |-> barrier.acc + 1,
                 q |-> (barrier.q % NetworkParallelism) + 1]
  /\ Goto(IF barrier.acc + 2 >= NetworkParallelism THEN "signal" ELSE "barrier")
  /\ UNCHANGED <<sender, sendQ, clientVars, base, conn, monitor>>

\* acc adds up what is popped from the sendThreadReady queues in turn.
WaitReady ==
  /\ srv = "barrier"
  /\ barrier.ready[barrier.q] > 0
  /\ barrier' = [ready |-> [barrier.ready EXCEPT ![barrier.q] = @ - 1],
                 acc |-> barrier.acc + 1,
                 q |-> (barrier.q % NetworkParallelism) + 1]
  /\ Goto(IF barrier.acc + 1 = NetworkParallelism THEN "signal" ELSE "barrier")
  /\ UNCHANGED <<sender, sendQ, clientVars, base, conn, monitor>>

\* "Server ready"; an error is logged only.
SignalReady ==
  /\ srv = "signal"
  /\ base' = [base EXCEPT !.s2c = Append(@, "ready")]
  /\ Goto("joinComp")
  /\ UNCHANGED <<sender, barrier, sendQ, clientVars, conn, monitor>>

\* The compressors have ended once their last push has found room.
JoinComp ==
  /\ srv = "joinComp"
  /\ SendCapacity = 0 \/ Len(sendQ) <= SendCapacity
  /\ Goto("joinNet")
  /\ UNCHANGED <<sender, barrier, sendQ, clientVars, base, conn, monitor>>

JoinNet ==
  /\ srv = "joinNet"
  /\ \A s \in Senders : sender[s] = "ended"
  /\ monitor' = [monitor EXCEPT !.server.flag = FALSE]
  /\ Goto("joinMonitor")
  /\ UNCHANGED <<sender, barrier, sendQ, clientVars, base, conn>>

\* The monitor is joined, the base socket closed and serve() returns.
JoinMonitor ==
  /\ srv = "joinMonitor"
  /\ monitor.server.thread = "ended"
  /\ base' = [base EXCEPT !.st = "eof"]
  /\ Goto("done")
  /\ UNCHANGED <<sender, barrier, sendQ, clientVars, conn, monitor>>

KillServer ==
  /\ "server" \in Faults /\ ServerUp
  /\ \E how \in {"eof", "reset"} : ServerDies(how)

Serve ==
  \/ StartServer
  \/ AcceptBase
  \/ ReadRequest("readName", "readSchema")
  \/ ReadRequest("readSchema", "prepare")
  \/ Prepare
  \/ WaitReady
  \/ SignalReady
  \/ JoinComp
  \/ JoinNet
  \/ JoinMonitor

-----------------------------------------------------------------------------
(* XDBCServer::send. *)

SenderGoto(s, to) == sender' = [sender EXCEPT ![s] = to]

\* The constructor of the acceptor binds the port and listens.
Bind(s) ==
  /\ sender[s] = "bind"
  /\ SenderGoto(s, "ready")
  /\ UNCHANGED <<srv, barrier, sendQ, clientVars, base, conn, monitor>>

PushReady(s) ==
  /\ sender[s] = "ready"
  /\ barrier' = [barrier EXCEPT !.ready[s] = @ + 1]
  /\ SenderGoto(s, "accept")
  /\ UNCHANGED <<srv, sendQ, clientVars, base, conn, monitor>>

\* Mutant of Accept: the thread id is not read.
AcceptOnly(s) ==
  /\ sender[s] = "accept"
  /\ conn[s].st # "none"
  /\ conn[s].unread \/ ~ClientUp
  /\ SenderGoto(s, "loop")
  /\ UNCHANGED <<srv, barrier, sendQ, clientVars, base, conn, monitor>>

\* Accept, then read the id of the receive thread; read_ catches errors.
Accept(s) ==
  /\ sender[s] = "accept"
  /\ conn[s].st # "none"
  /\ conn[s].unread \/ ~ClientUp
  /\ conn' = [conn EXCEPT ![s].unread = FALSE]
  /\ SenderGoto(s, "loop")
  /\ UNCHANGED <<srv, barrier, sendQ, clientVars, base, monitor>>

\* Mutant of SendBuffer: the sentinel is left in the queue for the others.
SendBufferPeeking(s) ==
  /\ sender[s] = "loop"
  /\ sendQ # <<>>
  /\ IF Head(sendQ) = Sentinel
     THEN SenderGoto(s, "close") /\ UNCHANGED <<conn, sendQ>>
     ELSE /\ conn' = [conn EXCEPT ![s].data = Append(@, Head(sendQ))]
          /\ sendQ' = Tail(sendQ)
          /\ UNCHANGED sender
  /\ UNCHANGED <<srv, barrier, clientVars, base, monitor>>

\* Pop a buffer and write it, or stop at the sentinel.
SendBuffer(s) ==
  /\ sender[s] = "loop"
  /\ sendQ # <<>>
  /\ sendQ' = Tail(sendQ)
  /\ IF Head(sendQ) = Sentinel
     THEN SenderGoto(s, "close") /\ UNCHANGED conn
     ELSE /\ conn' = [conn EXCEPT ![s].data = Append(@, Head(sendQ))]
          /\ UNCHANGED sender
  /\ UNCHANGED <<srv, barrier, clientVars, base, monitor>>

\* The client is gone and the write fails: the thread ends.
SendFails(s) ==
  /\ sender[s] = "loop"
  /\ sendQ # <<>> /\ Head(sendQ) # Sentinel
  /\ cli = "killed"
  /\ sendQ' = Tail(sendQ)
  /\ SenderGoto(s, "close")
  /\ UNCHANGED <<srv, barrier, clientVars, base, conn, monitor>>

\* shutdown and close.
CloseSender(s) ==
  /\ sender[s] = "close"
  /\ conn' = [conn EXCEPT ![s].st = IF conn[s].unread THEN "reset" ELSE "eof"]
  /\ SenderGoto(s, "ended")
  /\ UNCHANGED <<srv, barrier, sendQ, clientVars, base, monitor>>

Send(s) ==
  \/ Bind(s)
  \/ PushReady(s)
  \/ Accept(s)
  \/ SendBuffer(s)
  \/ SendFails(s)
  \/ CloseSender(s)

-----------------------------------------------------------------------------
(* XClient::initialize, startReceiving and finalize; client main. *)

ClientGoto(to) == cli' = to

\* Mutant of Connect: what the last try returns is not looked at.
ConnectForgetful ==
  /\ cli = "connect"
  /\ IF ServerUp /\ tries < MaxTries
     THEN base' = [base EXCEPT !.st = "open"] /\ ClientGoto("writeName")
     ELSE ClientGoto("retry") /\ UNCHANGED base
  /\ UNCHANGED <<serverVars, tries, receiver, finished, received, conn, monitor>>

\* One try; the server may start or die while the client sleeps before the next.
Connect ==
  /\ cli = "connect"
  /\ IF ServerUp
     THEN base' = [base EXCEPT !.st = "open"] /\ ClientGoto("writeName")
     ELSE ClientGoto("retry") /\ UNCHANGED base
  /\ UNCHANGED <<serverVars, tries, receiver, finished, received, conn, monitor>>

\* Up to three more tries; then the error is thrown.
Retry ==
  /\ cli = "retry"
  /\ IF tries < MaxTries THEN tries' = tries + 1 /\ ClientGoto("connect")
                         ELSE ClientGoto("threw") /\ UNCHANGED tries
  /\ UNCHANGED <<serverVars, receiver, finished, received, base, conn, monitor>>

\* Errors of the two writes are ignored.
WriteRequest(from, to) ==
  /\ cli = from
  /\ base' = [base EXCEPT !.c2s = Append(@, from)]
  /\ ClientGoto(to)
  /\ UNCHANGED <<serverVars, tries, receiver, finished, received, conn, monitor>>

\* What read_ returns is logged, an error as well; it is not looked at.
ReadReady ==
  /\ cli = "readReady"
  /\ base.s2c # <<>> \/ base.st # "open"
  /\ ClientGoto("start")
  /\ UNCHANGED <<serverVars, tries, receiver, finished, received, base, conn, monitor>>

StartThreads ==
  /\ cli = "start"
  /\ monitor' = [monitor EXCEPT !.client = [flag |-> TRUE, thread |-> "run"]]
  /\ receiver' = [r \in Receivers |-> "connect"]
  /\ ClientGoto("joinSink")
  /\ UNCHANGED <<serverVars, tries, finished, received, base, conn>>

\* The sinks' threads end when the last receive thread has been counted.
JoinSink ==
  /\ cli = "joinSink"
  /\ finished = RcvParallelism
  /\ monitor' = [monitor EXCEPT !.client.flag = FALSE]
  /\ ClientGoto("finalize")
  /\ UNCHANGED <<serverVars, tries, receiver, finished, received, base, conn>>

\* The monitor, then the receive threads are joined; the base socket is closed.
Finalize ==
  /\ cli = "finalize"
  /\ monitor.client.thread = "ended"
  /\ \A r \in Receivers : receiver[r] \in {"ended", "refused"}
  /\ ClientGoto("done")
  /\ UNCHANGED <<serverVars, tries, receiver, finished, received, base, conn, monitor>>

KillClient ==
  /\ "client" \in Faults /\ ClientUp
  /\ ClientGoto("killed")
  /\ UNCHANGED <<serverVars, tries, receiver, finished, received, base, conn, monitor>>

ClientMain ==
  \/ Connect
  \/ Retry
  \/ WriteRequest("writeName", "writeSchema")
  \/ WriteRequest("writeSchema", "readReady")
  \/ ReadReady
  \/ StartThreads
  \/ JoinSink
  \/ Finalize

-----------------------------------------------------------------------------
(* XClient::receive. *)

ReceiverGoto(r, to) == receiver' = [receiver EXCEPT ![r] = to]

\* A send thread listens on its port from Bind until it ends.
Listening(p) == ServerUp /\ p \in Senders /\ sender[p] \notin {"none", "bind", "ended"}

\* The address comes from remote_endpoint(), which throws on a reset connection
\* and so ends the process; a refused connection is logged.
ConnectReceiver(r) ==
  /\ receiver[r] = "connect"
  /\ IF base.st = "reset"
     THEN ClientGoto("aborted") /\ UNCHANGED <<receiver, conn>>
     ELSE IF Listening(r)
     THEN /\ conn' = [conn EXCEPT ![r].st = "open"]
          /\ ReceiverGoto(r, "hello")
          /\ UNCHANGED cli
     ELSE ReceiverGoto(r, "refused") /\ UNCHANGED <<cli, conn>>
  /\ UNCHANGED <<serverVars, tries, finished, received, base, monitor>>

WriteId(r) ==
  /\ receiver[r] = "hello"
  /\ conn' = [conn EXCEPT ![r].unread = TRUE]
  /\ ReceiverGoto(r, "loop")
  /\ UNCHANGED <<serverVars, cli, tries, finished, received, base, monitor>>

ReadBuffer(r) ==
  /\ receiver[r] = "loop"
  /\ conn[r].data # <<>>
  /\ received' = [received EXCEPT ![Head(conn[r].data)] = @ + 1]
  /\ conn' = [conn EXCEPT ![r].data = Tail(@)]
  /\ UNCHANGED <<serverVars, cli, tries, receiver, finished, base, monitor>>

\* End of file after the last buffer, or an error at any time after a reset.
ReadFails(r) ==
  /\ receiver[r] = "loop"
  /\ \/ conn[r].st = "eof" /\ conn[r].data = <<>>
     \/ conn[r].st = "reset"
  /\ ReceiverGoto(r, "count")
  /\ UNCHANGED <<serverVars, cli, tries, finished, received, base, conn, monitor>>

\* Mutant of CountReceiver: finishedRcvThreads is not incremented.
CountReceiverLost(r) ==
  /\ receiver[r] = "count"
  /\ ReceiverGoto(r, "ended")
  /\ UNCHANGED <<serverVars, cli, tries, finished, received, base, conn, monitor>>

\* fetch_add, the sentinels at the final value, and close.
CountReceiver(r) ==
  /\ receiver[r] = "count"
  /\ finished' = finished + 1
  /\ ReceiverGoto(r, "ended")
  /\ UNCHANGED <<serverVars, cli, tries, received, base, conn, monitor>>

Receive(r) ==
  \/ ConnectReceiver(r)
  \/ WriteId(r)
  \/ ReadBuffer(r)
  \/ ReadFails(r)
  \/ CountReceiver(r)

\* monitorQueues samples the queues until the flag is cleared.
Monitor(side) ==
  /\ monitor[side].thread = "run" /\ ~monitor[side].flag
  /\ monitor' = [monitor EXCEPT ![side].thread = "ended"]
  /\ UNCHANGED <<serverVars, clientVars, base, conn>>

-----------------------------------------------------------------------------
ServerStep == srv \notin {"crashed", "done"} /\ (Serve \/ (\E s \in Senders : Send(s)) \/ Monitor("server"))

ClientStep == ClientUp /\ (ClientMain \/ (\E r \in Receivers : Receive(r)) \/ Monitor("client"))

Next == ServerStep \/ ClientStep \/ KillServer \/ KillClient

Spec == Init /\ [][Next]_vars

\* Both processes are scheduled; nobody has to kill one.
FairSpec == Spec /\ WF_vars(ServerStep) /\ WF_vars(ClientStep)

-----------------------------------------------------------------------------
\* Type invariant.
TypeOK ==
  /\ sender \in [Senders -> {"none", "bind", "ready", "accept", "loop", "close", "ended"}]
  /\ barrier \in [ready : [Senders -> {0, 1}], acc : 0..NetworkParallelism, q : Senders]
  /\ tries \in 0..MaxTries
  /\ receiver \in [Receivers -> {"none", "connect", "hello", "loop", "count", "ended", "refused"}]
  /\ finished \in 0..RcvParallelism
  /\ received \in [1..BuffersToSend -> Nat]

\* The barrier of serve() does its work: a receive thread is refused only when
\* the server has no send thread of that number or has died.
ReceiversFindSenders ==
  \A r \in DOMAIN receiver : receiver[r] = "refused" => r \notin DOMAIN sender \/ srv = "crashed"

\* What the client's main thread returns 0 for: no buffer was received twice
\* and, unless the server died, none is missing (send closes a connection only
\* after it has read all of its input, so its data is delivered).
TransferComplete ==
  /\ \A b \in DOMAIN received : received[b] <= 1
  /\ cli = "done" => srv = "crashed" \/ \A b \in DOMAIN received : received[b] = 1

\* The retries of initialize and the handshake do their work: a server that
\* listens while the client has a try left is found, and the request, the
\* barrier and "Server ready" lead to receive threads on the client, unless the
\* server dies or the client is killed on the way.
ServerFound ==
  (ServerUp /\ (cli = "connect" \/ (cli = "retry" /\ tries < MaxTries)))
    ~> ((\A r \in DOMAIN receiver : receiver[r] # "none") \/ ~ServerUp \/ cli = "killed")

\* The client hangs only if one of its receive threads was refused (it is never
\* counted, so the sinks wait for ever), and the server only if a send thread
\* waits in accept for a receive thread that will not come, if the client was
\* killed, or if there is no client.
HangsKnown ==
  ~ENABLED (ServerStep \/ ClientStep) =>
    /\ ClientUp => \E r \in Receivers : receiver[r] = "refused"
    /\ ServerUp => cli \in {"killed", "threw"} \/ NetworkParallelism > RcvParallelism

\* The client ends, unless a receive thread was refused.
ClientEnds == <>(~ClientUp \/ \E r \in DOMAIN receiver : receiver[r] = "refused")

\* Once all send threads have a receive thread, the server ends, unless the
\* client is killed.
ServerEnds ==
  (\A s \in DOMAIN sender : sender[s] \in {"loop", "close", "ended"})
    ~> (~ServerUp \/ cli = "killed")
=============================================================================
