--------------------------- MODULE MsgDistributor ---------------------------
(***************************************************************************)
(* The message distributor of server/MsgDistributor.cpp (client/ has the   *)
(* same file): sockets, named by numbers, over one MobilityFirst handle    *)
(* each at the client and at the server.  The client's threads connect()   *)
(* and speak first; at the server one thread accepts, one listens, and     *)
(* every accepted socket has a thread that calls recv().                   *)
(*                                                                         *)
(* The C++ client never calls close(): client_stop() cancels its threads   *)
(* and sends the close messages itself.  main() has the registration of the*)
(* signal handler that calls it commented out; the closes that reach this  *)
(* server today are those of the Java client's end(), one for every number *)
(* of its statusMap.  A client started again under the same GUID is a new  *)
(* process that meets what the old one left behind.                        *)
(***************************************************************************)
EXTENDS Integers, Sequences, FiniteSets

CONSTANTS
  Threads,    \* client threads that connect, of all processes
  ProcessOf,  \* the client process a thread belongs to
  Processes,  \* bound: client processes, one after the other
  MaxSockets, \* bound: connections the server accepts
  MaxMsgs,    \* bound: messages a thread sends on its socket, header included
  Lossy,      \* whether the network may lose a message
  NoThread    \* the owner of a lock that is free

ASSUME ThreadsAssumption == IsFiniteSet(Threads)
ASSUME ProcessAssumption == Processes \in Nat \ {0}
                            /\ ProcessOf \in [Threads -> 1 .. Processes]
ASSUME MsgsAssumption == MaxMsgs \in Nat \ {0} /\ Lossy \in BOOLEAN
ASSUME SocketsAssumption == MaxSockets \in Nat

ASSUME NoThreadAssumption == NoThread \notin Threads

Sockets == 1 .. MaxSockets            \* socket numbers; 0 is none

VARIABLES
  server,                             \* "up" or "crashed"
  to_server, to_client,               \* the network, in order
  process, client,                    \* the current client process, "run" or "stop"
  cpc, sock, sent,                    \* client threads
  id_lock, connect_sem, connect_queue, id_set,
  c_open, answered,                   \* the client's maps; answers in its queues
  accept_sem, mfsockid, apc,          \* the server's accept thread
  sem_map, status_map, queue_map,     \* the server's maps: sets of numbers
  queue, queue_live, recv_sem,        \* its heap, by socket number
  closing,                            \* the socket listen() is closing, or 0
  spc, received                       \* the server's threads, by socket number

net == <<to_server, to_client>>
threads == <<cpc, sock, sent>>
cdist == <<id_lock, connect_sem, connect_queue, id_set, c_open, answered>>
cvars == <<process, client, threads, cdist>>
acceptor == <<accept_sem, mfsockid, apc>>
smaps == <<sem_map, status_map, queue_map>>
heap == <<queue, queue_live, recv_sem, closing>>
serving == <<spc, received>>
svars == <<acceptor, smaps, heap, serving>>
vars == <<server, net, cvars, svars>>

CStates == {"idle", "waiting", "got", "registered", "inserted", "up", "stopped"}
SStates == {"none", "find", "getsem", "wait", "status", "lookup", "pop", "answer",
            "ended"}

Msg(type, id, n) == [type |-> type, id |-> id, n |-> n]
Messages == [type : {"create", "accepted", "sock", "close"},
             id : Sockets \cup {0}, n : 0 .. MaxMsgs]

Init ==
  /\ server = "up" /\ to_server = <<>> /\ to_client = <<>>
  /\ process = 1 /\ client = "run"
  /\ cpc = [t \in Threads |-> "idle"] /\ sock = [t \in Threads |-> 0]
  /\ sent = [t \in Threads |-> 0]
  /\ id_lock = NoThread /\ connect_sem = 0 /\ connect_queue = <<>> /\ id_set = {}
  /\ c_open = {} /\ answered = {}
  /\ accept_sem = 0 /\ mfsockid = 0 /\ apc = "wait"
  /\ sem_map = {} /\ status_map = [i \in Sockets |-> "none"] /\ queue_map = {}
  /\ queue = [i \in Sockets |-> <<>>] /\ queue_live = [i \in Sockets |-> FALSE]
  /\ recv_sem = [i \in Sockets |-> 0] /\ closing = 0
  /\ spc = [i \in Sockets |-> "none"] /\ received = [i \in Sockets |-> 0]

-----------------------------------------------------------------------------
(* The client's threads. *)

Running(t) == client = "run" /\ ProcessOf[t] = process

\* connect(): the request, with id_lock held until the socket is registered.
ConnectSend(t) ==
  /\ Running(t) /\ cpc[t] = "idle" /\ id_lock = NoThread
  /\ id_lock' = t
  /\ to_server' = Append(to_server, Msg("create", 0, 0))
  /\ cpc' = [cpc EXCEPT ![t] = "waiting"]
  /\ UNCHANGED <<server, to_client, process, client, sock, sent, connect_sem,
                 connect_queue, id_set, c_open, answered, svars>>

ConnectWait(t) ==
  /\ Running(t) /\ cpc[t] = "waiting" /\ connect_sem > 0
  /\ connect_sem' = connect_sem - 1
  /\ sock' = [sock EXCEPT ![t] = Head(connect_queue)]
  /\ connect_queue' = Tail(connect_queue)
  /\ cpc' = [cpc EXCEPT ![t] = "got"]
  /\ UNCHANGED <<server, net, process, client, sent, id_lock, id_set, c_open,
                 answered, svars>>

ConnectRegister(t) ==
  /\ Running(t) /\ cpc[t] = "got"
  /\ c_open' = c_open \cup {sock[t]}
  /\ id_lock' = NoThread
  /\ cpc' = [cpc EXCEPT ![t] = "registered"]
  /\ UNCHANGED <<server, net, process, client, sock, sent, connect_sem,
                 connect_queue, id_set, answered, svars>>

\* The number is noted for the close at the end.
InsertId(t) ==
  /\ Running(t) /\ cpc[t] = "registered"
  /\ id_set' = id_set \cup {sock[t]}
  /\ cpc' = [cpc EXCEPT ![t] = "inserted"]
  /\ UNCHANGED <<server, net, process, client, sock, sent, id_lock, connect_sem,
                 connect_queue, c_open, answered, svars>>

\* A thread that does not wait for the server's answer.
SendAtOnce(t) ==
  /\ Running(t) /\ sent[t] < MaxMsgs
  /\ cpc[t] \in {"inserted", "up"}
  /\ to_server' = Append(to_server, Msg("sock", sock[t], sent[t] + 1))
  /\ sent' = [sent EXCEPT ![t] = @ + 1]
  /\ cpc' = [cpc EXCEPT ![t] = "up"]
  /\ UNCHANGED <<server, to_client, process, client, sock, cdist, svars>>

\* send(): the header, and after its answer the rest.
Send(t) ==
  /\ Running(t) /\ sent[t] < MaxMsgs
  /\ cpc[t] = "inserted" \/ (cpc[t] = "up" /\ sock[t] \in answered)
  /\ to_server' = Append(to_server, Msg("sock", sock[t], sent[t] + 1))
  /\ sent' = [sent EXCEPT ![t] = @ + 1]
  /\ cpc' = [cpc EXCEPT ![t] = "up"]
  /\ UNCHANGED <<server, to_client, process, client, sock, cdist, svars>>

\* listen() at the client.  A message for a number not in the maps is dropped.
ClientListen ==
  /\ client = "run" /\ to_client # <<>>
  /\ LET m == Head(to_client) IN
       \/ /\ m.type = "accepted"
          /\ connect_queue' = Append(connect_queue, m.id)
          /\ connect_sem' = connect_sem + 1 /\ UNCHANGED answered
       \/ /\ m.type = "sock"
          /\ answered' = IF m.id \in c_open THEN answered \cup {m.id} ELSE answered
          /\ UNCHANGED <<connect_queue, connect_sem>>
  /\ to_client' = Tail(to_client)
  /\ UNCHANGED <<server, to_server, process, client, threads, id_lock, id_set, c_open,
                 svars>>

\* client_stop(): the threads are cancelled, listen among them, and then every
\* number in id_set is told to the server.
ClientStop ==
  /\ client = "run" /\ client' = "stop"
  /\ cpc' = [t \in Threads |-> IF ProcessOf[t] = process THEN "stopped" ELSE cpc[t]]
  /\ UNCHANGED <<server, net, process, sock, sent, cdist, svars>>

ClientClose ==
  /\ client = "stop" /\ \E i \in id_set :
       /\ id_set' = id_set \ {i}
       /\ to_server' = Append(to_server, Msg("close", i, 0))
  /\ UNCHANGED <<server, to_client, process, client, threads, id_lock, connect_sem,
                 connect_queue, c_open, answered, svars>>

\* A new process under the same GUID.  What was on the way to the old one may
\* still arrive.
ClientRestart ==
  /\ client = "stop" /\ id_set = {} /\ process < Processes
  /\ process' = process + 1 /\ client' = "run"
  /\ id_lock' = NoThread /\ connect_sem' = 0 /\ connect_queue' = <<>>
  /\ c_open' = {} /\ answered' = {}
  /\ to_client' \in {<<>>, to_client}
  /\ UNCHANGED <<server, to_server, threads, id_set, svars>>

-----------------------------------------------------------------------------
(* The server: accept(). *)

Least(S) == CHOOSE i \in S : \A j \in S : i <= j

\* The lowest number that is not in use.
AcceptReuses ==
  /\ apc = "wait" /\ accept_sem > 0 /\ mfsockid < MaxSockets
  /\ accept_sem' = accept_sem - 1
  /\ mfsockid' = Least(Sockets \ sem_map)
  /\ to_client' = Append(to_client, Msg("accepted", mfsockid', 0))
  /\ apc' = "announced"
  /\ UNCHANGED <<server, to_server, cvars, smaps, heap, serving>>

\* The number goes to the client before it is in the maps.
AcceptAnnounce ==
  /\ apc = "wait" /\ accept_sem > 0 /\ mfsockid < MaxSockets
  /\ accept_sem' = accept_sem - 1
  /\ mfsockid' = Least({i \in Sockets : i > mfsockid} \ sem_map)
  /\ to_client' = Append(to_client, Msg("accepted", mfsockid', 0))
  /\ apc' = "announced"
  /\ UNCHANGED <<server, to_server, cvars, smaps, heap, serving>>

\* Without the unlock of id_lock.
AcceptKeepsLock ==
  /\ apc = "announced" /\ apc' = "locked"
  /\ sem_map' = sem_map \cup {mfsockid} /\ queue_map' = queue_map \cup {mfsockid}
  /\ status_map' = [status_map EXCEPT ![mfsockid] = "open"]
  /\ queue' = [queue EXCEPT ![mfsockid] = <<>>]
  /\ queue_live' = [queue_live EXCEPT ![mfsockid] = TRUE]
  /\ recv_sem' = [recv_sem EXCEPT ![mfsockid] = 0]
  /\ spc' = [spc EXCEPT ![mfsockid] = "find"]
  /\ UNCHANGED <<server, net, cvars, accept_sem, mfsockid, closing, received>>

\* The maps; accept() returns and serverThread starts on the socket.
AcceptRegister ==
  /\ apc = "announced" /\ apc' = "wait"
  /\ sem_map' = sem_map \cup {mfsockid} /\ queue_map' = queue_map \cup {mfsockid}
  /\ status_map' = [status_map EXCEPT ![mfsockid] = "open"]
  /\ queue' = [queue EXCEPT ![mfsockid] = <<>>]
  /\ queue_live' = [queue_live EXCEPT ![mfsockid] = TRUE]
  /\ recv_sem' = [recv_sem EXCEPT ![mfsockid] = 0]
  /\ spc' = [spc EXCEPT ![mfsockid] = "find"]
  /\ UNCHANGED <<server, net, cvars, accept_sem, mfsockid, closing, received>>

-----------------------------------------------------------------------------
(* The server: listen(), and the close() it calls. *)

Arrives(type) == closing = 0 /\ to_server # <<>> /\ Head(to_server).type = type

ListenCreate ==
  /\ Arrives("create")
  /\ to_server' = Tail(to_server) /\ accept_sem' = accept_sem + 1
  /\ UNCHANGED <<server, to_client, cvars, mfsockid, apc, smaps, heap, serving>>

\* Two posts for a message.
ListenSockTwoPosts ==
  /\ Arrives("sock") /\ to_server' = Tail(to_server)
  /\ LET m == Head(to_server) IN
       IF m.id \in sem_map
       THEN /\ queue' = [queue EXCEPT ![m.id] = Append(@, m.n)]
            /\ recv_sem' = [recv_sem EXCEPT ![m.id] = @ + 2]
       ELSE UNCHANGED <<queue, recv_sem>>
  /\ UNCHANGED <<server, to_client, cvars, acceptor, smaps, queue_live, closing,
                 serving>>

ListenSock ==
  /\ Arrives("sock") /\ to_server' = Tail(to_server)
  /\ LET m == Head(to_server) IN
       IF m.id \in sem_map
       THEN /\ queue' = [queue EXCEPT ![m.id] = Append(@, m.n)]
            /\ recv_sem' = [recv_sem EXCEPT ![m.id] = @ + 1]
       ELSE UNCHANGED <<queue, recv_sem>>
  /\ UNCHANGED <<server, to_client, cvars, acceptor, smaps, queue_live, closing,
                 serving>>

\* The close without the post that ends recv().
ListenCloseSilent ==
  /\ Arrives("close") /\ to_server' = Tail(to_server)
  /\ LET i == Head(to_server).id IN
       IF i \in sem_map
       THEN /\ status_map' = [status_map EXCEPT ![i] = "closed"]
            /\ closing' = i
       ELSE UNCHANGED <<status_map, closing>>
  /\ UNCHANGED <<server, to_client, cvars, acceptor, sem_map, queue_map, queue,
                 queue_live, recv_sem, serving>>

ListenClose ==
  /\ Arrives("close") /\ to_server' = Tail(to_server)
  /\ LET i == Head(to_server).id IN
       IF i \in sem_map
       THEN /\ status_map' = [status_map EXCEPT ![i] = "closed"]
            /\ recv_sem' = [recv_sem EXCEPT ![i] = @ + 1]
            /\ closing' = i
       ELSE UNCHANGED <<status_map, recv_sem, closing>>
  /\ UNCHANGED <<server, to_client, cvars, acceptor, sem_map, queue_map, queue,
                 queue_live, serving>>

CloseErase ==
  /\ closing # 0 /\ closing' = 0
  /\ queue_live' = [queue_live EXCEPT ![closing] = FALSE]
  /\ sem_map' = sem_map \ {closing} /\ queue_map' = queue_map \ {closing}
  /\ UNCHANGED <<server, net, cvars, acceptor, status_map, queue, recv_sem, serving>>

-----------------------------------------------------------------------------
(* The server: recv(), called in a loop by the thread of a socket, and the   *)
(* answer to the header.                                                     *)

\* recv() gives -1.  serverThread does not look at it when it reads the header
\* and takes the user ID out of an empty buffer.
Closed(i) ==
  IF received[i] = 0 THEN server' = "crashed" /\ UNCHANGED spc
  ELSE spc' = [spc EXCEPT ![i] = "ended"] /\ UNCHANGED server

RecvFind(i) ==
  /\ spc[i] = "find"
  /\ IF i \in sem_map THEN spc' = [spc EXCEPT ![i] = "getsem"] /\ UNCHANGED server
                      ELSE Closed(i)
  /\ UNCHANGED <<net, cvars, acceptor, smaps, heap, received>>

RecvGetSem(i) ==
  /\ spc[i] = "getsem" /\ i \in sem_map
  /\ spc' = [spc EXCEPT ![i] = "wait"]
  /\ UNCHANGED <<server, net, cvars, acceptor, smaps, heap, received>>

RecvWait(i) ==
  /\ spc[i] = "wait" /\ recv_sem[i] > 0
  /\ recv_sem' = [recv_sem EXCEPT ![i] = @ - 1]
  /\ spc' = [spc EXCEPT ![i] = "status"]
  /\ UNCHANGED <<server, net, cvars, acceptor, smaps, queue, queue_live, closing,
                 received>>

RecvStatus(i) ==
  /\ spc[i] = "status"
  /\ IF status_map[i] # "open"
     THEN /\ status_map' = [status_map EXCEPT ![i] = "none"] /\ Closed(i)
     ELSE /\ spc' = [spc EXCEPT ![i] = "lookup"] /\ UNCHANGED <<server, status_map>>
  /\ UNCHANGED <<net, cvars, acceptor, sem_map, queue_map, heap, received>>

RecvLookup(i) ==
  /\ spc[i] = "lookup" /\ i \in queue_map
  /\ spc' = [spc EXCEPT ![i] = "pop"]
  /\ UNCHANGED <<server, net, cvars, acceptor, smaps, heap, received>>

RecvPop(i) ==
  /\ spc[i] = "pop" /\ queue[i] # <<>>
  /\ received' = [received EXCEPT ![i] = Head(queue[i])]
  /\ queue' = [queue EXCEPT ![i] = Tail(@)]
  /\ spc' = [spc EXCEPT ![i] = IF received[i] = 0 THEN "answer" ELSE "find"]
  /\ UNCHANGED <<server, net, cvars, acceptor, smaps, queue_live, recv_sem, closing>>

\* The answer does not wait for the header.
AnswerEarly(i) ==
  /\ spc[i] = "answer" \/ (spc[i] = "find" /\ received[i] = 0)
  /\ to_client' = IF i \in sem_map THEN Append(to_client, Msg("sock", i, 1)) ELSE to_client
  /\ spc' = [spc EXCEPT ![i] = "find"]
  /\ UNCHANGED <<server, to_server, cvars, acceptor, smaps, heap, received>>

Answer(i) ==
  /\ spc[i] = "answer"
  /\ to_client' = IF i \in sem_map THEN Append(to_client, Msg("sock", i, 1)) ELSE to_client
  /\ spc' = [spc EXCEPT ![i] = "find"]
  /\ UNCHANGED <<server, to_server, cvars, acceptor, smaps, heap, received>>

\* The pointers recv() is about to follow are null, or deleted.
NullSem(i) == spc[i] = "getsem" /\ i \notin sem_map
DeadQueue(i) == \/ spc[i] = "lookup" /\ i \notin queue_map
                \/ spc[i] = "pop" /\ ~queue_live[i]

BadAccess(i) ==
  /\ NullSem(i) \/ DeadQueue(i)
  /\ server' = "crashed" /\ UNCHANGED <<net, cvars, svars>>

-----------------------------------------------------------------------------
Lose ==
  /\ Lossy
  /\ \/ to_server # <<>> /\ to_server' = Tail(to_server) /\ UNCHANGED to_client
     \/ to_client # <<>> /\ to_client' = Tail(to_client) /\ UNCHANGED to_server
  /\ UNCHANGED <<server, cvars, svars>>

ClientThread(t) ==
  ConnectSend(t) \/ ConnectWait(t) \/ ConnectRegister(t) \/ InsertId(t) \/ Send(t)

Acceptor == AcceptAnnounce \/ AcceptRegister
Listener == ListenCreate \/ ListenSock \/ ListenClose \/ CloseErase

SocketThread(i) ==
  \/ RecvFind(i) \/ RecvGetSem(i) \/ RecvWait(i) \/ RecvStatus(i) \/ RecvLookup(i)
  \/ RecvPop(i) \/ Answer(i) \/ BadAccess(i)

ClientStep ==
  \/ \E t \in Threads : ClientThread(t)
  \/ ClientListen \/ ClientStop \/ ClientClose \/ ClientRestart

ServerStep == Acceptor \/ Listener \/ \E i \in Sockets : SocketThread(i)

Next == \/ ClientStep
        \/ server = "up" /\ ServerStep
        \/ Lose

Spec == Init /\ [][Next]_vars

\* Threads run while they can; nothing makes a client start or stop.
Fairness ==
  /\ \A t \in Threads : WF_vars(ConnectWait(t) \/ ConnectRegister(t))
  /\ WF_vars(ClientListen) /\ WF_vars(ClientClose)
  /\ WF_vars(server = "up" /\ Acceptor) /\ WF_vars(server = "up" /\ Listener)
  /\ \A i \in Sockets : WF_vars(server = "up" /\ SocketThread(i))

FairSpec == Spec /\ Fairness
-----------------------------------------------------------------------------
(* Properties *)

\* Every variable has its type, and no semaphore counts more than the messages
\* of its socket and the close.
TypeOK ==
  /\ server \in {"up", "crashed"}
  /\ to_server \in Seq(Messages) /\ to_client \in Seq(Messages)
  /\ process \in 1 .. Processes /\ client \in {"run", "stop"}
  /\ cpc \in [Threads -> CStates] /\ sock \in [Threads -> Sockets \cup {0}]
  /\ sent \in [Threads -> 0 .. MaxMsgs]
  /\ id_lock \in Threads \cup {NoThread}
  /\ connect_sem \in Nat /\ connect_queue \in Seq(Sockets)
  /\ id_set \subseteq Sockets /\ c_open \subseteq Sockets /\ answered \subseteq Sockets
  /\ accept_sem \in Nat /\ mfsockid \in Sockets \cup {0}
  /\ apc \in {"wait", "announced"}
  /\ sem_map \subseteq Sockets /\ queue_map \subseteq Sockets
  /\ status_map \in [Sockets -> {"none", "open", "closed"}]
  /\ queue \in [Sockets -> Seq(1 .. MaxMsgs)]
  /\ queue_live \in [Sockets -> BOOLEAN]
  /\ recv_sem \in [Sockets -> 0 .. MaxMsgs + 1]
  /\ closing \in Sockets \cup {0}
  /\ spc \in [Sockets -> SStates] /\ received \in [Sockets -> 0 .. MaxMsgs]

\* connect() never gives two threads the same socket, not even to threads of
\* different processes when answers to an old one reach a new one.
OneOwner ==
  \A t, u \in Threads : t # u /\ sock[t] # 0 => sock[t] # sock[u]

\* An answer is dropped by the client's listen() only if its socket belonged to
\* a process that has ended: connect() registers too late for a message that
\* follows "accepted" at once, and it is the server's silence before the header
\* that keeps this from happening.
AnswersArrive ==
  [][\A t \in Threads :
       /\ to_client # <<>> /\ to_client' = Tail(to_client) /\ Running(t)
       /\ Head(to_client).type = "sock" /\ Head(to_client).id = sock[t]
       => sock[t] \in c_open]_vars

\* A socket's messages are received in the order they were sent and without a
\* gap: whatever the early drop or the close takes away, nothing sent later on
\* the socket is received.
NoGaps ==
  [][\A i \in Sockets :
       received'[i] # received[i] => received'[i] = received[i] + 1]_vars

\* connect() returns: what it waits for with id_lock held comes.
ConnectReturns ==
  \A t \in Threads : cpc[t] = "waiting" ~> cpc[t] # "waiting" \/ server = "crashed"

\* The client's close ends the thread of the socket, wherever it is in recv().
CloseEndsThread ==
  \A i \in Sockets : status_map[i] = "closed" ~> spc[i] = "ended" \/ server = "crashed"
=============================================================================
