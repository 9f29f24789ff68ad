------------------------- MODULE MsgDistributorProofs -------------------------
(* Proofs about MsgDistributor: socket numbers only grow, so that a number   *)
(* in the network, in a queue or with a thread is there once; and what is on *)
(* its way on a socket continues what was received on it.                    *)
EXTENDS MsgDistributor, SequenceTheorems, TLAPS

\* TypeOK, in parts.
ThreadType ==
  /\ server \in {"up", "crashed"}
  /\ process \in 1 .. Processes /\ client \in {"run", "stop"}
  /\ cpc \in [Threads -> CStates] /\ sock \in [Threads -> Sockets \cup {0}]
  /\ sent \in [Threads -> 0 .. MaxMsgs]
  /\ id_lock \in Threads \cup {NoThread}

NetType == to_server \in Seq(Messages) /\ to_client \in Seq(Messages)

DistType ==
  /\ connect_sem \in Nat /\ connect_queue \in Seq(Sockets)
  /\ id_set \subseteq Sockets /\ c_open \subseteq Sockets /\ answered \subseteq Sockets

AcceptType ==
  /\ accept_sem \in Nat /\ mfsockid \in Sockets \cup {0}
  /\ apc \in {"wait", "announced"}

MapType ==
  /\ sem_map \subseteq Sockets /\ queue_map \subseteq Sockets
  /\ status_map \in [Sockets -> {"none", "open", "closed"}]
  /\ closing \in Sockets \cup {0}

HeapType ==
  /\ queue \in [Sockets -> Seq(1 .. MaxMsgs)]
  /\ queue_live \in [Sockets -> BOOLEAN]
  /\ recv_sem \in [Sockets -> Nat]

ServeType == spc \in [Sockets -> SStates] /\ received \in [Sockets -> 0 .. MaxMsgs]

\* The server has taken the number i for a connection and registered it.
Taken(i) == i < mfsockid \/ (i = mfsockid /\ apc = "wait")

\* A number that is not taken has never been used.
TakenInv ==
  /\ apc = "announced" => mfsockid # 0
  /\ \A i \in sem_map : Taken(i)
  /\ closing # 0 => closing \in sem_map
  /\ \A i \in Sockets :
       ~Taken(i) => received[i] = 0 /\ queue[i] = <<>> /\ recv_sem[i] = 0 /\ spc[i] = "none"

\* Every announced number is in one place: on its way, in connect_queue, with a
\* thread.
Accepted(p) == p \in 1 .. Len(to_client) /\ to_client[p].type = "accepted"

WireInv ==
  \A p \in 1 .. Len(to_client) : Accepted(p) =>
    /\ to_client[p].id \in 1 .. mfsockid
    /\ \A q \in 1 .. Len(to_client) :
         q # p /\ Accepted(q) => to_client[p].id # to_client[q].id
    /\ \A q \in 1 .. Len(connect_queue) : to_client[p].id # connect_queue[q]
    /\ \A t \in Threads : to_client[p].id # sock[t]

QueueInv ==
  /\ connect_sem = Len(connect_queue)
  /\ \A p \in 1 .. Len(connect_queue) :
       /\ connect_queue[p] \in 1 .. mfsockid
       /\ \A q \in 1 .. Len(connect_queue) : q # p => connect_queue[p] # connect_queue[q]
       /\ \A t \in Threads : connect_queue[p] # sock[t]

SockInv == \A t \in Threads : sock[t] \in 0 .. mfsockid

\* How far a thread is with its connection.
ThreadInv ==
  \A t \in Threads :
    /\ ProcessOf[t] > process => cpc[t] = "idle"
    /\ cpc[t] \in {"idle", "waiting"} => sock[t] = 0
    /\ cpc[t] \in {"idle", "waiting", "got", "registered", "inserted"} => sent[t] = 0
    /\ cpc[t] \in {"got", "registered", "inserted", "up"} => sock[t] # 0
    /\ Running(t) => cpc[t] # "stopped"
    /\ Running(t) /\ cpc[t] \in {"registered", "inserted", "up"} => sock[t] \in c_open

\* What is told about a socket follows from what its thread has sent.
Owned(i) == \E t \in Threads : sock[t] = i
SentOn(i, n) == \E t \in Threads : sock[t] = i /\ n <= sent[t]

ToServerInv ==
  /\ \A p \in 1 .. Len(to_server) :
       /\ to_server[p].type = "sock" =>
            /\ to_server[p].n > 0 /\ to_server[p].id # 0
            /\ SentOn(to_server[p].id, to_server[p].n)
       /\ to_server[p].type = "close" => to_server[p].id # 0 /\ Owned(to_server[p].id)
  /\ \A i \in id_set : Owned(i)

HeardInv ==
  \A i \in Sockets : received[i] > 0 \/ queue[i] # <<>> => SentOn(i, 1)

AnswerInv ==
  /\ \A i \in Sockets : spc[i] = "answer" => received[i] > 0
  /\ \A p \in 1 .. Len(to_client) : to_client[p].type = "sock" =>
       to_client[p].id # 0 /\ received[to_client[p].id] > 0
  /\ \A i \in answered : received[i] > 0
  /\ \A t \in Threads : sent[t] > 1 => sock[t] # 0 /\ received[sock[t]] > 0

\* The messages of a socket are on their way in order, and the semaphore has
\* not been posted more often than the thread has sent, but for the close.
Listening(i) == i \in sem_map /\ closing # i

OrderInv ==
  \A p \in 1 .. Len(to_server) : to_server[p].type = "sock" =>
    /\ \A q \in 1 .. p - 1 :
         to_server[q].type = "sock" /\ to_server[q].id = to_server[p].id =>
           to_server[q].n < to_server[p].n
    /\ Listening(to_server[p].id) => recv_sem[to_server[p].id] < to_server[p].n

SemInv ==
  \A i \in Sockets : recv_sem[i] # 0 =>
    \E t \in Threads :
      sock[t] = i /\ recv_sem[i] <= sent[t] + (IF Listening(i) THEN 0 ELSE 1)

\* What has arrived on a socket continues without a gap what was received, and
\* what is on its way continues what has arrived.
Arrived(i) == received[i] + Len(queue[i])

InFlight(i, n, m) ==
  \E q \in 1 .. m :
    to_server[q].type = "sock" /\ to_server[q].id = i /\ to_server[q].n = n

ArrivedInv ==
  \A i \in Sockets : \A p \in 1 .. Len(queue[i]) : queue[i][p] = received[i] + p

FlightInv ==
  \A p \in 1 .. Len(to_server) :
    to_server[p].type = "sock" /\ Listening(to_server[p].id) =>
      /\ Arrived(to_server[p].id) < to_server[p].n
      /\ \/ to_server[p].n = Arrived(to_server[p].id) + 1
         \/ InFlight(to_server[p].id, to_server[p].n - 1, p - 1)

SenderInv ==
  \A t \in Threads : sock[t] # 0 /\ Listening(sock[t]) =>
    \/ sent[t] = Arrived(sock[t])
    \/ InFlight(sock[t], sent[t], Len(to_server))
    \/ Arrived(sock[t]) = 0 /\ sent[t] <= 1

GapInv == ~Lossy => ArrivedInv /\ FlightInv /\ SenderInv

\* A thread keeps its socket and does not take back what it has sent.
Grow ==
  \A t \in Threads : (sock[t] # 0 => sock'[t] = sock[t]) /\ sent[t] <= sent'[t]

IInv ==
  /\ ThreadType /\ NetType /\ DistType /\ AcceptType /\ MapType /\ HeapType /\ ServeType
  /\ TakenInv /\ WireInv /\ QueueInv /\ SockInv /\ OneOwner /\ ThreadInv
  /\ ToServerInv /\ HeardInv /\ AnswerInv /\ OrderInv /\ SemInv /\ GapInv

-----------------------------------------------------------------------------
(* The steps of Next, one disjunct each. *)
LEMMA NextSteps ==
  ASSUME Next
  PROVE  \/ \E t \in Threads :
              ConnectSend(t) \/ ConnectWait(t) \/ ConnectRegister(t) \/ InsertId(t) \/ Send(t)
         \/ ClientListen \/ ClientStop \/ ClientClose \/ ClientRestart
         \/ AcceptAnnounce \/ AcceptRegister
         \/ ListenCreate \/ ListenSock \/ ListenClose \/ CloseErase
         \/ \E i \in Sockets :
              \/ RecvFind(i) \/ RecvGetSem(i) \/ RecvWait(i) \/ RecvStatus(i)
              \/ RecvLookup(i) \/ RecvPop(i) \/ Answer(i) \/ BadAccess(i)
         \/ Lose
BY DEF Next, ClientStep, ServerStep, ClientThread, Acceptor, Listener, SocketThread

(* A sequence without its head, and with one more element. *)
LEMMA HeadFacts ==
  ASSUME NEW S, NEW q \in Seq(S), q # <<>>
  PROVE  /\ Len(q) \in Nat /\ Len(q) >= 1 /\ q[1] \in S /\ Head(q) = q[1]
         /\ Tail(q) \in Seq(S) /\ Len(Tail(q)) = Len(q) - 1
         /\ \A i \in 1 .. Len(Tail(q)) : i + 1 \in 1 .. Len(q) /\ Tail(q)[i] = q[i + 1]
<1>1. /\ Len(q) \in Nat /\ Len(q) >= 1 /\ q[1] \in S /\ Head(q) = q[1]
      /\ Tail(q) \in Seq(S) /\ Len(Tail(q)) = Len(q) - 1
  OBVIOUS
<1>2. \A i \in 1 .. Len(Tail(q)) : i + 1 \in 1 .. Len(q) /\ Tail(q)[i] = q[i + 1]
  BY <1>1, HeadTailProperties
<1> QED BY <1>1, <1>2

\* An appended sequence is one longer, with the new element last.
LEMMA AppendFacts ==
  ASSUME NEW S, NEW q \in Seq(S), NEW e \in S
  PROVE  /\ Append(q, e) \in Seq(S) /\ Append(q, e) # <<>> /\ Len(q) \in Nat
         /\ Len(Append(q, e)) = Len(q) + 1 /\ Append(q, e)[Len(q) + 1] = e
         /\ \A i \in 1 .. Len(q) : Append(q, e)[i] = q[i]
OBVIOUS

\* What the two ends send are messages.
LEMMA MsgFacts ==
  /\ Msg("create", 0, 0) \in Messages
  /\ \A i \in Sockets : /\ Msg("accepted", i, 0) \in Messages
                        /\ Msg("close", i, 0) \in Messages /\ Msg("sock", i, 1) \in Messages
                        /\ \A n \in 1 .. MaxMsgs : Msg("sock", i, n) \in Messages
BY MsgsAssumption DEF Msg, Messages

(* The next number is one more than the last, since no higher one is in use. *)
LEMMA NextNumber ==
  ASSUME AcceptType, MapType, TakenInv, AcceptAnnounce
  PROVE  /\ mfsockid' = mfsockid + 1 /\ mfsockid' \in Sockets /\ apc = "wait"
         /\ apc' = "announced"
<1>1. mfsockid \in Nat /\ mfsockid + 1 \in Sockets /\ apc = "wait" /\ mfsockid < MaxSockets
  BY SocketsAssumption DEF AcceptAnnounce, AcceptType, Sockets
<1>2. \A i \in Sockets : i > mfsockid => i \notin sem_map
  BY <1>1 DEF TakenInv, Taken, Sockets
<1> DEFINE S == {i \in Sockets : i > mfsockid} \ sem_map
<1>3. mfsockid + 1 \in S /\ \A j \in S : j >= mfsockid + 1 /\ j \in Int
  BY <1>1, <1>2 DEF Sockets
<1>4. Least(S) \in S /\ \A j \in S : Least(S) <= j
  BY <1>3 DEF Least
<1>5. mfsockid' = Least(S) /\ apc' = "announced"
  BY DEF AcceptAnnounce
<1> QED BY <1>1, <1>3, <1>4, <1>5

(* What a step takes from the network, and from connect_queue. *)
LEMMA ServerHead ==
  ASSUME NetType, to_server # <<>>
  PROVE  /\ Len(to_server) \in Nat /\ 1 \in 1 .. Len(to_server)
         /\ Head(to_server) = to_server[1] /\ to_server[1] \in Messages
         /\ Len(Tail(to_server)) = Len(to_server) - 1
         /\ \A p \in 1 .. Len(Tail(to_server)) :
              p + 1 \in 1 .. Len(to_server) /\ Tail(to_server)[p] = to_server[p + 1]
BY HeadFacts DEF NetType

\* The message that the client's listen() takes, and those left behind it.
LEMMA ClientHead ==
  ASSUME NetType, to_client # <<>>
  PROVE  /\ Len(to_client) \in Nat /\ 1 \in 1 .. Len(to_client)
         /\ Head(to_client) = to_client[1] /\ to_client[1] \in Messages
         /\ Len(Tail(to_client)) = Len(to_client) - 1
         /\ \A p \in 1 .. Len(Tail(to_client)) :
              p + 1 \in 1 .. Len(to_client) /\ Tail(to_client)[p] = to_client[p + 1]
BY HeadFacts DEF NetType

\* connect() takes the oldest number of connect_queue.
LEMMA WaitFacts ==
  ASSUME DistType, QueueInv, NEW t \in Threads, ConnectWait(t)
  PROVE  /\ 1 \in 1 .. Len(connect_queue) /\ connect_queue[1] \in Sockets
         /\ sock' = [sock EXCEPT ![t] = connect_queue[1]]
         /\ connect_sem' = connect_sem - 1 /\ cpc[t] = "waiting"
         /\ cpc' = [cpc EXCEPT ![t] = "got"]
         /\ Len(connect_queue') = Len(connect_queue) - 1
         /\ \A p \in 1 .. Len(connect_queue') :
              /\ p + 1 \in 1 .. Len(connect_queue)
              /\ connect_queue'[p] = connect_queue[p + 1]
         /\ UNCHANGED <<server, to_server, to_client, process, client, sent, id_set,
                        c_open, answered, accept_sem, mfsockid, apc>>
<1>1. connect_queue # <<>> /\ connect_queue \in Seq(Sockets)
  BY EmptySeq DEF ConnectWait, QueueInv, DistType
<1>2. /\ 1 \in 1 .. Len(connect_queue) /\ connect_queue[1] \in Sockets
      /\ Head(connect_queue) = connect_queue[1]
      /\ Len(Tail(connect_queue)) = Len(connect_queue) - 1
      /\ \A p \in 1 .. Len(Tail(connect_queue)) :
           /\ p + 1 \in 1 .. Len(connect_queue)
           /\ Tail(connect_queue)[p] = connect_queue[p + 1]
  BY <1>1, HeadFacts
<1>3. /\ connect_queue' = Tail(connect_queue) /\ connect_sem' = connect_sem - 1
      /\ sock' = [sock EXCEPT ![t] = Head(connect_queue)]
      /\ cpc[t] = "waiting" /\ cpc' = [cpc EXCEPT ![t] = "got"]
      /\ UNCHANGED <<server, to_server, to_client, process, client, sent, id_set,
                     c_open, answered, accept_sem, mfsockid, apc>>
  BY DEF ConnectWait, net, acceptor, svars
<1> QED BY <1>2, <1>3

(* What listen() takes at the client. *)
LEMMA ListenFacts ==
  ASSUME NetType, DistType, ClientListen
  PROVE  /\ to_client # <<>> /\ to_client' = Tail(to_client) /\ client = "run"
         /\ \/ /\ to_client[1].type = "accepted" /\ connect_sem' = connect_sem + 1
               /\ connect_queue' = Append(connect_queue, to_client[1].id)
               /\ UNCHANGED answered
            \/ /\ to_client[1].type = "sock" /\ UNCHANGED <<connect_queue, connect_sem>>
               /\ \/ answered' = answered
                  \/ answered' = answered \cup {to_client[1].id}
         /\ UNCHANGED <<server, to_server, process, client, cpc, sock, sent, id_lock,
                        id_set, c_open, accept_sem, mfsockid, apc, sem_map, closing,
                        queue, recv_sem, spc, received>>
<1>1. to_client # <<>>
  BY DEF ClientListen
<1>2. Head(to_client) = to_client[1]
  BY <1>1, ClientHead
<1> QED BY <1>1, <1>2 DEF ClientListen, threads, acceptor, smaps, heap, serving, svars

(* What listen() takes at the server. *)
LEMMA ArriveFacts ==
  ASSUME NetType, MapType, ListenSock \/ ListenClose
  PROVE  /\ to_server # <<>> /\ to_server' = Tail(to_server) /\ closing = 0
         /\ LET m == to_server[1] IN
              \/ /\ UNCHANGED <<queue, recv_sem, closing>> /\ m.id \notin sem_map
                 /\ m.type \in {"sock", "close"}
              \/ /\ m.type = "sock" /\ m.id \in sem_map
                 /\ queue' = [queue EXCEPT ![m.id] = Append(@, m.n)]
                 /\ recv_sem' = [recv_sem EXCEPT ![m.id] = @ + 1] /\ UNCHANGED closing
              \/ /\ m.type = "close" /\ m.id \in sem_map /\ closing' = m.id
                 /\ recv_sem' = [recv_sem EXCEPT ![m.id] = @ + 1] /\ UNCHANGED queue
         /\ UNCHANGED <<server, to_client, process, client, cpc, sock, sent, id_lock,
                        connect_sem, connect_queue, id_set, c_open, answered, accept_sem,
                        mfsockid, apc, sem_map, spc, received>>
<1>1. to_server # <<>>
  BY DEF ListenSock, ListenClose, Arrives
<1>2. Head(to_server) = to_server[1]
  BY <1>1, ServerHead
<1>3. CASE ListenSock
  BY <1>1, <1>2, <1>3
  DEF ListenSock, Arrives, cvars, threads, cdist, acceptor, smaps, serving
<1>4. CASE ListenClose
  BY <1>1, <1>2, <1>4
  DEF ListenClose, Arrives, cvars, threads, cdist, acceptor, smaps, serving
<1> QED BY <1>3, <1>4

(* Types are kept: the threads and the process of the client. *)
LEMMA ThreadTypeStep ==
  ASSUME ThreadType, DistType, QueueInv, Next
  PROVE  ThreadType'
<1> USE DEF net, threads, cdist, cvars, acceptor, smaps, heap, serving, svars
<1>1. ASSUME NEW t \in Threads, ConnectSend(t) PROVE ThreadType'
  BY <1>1 DEF ConnectSend, ThreadType, CStates, Running
<1>2. ASSUME NEW t \in Threads, ConnectWait(t) PROVE ThreadType'
  <2>1. connect_sem > 0 /\ connect_queue # <<>>
    BY <1>2, EmptySeq DEF ConnectWait, QueueInv, DistType
  <2>2. Head(connect_queue) \in Sockets
    BY <2>1, HeadFacts DEF DistType
  <2> QED BY <1>2, <2>2 DEF ConnectWait, ThreadType, CStates
<1>3. ASSUME NEW t \in Threads, ConnectRegister(t) PROVE ThreadType'
  BY <1>3 DEF ConnectRegister, ThreadType, CStates, Running
<1>4. ASSUME NEW t \in Threads, InsertId(t) PROVE ThreadType'
  BY <1>4 DEF InsertId, ThreadType, CStates, Running
<1>5. ASSUME NEW t \in Threads, Send(t) PROVE ThreadType'
  <2>1. sent[t] + 1 \in 0 .. MaxMsgs
    BY <1>5, MsgsAssumption DEF Send, ThreadType
  <2> QED BY <1>5, <2>1 DEF Send, ThreadType, CStates
<1>6. ASSUME ClientListen PROVE ThreadType'
  BY <1>6 DEF ClientListen, ThreadType, CStates
<1>7. ASSUME ClientStop PROVE ThreadType'
  BY <1>7 DEF ClientStop, ThreadType, CStates
<1>8. ASSUME ClientClose PROVE ThreadType'
  BY <1>8 DEF ClientClose, ThreadType, CStates
<1>9. ASSUME ClientRestart PROVE ThreadType'
  <2>1. process + 1 \in 1 .. Processes
    BY <1>9, ProcessAssumption DEF ClientRestart, ThreadType
  <2> QED BY <1>9, <2>1 DEF ClientRestart, ThreadType
<1>10. ASSUME AcceptAnnounce PROVE ThreadType'
  BY <1>10 DEF AcceptAnnounce, ThreadType, CStates
<1>11. ASSUME AcceptRegister PROVE ThreadType'
  BY <1>11 DEF AcceptRegister, ThreadType, CStates
<1>12. ASSUME ListenCreate PROVE ThreadType'
  BY <1>12 DEF ListenCreate, ThreadType, CStates, Arrives
<1>13. ASSUME ListenSock PROVE ThreadType'
  BY <1>13 DEF ListenSock, ThreadType, CStates, Arrives
<1>14. ASSUME ListenClose PROVE ThreadType'
  BY <1>14 DEF ListenClose, ThreadType, CStates, Arrives
<1>15. ASSUME CloseErase PROVE ThreadType'
  BY <1>15 DEF CloseErase, ThreadType, CStates
<1>16. ASSUME NEW i \in Sockets, RecvFind(i) PROVE ThreadType'
  BY <1>16 DEF RecvFind, ThreadType, CStates, Closed
<1>17. ASSUME NEW i \in Sockets, RecvGetSem(i) PROVE ThreadType'
  BY <1>17 DEF RecvGetSem, ThreadType, CStates
<1>18. ASSUME NEW i \in Sockets, RecvWait(i) PROVE ThreadType'
  BY <1>18 DEF RecvWait, ThreadType, CStates
<1>19. ASSUME NEW i \in Sockets, RecvStatus(i) PROVE ThreadType'
  BY <1>19 DEF RecvStatus, ThreadType, CStates, Closed
<1>20. ASSUME NEW i \in Sockets, RecvLookup(i) PROVE ThreadType'
  BY <1>20 DEF RecvLookup, ThreadType, CStates
<1>21. ASSUME NEW i \in Sockets, RecvPop(i) PROVE ThreadType'
  BY <1>21 DEF RecvPop, ThreadType, CStates
<1>22. ASSUME NEW i \in Sockets, Answer(i) PROVE ThreadType'
  BY <1>22 DEF Answer, ThreadType, CStates
<1>23. ASSUME NEW i \in Sockets, BadAccess(i) PROVE ThreadType'
  BY <1>23 DEF BadAccess, ThreadType, CStates
<1>24. ASSUME Lose PROVE ThreadType'
  BY <1>24 DEF Lose, ThreadType, CStates
<1> QED BY <1>1, <1>2, <1>3, <1>4, <1>5, <1>6, <1>7, <1>8, <1>9, <1>10, <1>11, <1>12, <1>13, <1>14, <1>15, <1>16, <1>17, <1>18, <1>19, <1>20, <1>21, <1>22, <1>23, <1>24, NextSteps

(* What is in the network. *)
LEMMA NetTypeStep ==
  ASSUME ThreadType, NetType, DistType, AcceptType, MapType, TakenInv, ThreadInv, Next
  PROVE  NetType'
<1> USE DEF net, threads, cdist, cvars, acceptor, smaps, heap, serving, svars
<1>1. ASSUME NEW t \in Threads, ConnectSend(t) PROVE NetType'
  <2>1. to_server' \in Seq(Messages)
    BY <1>1, MsgFacts, AppendFacts DEF ConnectSend, NetType
  <2> QED BY <1>1, <2>1 DEF ConnectSend, NetType
<1>2. ASSUME NEW t \in Threads, ConnectWait(t) PROVE NetType'
  BY <1>2 DEF ConnectWait, NetType, Running
<1>3. ASSUME NEW t \in Threads, ConnectRegister(t) PROVE NetType'
  BY <1>3 DEF ConnectRegister, NetType, Running
<1>4. ASSUME NEW t \in Threads, InsertId(t) PROVE NetType'
  BY <1>4 DEF InsertId, NetType, Running
<1>5. ASSUME NEW t \in Threads, Send(t) PROVE NetType'
  <2>1. sock[t] \in Sockets /\ sent[t] + 1 \in 1 .. MaxMsgs
    BY <1>5, MsgsAssumption DEF Send, ThreadType, ThreadInv
  <2>2. Msg("sock", sock[t], sent[t] + 1) \in Messages
    BY <2>1, MsgFacts
  <2>3. to_server' \in Seq(Messages)
    BY <1>5, <2>2, AppendFacts DEF Send, NetType
  <2> QED BY <1>5, <2>3 DEF Send, NetType
<1>6. ASSUME ClientListen PROVE NetType'
  BY <1>6 DEF ClientListen, NetType
<1>7. ASSUME ClientStop PROVE NetType'
  BY <1>7 DEF ClientStop, NetType
<1>8. ASSUME ClientClose PROVE NetType'
  <2>1. PICK i \in id_set : to_server' = Append(to_server, Msg("close", i, 0))
    BY <1>8 DEF ClientClose
  <2>2. to_server' \in Seq(Messages)
    BY <2>1, MsgFacts, AppendFacts DEF DistType, NetType
  <2> QED BY <1>8, <2>2 DEF ClientClose, NetType
<1>9. ASSUME ClientRestart PROVE NetType'
  <2>1. to_client' = <<>> \/ to_client' = to_client
    BY <1>9 DEF ClientRestart
  <2>2. to_client' \in Seq(Messages)
    <3>1. <<>> \in Seq(Messages) /\ to_client \in Seq(Messages)
      BY DEF NetType
    <3> QED BY <2>1, <3>1, Zenon
  <2> QED BY <1>9, <2>2 DEF ClientRestart, NetType
<1>10. ASSUME AcceptAnnounce PROVE NetType'
  <2>1. mfsockid' \in Sockets
    BY <1>10, NextNumber
  <2>2. to_client' \in Seq(Messages)
    BY <1>10, <2>1, MsgFacts, AppendFacts DEF AcceptAnnounce, NetType
  <2> QED BY <1>10, <2>2 DEF AcceptAnnounce, NetType
<1>11. ASSUME AcceptRegister PROVE NetType'
  BY <1>11 DEF AcceptRegister, NetType
<1>12. ASSUME ListenCreate PROVE NetType'
  BY <1>12 DEF ListenCreate, NetType, Arrives
<1>13. ASSUME ListenSock PROVE NetType'
  BY <1>13 DEF ListenSock, NetType, Arrives
<1>14. ASSUME ListenClose PROVE NetType'
  BY <1>14 DEF ListenClose, NetType, Arrives
<1>15. ASSUME CloseErase PROVE NetType'
  BY <1>15 DEF CloseErase, NetType
<1>16. ASSUME NEW i \in Sockets, RecvFind(i) PROVE NetType'
  BY <1>16 DEF RecvFind, NetType, Closed
<1>17. ASSUME NEW i \in Sockets, RecvGetSem(i) PROVE NetType'
  BY <1>17 DEF RecvGetSem, NetType
<1>18. ASSUME NEW i \in Sockets, RecvWait(i) PROVE NetType'
  BY <1>18 DEF RecvWait, NetType
<1>19. ASSUME NEW i \in Sockets, RecvStatus(i) PROVE NetType'
  BY <1>19 DEF RecvStatus, NetType, Closed
<1>20. ASSUME NEW i \in Sockets, RecvLookup(i) PROVE NetType'
  BY <1>20 DEF RecvLookup, NetType
<1>21. ASSUME NEW i \in Sockets, RecvPop(i) PROVE NetType'
  BY <1>21 DEF RecvPop, NetType
<1>22. ASSUME NEW i \in Sockets, Answer(i) PROVE NetType'
  <2>1. to_client' \in Seq(Messages)
    BY <1>22, MsgFacts, AppendFacts DEF Answer, NetType
  <2> QED BY <1>22, <2>1 DEF Answer, NetType
<1>23. ASSUME NEW i \in Sockets, BadAccess(i) PROVE NetType'
  BY <1>23 DEF BadAccess, NetType
<1>24. ASSUME Lose PROVE NetType'
  <2>1. to_server # <<>> => Tail(to_server) \in Seq(Messages)
    BY HeadFacts DEF NetType
  <2>2. to_client # <<>> => Tail(to_client) \in Seq(Messages)
    BY HeadFacts DEF NetType
  <2> QED BY <1>24, <2>1, <2>2 DEF Lose, NetType
<1> QED BY <1>1, <1>2, <1>3, <1>4, <1>5, <1>6, <1>7, <1>8, <1>9, <1>10, <1>11, <1>12, <1>13, <1>14, <1>15, <1>16, <1>17, <1>18, <1>19, <1>20, <1>21, <1>22, <1>23, <1>24, NextSteps

(* The client's distributor. *)
LEMMA DistTypeStep ==
  ASSUME ThreadType, NetType, DistType, AcceptType, WireInv, ThreadInv, AnswerInv, QueueInv, Next
  PROVE  DistType'
<1> USE DEF net, threads, cdist, cvars, acceptor, smaps, heap, serving, svars
<1>1. ASSUME NEW t \in Threads, ConnectSend(t) PROVE DistType'
  BY <1>1 DEF ConnectSend, DistType, Running
<1>2. ASSUME NEW t \in Threads, ConnectWait(t) PROVE DistType'
  <2>1. connect_sem > 0 /\ connect_queue # <<>>
    BY <1>2, EmptySeq DEF ConnectWait, QueueInv, DistType
  <2>2. connect_queue' \in Seq(Sockets)
    BY <1>2, <2>1, HeadFacts DEF ConnectWait, DistType
  <2>3. connect_sem' \in Nat
    BY <1>2 DEF ConnectWait, DistType
  <2> QED BY <1>2, <2>2, <2>3 DEF ConnectWait, DistType
<1>3. ASSUME NEW t \in Threads, ConnectRegister(t) PROVE DistType'
  <2>1. sock[t] \in Sockets
    BY <1>3 DEF ConnectRegister, ThreadType, ThreadInv
  <2> QED BY <1>3, <2>1 DEF ConnectRegister, DistType
<1>4. ASSUME NEW t \in Threads, InsertId(t) PROVE DistType'
  <2>1. sock[t] \in Sockets
    BY <1>4 DEF InsertId, ThreadType, ThreadInv
  <2> QED BY <1>4, <2>1 DEF InsertId, DistType
<1>5. ASSUME NEW t \in Threads, Send(t) PROVE DistType'
  BY <1>5 DEF Send, DistType, Running
<1>6. ASSUME ClientListen PROVE DistType'
  <2>1. to_client # <<>> /\ UNCHANGED <<id_set, c_open>>
    BY <1>6 DEF ClientListen
  <2>2. Head(to_client) = to_client[1] /\ 1 \in 1 .. Len(to_client) /\ to_client[1] \in Messages
    BY <2>1, HeadFacts DEF NetType
  <2>3. CASE to_client[1].type = "accepted"
    <3>1. to_client[1].id \in Sockets
      <4>1. to_client[1].id \in 1 .. mfsockid
        BY <2>2, <2>3 DEF WireInv, Accepted
      <4> QED BY <4>1, SocketsAssumption DEF AcceptType, Sockets
    <3>2. /\ connect_queue' = Append(connect_queue, to_client[1].id)
          /\ connect_sem' = connect_sem + 1 /\ UNCHANGED answered
      BY <1>6, <2>2, <2>3 DEF ClientListen
    <3> QED BY <2>1, <3>1, <3>2, AppendFacts DEF DistType
  <2>4. CASE to_client[1].type # "accepted"
    <3>1. /\ to_client[1].type = "sock" /\ UNCHANGED <<connect_queue, connect_sem>>
          /\ answered' = answered \/ (to_client[1].id \in c_open
                                      /\ answered' = answered \cup {to_client[1].id})
      BY <1>6, <2>2, <2>4 DEF ClientListen
    <3> QED BY <2>1, <3>1 DEF DistType
  <2> QED BY <2>3, <2>4
<1>7. ASSUME ClientStop PROVE DistType'
  BY <1>7 DEF ClientStop, DistType
<1>8. ASSUME ClientClose PROVE DistType'
  BY <1>8 DEF ClientClose, DistType
<1>9. ASSUME ClientRestart PROVE DistType'
  BY <1>9 DEF ClientRestart, DistType
<1>10. ASSUME AcceptAnnounce PROVE DistType'
  BY <1>10 DEF AcceptAnnounce, DistType
<1>11. ASSUME AcceptRegister PROVE DistType'
  BY <1>11 DEF AcceptRegister, DistType
<1>12. ASSUME ListenCreate PROVE DistType'
  BY <1>12 DEF ListenCreate, DistType, Arrives
<1>13. ASSUME ListenSock PROVE DistType'
  BY <1>13 DEF ListenSock, DistType, Arrives
<1>14. ASSUME ListenClose PROVE DistType'
  BY <1>14 DEF ListenClose, DistType, Arrives
<1>15. ASSUME CloseErase PROVE DistType'
  BY <1>15 DEF CloseErase, DistType
<1>16. ASSUME NEW i \in Sockets, RecvFind(i) PROVE DistType'
  BY <1>16 DEF RecvFind, DistType, Closed
<1>17. ASSUME NEW i \in Sockets, RecvGetSem(i) PROVE DistType'
  BY <1>17 DEF RecvGetSem, DistType
<1>18. ASSUME NEW i \in Sockets, RecvWait(i) PROVE DistType'
  BY <1>18 DEF RecvWait, DistType
<1>19. ASSUME NEW i \in Sockets, RecvStatus(i) PROVE DistType'
  BY <1>19 DEF RecvStatus, DistType, Closed
<1>20. ASSUME NEW i \in Sockets, RecvLookup(i) PROVE DistType'
  BY <1>20 DEF RecvLookup, DistType
<1>21. ASSUME NEW i \in Sockets, RecvPop(i) PROVE DistType'
  BY <1>21 DEF RecvPop, DistType
<1>22. ASSUME NEW i \in Sockets, Answer(i) PROVE DistType'
  BY <1>22 DEF Answer, DistType
<1>23. ASSUME NEW i \in Sockets, BadAccess(i) PROVE DistType'
  BY <1>23 DEF BadAccess, DistType
<1>24. ASSUME Lose PROVE DistType'
  BY <1>24 DEF Lose, DistType
<1> QED BY <1>1, <1>2, <1>3, <1>4, <1>5, <1>6, <1>7, <1>8, <1>9, <1>10, <1>11, <1>12, <1>13, <1>14, <1>15, <1>16, <1>17, <1>18, <1>19, <1>20, <1>21, <1>22, <1>23, <1>24, NextSteps

(* The accept thread. *)
LEMMA AcceptTypeStep ==
  ASSUME AcceptType, MapType, TakenInv, Next
  PROVE  AcceptType'
<1> USE DEF net, threads, cdist, cvars, acceptor, smaps, heap, serving, svars
<1>1. ASSUME NEW t \in Threads, ConnectSend(t) PROVE AcceptType'
  BY <1>1 DEF ConnectSend, AcceptType, Running
<1>2. ASSUME NEW t \in Threads, ConnectWait(t) PROVE AcceptType'
  BY <1>2 DEF ConnectWait, AcceptType, Running
<1>3. ASSUME NEW t \in Threads, ConnectRegister(t) PROVE AcceptType'
  BY <1>3 DEF ConnectRegister, AcceptType, Running
<1>4. ASSUME NEW t \in Threads, InsertId(t) PROVE AcceptType'
  BY <1>4 DEF InsertId, AcceptType, Running
<1>5. ASSUME NEW t \in Threads, Send(t) PROVE AcceptType'
  BY <1>5 DEF Send, AcceptType, Running
<1>6. ASSUME ClientListen PROVE AcceptType'
  BY <1>6 DEF ClientListen, AcceptType
<1>7. ASSUME ClientStop PROVE AcceptType'
  BY <1>7 DEF ClientStop, AcceptType
<1>8. ASSUME ClientClose PROVE AcceptType'
  BY <1>8 DEF ClientClose, AcceptType
<1>9. ASSUME ClientRestart PROVE AcceptType'
  BY <1>9 DEF ClientRestart, AcceptType
<1>10. ASSUME AcceptAnnounce PROVE AcceptType'
  <2>1. mfsockid' \in Sockets /\ apc' = "announced"
    BY <1>10, NextNumber
  <2>2. accept_sem' \in Nat
    BY <1>10 DEF AcceptAnnounce, AcceptType
  <2> QED BY <2>1, <2>2 DEF AcceptType
<1>11. ASSUME AcceptRegister PROVE AcceptType'
  BY <1>11 DEF AcceptRegister, AcceptType
<1>12. ASSUME ListenCreate PROVE AcceptType'
  BY <1>12 DEF ListenCreate, AcceptType, Arrives
<1>13. ASSUME ListenSock PROVE AcceptType'
  BY <1>13 DEF ListenSock, AcceptType, Arrives
<1>14. ASSUME ListenClose PROVE AcceptType'
  BY <1>14 DEF ListenClose, AcceptType, Arrives
<1>15. ASSUME CloseErase PROVE AcceptType'
  BY <1>15 DEF CloseErase, AcceptType
<1>16. ASSUME NEW i \in Sockets, RecvFind(i) PROVE AcceptType'
  BY <1>16 DEF RecvFind, AcceptType, Closed
<1>17. ASSUME NEW i \in Sockets, RecvGetSem(i) PROVE AcceptType'
  BY <1>17 DEF RecvGetSem, AcceptType
<1>18. ASSUME NEW i \in Sockets, RecvWait(i) PROVE AcceptType'
  BY <1>18 DEF RecvWait, AcceptType
<1>19. ASSUME NEW i \in Sockets, RecvStatus(i) PROVE AcceptType'
  BY <1>19 DEF RecvStatus, AcceptType, Closed
<1>20. ASSUME NEW i \in Sockets, RecvLookup(i) PROVE AcceptType'
  BY <1>20 DEF RecvLookup, AcceptType
<1>21. ASSUME NEW i \in Sockets, RecvPop(i) PROVE AcceptType'
  BY <1>21 DEF RecvPop, AcceptType
<1>22. ASSUME NEW i \in Sockets, Answer(i) PROVE AcceptType'
  BY <1>22 DEF Answer, AcceptType
<1>23. ASSUME NEW i \in Sockets, BadAccess(i) PROVE AcceptType'
  BY <1>23 DEF BadAccess, AcceptType
<1>24. ASSUME Lose PROVE AcceptType'
  BY <1>24 DEF Lose, AcceptType
<1> QED BY <1>1, <1>2, <1>3, <1>4, <1>5, <1>6, <1>7, <1>8, <1>9, <1>10, <1>11, <1>12, <1>13, <1>14, <1>15, <1>16, <1>17, <1>18, <1>19, <1>20, <1>21, <1>22, <1>23, <1>24, NextSteps

(* The server's maps. *)
LEMMA MapTypeStep ==
  ASSUME AcceptType, MapType, TakenInv, Next
  PROVE  MapType'
<1> USE DEF net, threads, cdist, cvars, acceptor, smaps, heap, serving, svars
<1>1. ASSUME NEW t \in Threads, ConnectSend(t) PROVE MapType'
  BY <1>1 DEF ConnectSend, MapType, Running
<1>2. ASSUME NEW t \in Threads, ConnectWait(t) PROVE MapType'
  BY <1>2 DEF ConnectWait, MapType, Running
<1>3. ASSUME NEW t \in Threads, ConnectRegister(t) PROVE MapType'
  BY <1>3 DEF ConnectRegister, MapType, Running
<1>4. ASSUME NEW t \in Threads, InsertId(t) PROVE MapType'
  BY <1>4 DEF InsertId, MapType, Running
<1>5. ASSUME NEW t \in Threads, Send(t) PROVE MapType'
  BY <1>5 DEF Send, MapType, Running
<1>6. ASSUME ClientListen PROVE MapType'
  BY <1>6 DEF ClientListen, MapType
<1>7. ASSUME ClientStop PROVE MapType'
  BY <1>7 DEF ClientStop, MapType
<1>8. ASSUME ClientClose PROVE MapType'
  BY <1>8 DEF ClientClose, MapType
<1>9. ASSUME ClientRestart PROVE MapType'
  BY <1>9 DEF ClientRestart, MapType
<1>10. ASSUME AcceptAnnounce PROVE MapType'
  BY <1>10 DEF AcceptAnnounce, MapType
<1>11. ASSUME AcceptRegister PROVE MapType'
  <2>1. mfsockid \in Sockets
    BY <1>11 DEF AcceptRegister, AcceptType, TakenInv
  <2> QED BY <1>11, <2>1 DEF AcceptRegister, MapType
<1>12. ASSUME ListenCreate PROVE MapType'
  BY <1>12 DEF ListenCreate, MapType, Arrives
<1>13. ASSUME ListenSock PROVE MapType'
  BY <1>13 DEF ListenSock, MapType, Arrives
<1>14. ASSUME ListenClose PROVE MapType'
  BY <1>14 DEF ListenClose, MapType, Arrives
<1>15. ASSUME CloseErase PROVE MapType'
  BY <1>15 DEF CloseErase, MapType
<1>16. ASSUME NEW i \in Sockets, RecvFind(i) PROVE MapType'
  BY <1>16 DEF RecvFind, MapType, Closed
<1>17. ASSUME NEW i \in Sockets, RecvGetSem(i) PROVE MapType'
  BY <1>17 DEF RecvGetSem, MapType
<1>18. ASSUME NEW i \in Sockets, RecvWait(i) PROVE MapType'
  BY <1>18 DEF RecvWait, MapType
<1>19. ASSUME NEW i \in Sockets, RecvStatus(i) PROVE MapType'
  BY <1>19 DEF RecvStatus, MapType, Closed
<1>20. ASSUME NEW i \in Sockets, RecvLookup(i) PROVE MapType'
  BY <1>20 DEF RecvLookup, MapType
<1>21. ASSUME NEW i \in Sockets, RecvPop(i) PROVE MapType'
  BY <1>21 DEF RecvPop, MapType
<1>22. ASSUME NEW i \in Sockets, Answer(i) PROVE MapType'
  BY <1>22 DEF Answer, MapType
<1>23. ASSUME NEW i \in Sockets, BadAccess(i) PROVE MapType'
  BY <1>23 DEF BadAccess, MapType
<1>24. ASSUME Lose PROVE MapType'
  BY <1>24 DEF Lose, MapType
<1> QED BY <1>1, <1>2, <1>3, <1>4, <1>5, <1>6, <1>7, <1>8, <1>9, <1>10, <1>11, <1>12, <1>13, <1>14, <1>15, <1>16, <1>17, <1>18, <1>19, <1>20, <1>21, <1>22, <1>23, <1>24, NextSteps

(* The server's heap. *)
LEMMA HeapTypeStep ==
  ASSUME NetType, MapType, HeapType, ToServerInv, Next
  PROVE  HeapType'
<1> USE DEF net, threads, cdist, cvars, acceptor, smaps, heap, serving, svars
<1>1. ASSUME NEW t \in Threads, ConnectSend(t) PROVE HeapType'
  BY <1>1 DEF ConnectSend, HeapType, Running
<1>2. ASSUME NEW t \in Threads, ConnectWait(t) PROVE HeapType'
  BY <1>2 DEF ConnectWait, HeapType, Running
<1>3. ASSUME NEW t \in Threads, ConnectRegister(t) PROVE HeapType'
  BY <1>3 DEF ConnectRegister, HeapType, Running
<1>4. ASSUME NEW t \in Threads, InsertId(t) PROVE HeapType'
  BY <1>4 DEF InsertId, HeapType, Running
<1>5. ASSUME NEW t \in Threads, Send(t) PROVE HeapType'
  BY <1>5 DEF Send, HeapType, Running
<1>6. ASSUME ClientListen PROVE HeapType'
  BY <1>6 DEF ClientListen, HeapType
<1>7. ASSUME ClientStop PROVE HeapType'
  BY <1>7 DEF ClientStop, HeapType
<1>8. ASSUME ClientClose PROVE HeapType'
  BY <1>8 DEF ClientClose, HeapType
<1>9. ASSUME ClientRestart PROVE HeapType'
  BY <1>9 DEF ClientRestart, HeapType
<1>10. ASSUME AcceptAnnounce PROVE HeapType'
  BY <1>10 DEF AcceptAnnounce, HeapType
<1>11. ASSUME AcceptRegister PROVE HeapType'
  <2>1. queue' \in [Sockets -> Seq(1 .. MaxMsgs)]
    <3>1. <<>> \in Seq(1 .. MaxMsgs)
      OBVIOUS
    <3>2. queue' = [queue EXCEPT ![mfsockid] = <<>>]
      BY <1>11 DEF AcceptRegister
    <3> QED BY <3>1, <3>2, Zenon DEF HeapType
  <2>2. queue_live' \in [Sockets -> BOOLEAN]
    BY <1>11 DEF AcceptRegister, HeapType
  <2>3. recv_sem' \in [Sockets -> Nat]
    BY <1>11 DEF AcceptRegister, HeapType
  <2> QED BY <2>1, <2>2, <2>3 DEF HeapType
<1>12. ASSUME ListenCreate PROVE HeapType'
  BY <1>12 DEF ListenCreate, HeapType, Arrives
<1>13. ASSUME ListenSock PROVE HeapType'
  <2>1. to_server # <<>> /\ Head(to_server).type = "sock" /\ UNCHANGED queue_live
    BY <1>13 DEF ListenSock, Arrives
  <2>2. /\ Head(to_server) = to_server[1] /\ 1 \in 1 .. Len(to_server)
        /\ to_server[1] \in Messages
    BY <2>1, HeadFacts DEF NetType
  <2>3. to_server[1].n \in 1 .. MaxMsgs
    BY <2>1, <2>2, MsgsAssumption DEF Messages, ToServerInv
  <2>4. CASE to_server[1].id \in sem_map
    <3> DEFINE i == to_server[1].id
    <3>1. i \in Sockets /\ queue[i] \in Seq(1 .. MaxMsgs) /\ recv_sem[i] \in Nat
      BY <2>4 DEF MapType, HeapType
    <3>2. /\ queue' = [queue EXCEPT ![i] = Append(@, to_server[1].n)]
          /\ recv_sem' = [recv_sem EXCEPT ![i] = @ + 1]
      BY <1>13, <2>2, <2>4 DEF ListenSock
    <3>3. Append(queue[i], to_server[1].n) \in Seq(1 .. MaxMsgs)
      BY <2>3, <3>1, AppendFacts
    <3>4. queue' \in [Sockets -> Seq(1 .. MaxMsgs)]
      BY <3>1, <3>2, <3>3 DEF HeapType
    <3>5. recv_sem' \in [Sockets -> Nat]
      BY <3>1, <3>2 DEF HeapType
    <3> QED BY <2>1, <3>4, <3>5 DEF HeapType
  <2>5. CASE to_server[1].id \notin sem_map
    BY <1>13, <2>1, <2>2, <2>5 DEF ListenSock, HeapType
  <2> QED BY <2>4, <2>5
<1>14. ASSUME ListenClose PROVE HeapType'
  <2>1. UNCHANGED <<queue, queue_live>>
    BY <1>14 DEF ListenClose
  <2>2. \/ UNCHANGED recv_sem
        \/ \E i \in sem_map : recv_sem' = [recv_sem EXCEPT ![i] = @ + 1]
    BY <1>14 DEF ListenClose
  <2>3. recv_sem' \in [Sockets -> Nat]
    <3>1. CASE UNCHANGED recv_sem
      BY <3>1 DEF HeapType
    <3>2. ASSUME NEW i \in sem_map, recv_sem' = [recv_sem EXCEPT ![i] = @ + 1]
          PROVE recv_sem' \in [Sockets -> Nat]
      <4>1. recv_sem[i] + 1 \in Nat /\ i \in Sockets
        BY DEF HeapType, MapType
      <4> QED BY <3>2, <4>1 DEF HeapType
    <3> QED BY <2>2, <3>1, <3>2
  <2> QED BY <2>1, <2>3 DEF HeapType
<1>15. ASSUME CloseErase PROVE HeapType'
  BY <1>15 DEF CloseErase, HeapType
<1>16. ASSUME NEW i \in Sockets, RecvFind(i) PROVE HeapType'
  BY <1>16 DEF RecvFind, HeapType, Closed
<1>17. ASSUME NEW i \in Sockets, RecvGetSem(i) PROVE HeapType'
  BY <1>17 DEF RecvGetSem, HeapType
<1>18. ASSUME NEW i \in Sockets, RecvWait(i) PROVE HeapType'
  BY <1>18 DEF RecvWait, HeapType
<1>19. ASSUME NEW i \in Sockets, RecvStatus(i) PROVE HeapType'
  BY <1>19 DEF RecvStatus, HeapType, Closed
<1>20. ASSUME NEW i \in Sockets, RecvLookup(i) PROVE HeapType'
  BY <1>20 DEF RecvLookup, HeapType
<1>21. ASSUME NEW i \in Sockets, RecvPop(i) PROVE HeapType'
  BY <1>21 DEF RecvPop, HeapType
<1>22. ASSUME NEW i \in Sockets, Answer(i) PROVE HeapType'
  BY <1>22 DEF Answer, HeapType
<1>23. ASSUME NEW i \in Sockets, BadAccess(i) PROVE HeapType'
  BY <1>23 DEF BadAccess, HeapType
<1>24. ASSUME Lose PROVE HeapType'
  BY <1>24 DEF Lose, HeapType
<1> QED BY <1>1, <1>2, <1>3, <1>4, <1>5, <1>6, <1>7, <1>8, <1>9, <1>10, <1>11, <1>12, <1>13, <1>14, <1>15, <1>16, <1>17, <1>18, <1>19, <1>20, <1>21, <1>22, <1>23, <1>24, NextSteps

(* The threads of the sockets. *)
LEMMA ServeTypeStep ==
  ASSUME HeapType, ServeType, Next
  PROVE  ServeType'
<1> USE DEF net, threads, cdist, cvars, acceptor, smaps, heap, serving, svars
<1>1. ASSUME NEW t \in Threads, ConnectSend(t) PROVE ServeType'
  BY <1>1 DEF ConnectSend, ServeType, SStates, Running
<1>2. ASSUME NEW t \in Threads, ConnectWait(t) PROVE ServeType'
  BY <1>2 DEF ConnectWait, ServeType, SStates, Running
<1>3. ASSUME NEW t \in Threads, ConnectRegister(t) PROVE ServeType'
  BY <1>3 DEF ConnectRegister, ServeType, SStates, Running
<1>4. ASSUME NEW t \in Threads, InsertId(t) PROVE ServeType'
  BY <1>4 DEF InsertId, ServeType, SStates, Running
<1>5. ASSUME NEW t \in Threads, Send(t) PROVE ServeType'
  BY <1>5 DEF Send, ServeType, SStates, Running
<1>6. ASSUME ClientListen PROVE ServeType'
  BY <1>6 DEF ClientListen, ServeType, SStates
<1>7. ASSUME ClientStop PROVE ServeType'
  BY <1>7 DEF ClientStop, ServeType, SStates
<1>8. ASSUME ClientClose PROVE ServeType'
  BY <1>8 DEF ClientClose, ServeType, SStates
<1>9. ASSUME ClientRestart PROVE ServeType'
  BY <1>9 DEF ClientRestart, ServeType, SStates
<1>10. ASSUME AcceptAnnounce PROVE ServeType'
  BY <1>10 DEF AcceptAnnounce, ServeType, SStates
<1>11. ASSUME AcceptRegister PROVE ServeType'
  BY <1>11 DEF AcceptRegister, ServeType, SStates
<1>12. ASSUME ListenCreate PROVE ServeType'
  BY <1>12 DEF ListenCreate, ServeType, SStates, Arrives
<1>13. ASSUME ListenSock PROVE ServeType'
  BY <1>13 DEF ListenSock, ServeType, SStates, Arrives
<1>14. ASSUME ListenClose PROVE ServeType'
  BY <1>14 DEF ListenClose, ServeType, SStates, Arrives
<1>15. ASSUME CloseErase PROVE ServeType'
  BY <1>15 DEF CloseErase, ServeType, SStates
<1>16. ASSUME NEW i \in Sockets, RecvFind(i) PROVE ServeType'
  BY <1>16 DEF RecvFind, ServeType, SStates, Closed
<1>17. ASSUME NEW i \in Sockets, RecvGetSem(i) PROVE ServeType'
  BY <1>17 DEF RecvGetSem, ServeType, SStates
<1>18. ASSUME NEW i \in Sockets, RecvWait(i) PROVE ServeType'
  BY <1>18 DEF RecvWait, ServeType, SStates
<1>19. ASSUME NEW i \in Sockets, RecvStatus(i) PROVE ServeType'
  BY <1>19 DEF RecvStatus, ServeType, SStates, Closed
<1>20. ASSUME NEW i \in Sockets, RecvLookup(i) PROVE ServeType'
  BY <1>20 DEF RecvLookup, ServeType, SStates
<1>21. ASSUME NEW i \in Sockets, RecvPop(i) PROVE ServeType'
  <2>1. queue[i] # <<>> /\ queue[i] \in Seq(1 .. MaxMsgs)
    BY <1>21 DEF RecvPop, HeapType
  <2>2. Head(queue[i]) \in 0 .. MaxMsgs
    BY <2>1, HeadFacts, MsgsAssumption
  <2> QED BY <1>21, <2>2 DEF RecvPop, ServeType, SStates
<1>22. ASSUME NEW i \in Sockets, Answer(i) PROVE ServeType'
  BY <1>22 DEF Answer, ServeType, SStates
<1>23. ASSUME NEW i \in Sockets, BadAccess(i) PROVE ServeType'
  BY <1>23 DEF BadAccess, ServeType, SStates
<1>24. ASSUME Lose PROVE ServeType'
  BY <1>24 DEF Lose, ServeType, SStates
<1> QED BY <1>1, <1>2, <1>3, <1>4, <1>5, <1>6, <1>7, <1>8, <1>9, <1>10, <1>11, <1>12, <1>13, <1>14, <1>15, <1>16, <1>17, <1>18, <1>19, <1>20, <1>21, <1>22, <1>23, <1>24, NextSteps

-----------------------------------------------------------------------------
(* Numbers that are not taken. *)
LEMMA TakenStep ==
  ASSUME ThreadType, NetType, DistType, AcceptType, MapType, HeapType, ServeType, TakenInv, Next
  PROVE  TakenInv'
<1> USE DEF net, threads, cdist, cvars, acceptor, smaps, heap, serving, svars
<1>1. ASSUME NEW t \in Threads, ConnectSend(t) PROVE TakenInv'
  BY <1>1 DEF ConnectSend, TakenInv, Taken
<1>2. ASSUME NEW t \in Threads, ConnectWait(t) PROVE TakenInv'
  BY <1>2 DEF ConnectWait, TakenInv, Taken
<1>3. ASSUME NEW t \in Threads, ConnectRegister(t) PROVE TakenInv'
  BY <1>3 DEF ConnectRegister, TakenInv, Taken
<1>4. ASSUME NEW t \in Threads, InsertId(t) PROVE TakenInv'
  BY <1>4 DEF InsertId, TakenInv, Taken
<1>5. ASSUME NEW t \in Threads, Send(t) PROVE TakenInv'
  BY <1>5 DEF Send, TakenInv, Taken
<1>6. ASSUME ClientListen PROVE TakenInv'
  BY <1>6 DEF ClientListen, TakenInv, Taken
<1>7. ASSUME ClientStop PROVE TakenInv'
  BY <1>7 DEF ClientStop, TakenInv, Taken
<1>8. ASSUME ClientClose PROVE TakenInv'
  BY <1>8 DEF ClientClose, TakenInv, Taken
<1>9. ASSUME ClientRestart PROVE TakenInv'
  BY <1>9 DEF ClientRestart, TakenInv, Taken
<1>10. ASSUME AcceptAnnounce PROVE TakenInv'
  <2>1. /\ mfsockid' = mfsockid + 1 /\ mfsockid \in Int /\ apc = "wait"
        /\ apc' = "announced"
    BY <1>10, NextNumber DEF AcceptType, Sockets
  <2>2. UNCHANGED <<sem_map, closing, received, queue, recv_sem, spc>>
    BY <1>10 DEF AcceptAnnounce
  <2>3. \A i \in Sockets : Taken(i)' <=> Taken(i)
    BY <2>1 DEF Taken, Sockets
  <2>4. mfsockid' # 0
    BY <2>1, <1>10, NextNumber DEF Sockets
  <2> QED BY <2>2, <2>3, <2>4 DEF TakenInv, MapType
<1>11. ASSUME AcceptRegister PROVE TakenInv'
  BY <1>11 DEF AcceptRegister, TakenInv, Taken
<1>12. ASSUME ListenCreate PROVE TakenInv'
  BY <1>12 DEF ListenCreate, TakenInv, Taken, Arrives
<1>13. ASSUME ListenSock PROVE TakenInv'
  <2>1. /\ UNCHANGED <<mfsockid, apc, sem_map, closing, received, spc>>
        /\ \A i \in Sockets : i \notin sem_map => queue'[i] = queue[i] /\ recv_sem'[i] = recv_sem[i]
    <3>1. UNCHANGED <<mfsockid, apc, sem_map, closing, received, spc>>
      BY <1>13 DEF ListenSock
    <3>2. \/ UNCHANGED <<queue, recv_sem>>
          \/ \E i \in sem_map :
               /\ \E n : queue' = [queue EXCEPT ![i] = n]
               /\ \E n : recv_sem' = [recv_sem EXCEPT ![i] = n]
      BY <1>13 DEF ListenSock
    <3> QED BY <3>1, <3>2 DEF MapType, HeapType
  <2> QED BY <2>1 DEF TakenInv, Taken
<1>14. ASSUME ListenClose PROVE TakenInv'
  <2>1. /\ UNCHANGED <<mfsockid, apc, sem_map, queue, received, spc>>
        /\ \A i \in Sockets : i \notin sem_map => recv_sem'[i] = recv_sem[i]
        /\ closing' # 0 => closing' \in sem_map
    <3>1. UNCHANGED <<mfsockid, apc, sem_map, queue, received, spc>>
      BY <1>14 DEF ListenClose
    <3>2. \/ UNCHANGED <<closing, recv_sem>>
          \/ \E i \in sem_map :
               closing' = i /\ \E n : recv_sem' = [recv_sem EXCEPT ![i] = n]
      BY <1>14 DEF ListenClose
    <3> QED BY <3>1, <3>2 DEF MapType, HeapType, TakenInv
  <2> QED BY <2>1 DEF TakenInv, Taken
<1>15. ASSUME CloseErase PROVE TakenInv'
  BY <1>15 DEF CloseErase, TakenInv, Taken
<1>16. ASSUME NEW i \in Sockets, RecvFind(i) PROVE TakenInv'
  <2>1. /\ spc[i] = "find" /\ UNCHANGED <<mfsockid, apc, sem_map, closing, queue, recv_sem, received>>
        /\ \A j \in Sockets : j # i => spc'[j] = spc[j]
    BY <1>16 DEF RecvFind, Closed, ServeType
  <2> QED BY <2>1 DEF TakenInv, Taken
<1>17. ASSUME NEW i \in Sockets, RecvGetSem(i) PROVE TakenInv'
  BY <1>17 DEF RecvGetSem, TakenInv, Taken
<1>18. ASSUME NEW i \in Sockets, RecvWait(i) PROVE TakenInv'
  BY <1>18 DEF RecvWait, TakenInv, Taken
<1>19. ASSUME NEW i \in Sockets, RecvStatus(i) PROVE TakenInv'
  <2>1. /\ spc[i] = "status" /\ UNCHANGED <<mfsockid, apc, sem_map, closing, queue, recv_sem, received>>
        /\ \A j \in Sockets : j # i => spc'[j] = spc[j]
    BY <1>19 DEF RecvStatus, Closed, ServeType
  <2> QED BY <2>1 DEF TakenInv, Taken
<1>20. ASSUME NEW i \in Sockets, RecvLookup(i) PROVE TakenInv'
  BY <1>20 DEF RecvLookup, TakenInv, Taken
<1>21. ASSUME NEW i \in Sockets, RecvPop(i) PROVE TakenInv'
  BY <1>21 DEF RecvPop, TakenInv, Taken
<1>22. ASSUME NEW i \in Sockets, Answer(i) PROVE TakenInv'
  BY <1>22 DEF Answer, TakenInv, Taken
<1>23. ASSUME NEW i \in Sockets, BadAccess(i) PROVE TakenInv'
  BY <1>23 DEF BadAccess, TakenInv, Taken
<1>24. ASSUME Lose PROVE TakenInv'
  BY <1>24 DEF Lose, TakenInv, Taken
<1> QED BY <1>1, <1>2, <1>3, <1>4, <1>5, <1>6, <1>7, <1>8, <1>9, <1>10, <1>11, <1>12, <1>13, <1>14, <1>15, <1>16, <1>17, <1>18, <1>19, <1>20, <1>21, <1>22, <1>23, <1>24, NextSteps

(* Numbers on their way to the client. *)
LEMMA WireStep ==
  ASSUME ThreadType, NetType, DistType, AcceptType, MapType, HeapType, ServeType, TakenInv, WireInv, QueueInv, SockInv, Next
  PROVE  WireInv'
<1> USE DEF net, threads, cdist, cvars, acceptor, smaps, heap, serving, svars
<1>1. ASSUME NEW t \in Threads, ConnectSend(t) PROVE WireInv'
  BY <1>1, ZenonT(60) DEF ConnectSend, WireInv, Accepted
<1>2. ASSUME NEW t \in Threads, ConnectWait(t) PROVE WireInv'
  <2>1. UNCHANGED <<to_client, mfsockid>>
    BY <1>2 DEF ConnectWait
  <2>2. SUFFICES ASSUME NEW p \in 1 .. Len(to_client), Accepted(p)
        PROVE  /\ \A q \in 1 .. Len(connect_queue') : to_client[p].id # connect_queue'[q]
               /\ \A u \in Threads : to_client[p].id # sock'[u]
    BY <2>1, SMTT(30) DEF WireInv, Accepted
  <2>3. /\ \A q \in 1 .. Len(connect_queue) : to_client[p].id # connect_queue[q]
        /\ \A u \in Threads : to_client[p].id # sock[u]
    BY <2>2 DEF WireInv
  <2>4. \A u \in Threads : sock'[u] = sock[u] \/ sock'[u] = connect_queue[1]
    BY <1>2, WaitFacts DEF ThreadType
  <2> QED BY <1>2, <2>3, <2>4, WaitFacts
<1>3. ASSUME NEW t \in Threads, ConnectRegister(t) PROVE WireInv'
  BY <1>3 DEF ConnectRegister, WireInv, Accepted
<1>4. ASSUME NEW t \in Threads, InsertId(t) PROVE WireInv'
  BY <1>4 DEF InsertId, WireInv, Accepted
<1>5. ASSUME NEW t \in Threads, Send(t) PROVE WireInv'
  BY <1>5 DEF Send, WireInv, Accepted
<1>6. ASSUME ClientListen PROVE WireInv'
  <2>1. /\ to_client # <<>> /\ to_client' = Tail(to_client)
        /\ UNCHANGED <<sock, mfsockid>>
    BY <1>6, ListenFacts
  <2>2. SUFFICES ASSUME NEW p \in 1 .. Len(to_client'), Accepted(p)'
        PROVE  /\ to_client'[p].id \in 1 .. mfsockid
               /\ \A q \in 1 .. Len(to_client') :
                    q # p /\ Accepted(q)' => to_client'[p].id # to_client'[q].id
               /\ \A q \in 1 .. Len(connect_queue') : to_client'[p].id # connect_queue'[q]
               /\ \A u \in Threads : to_client'[p].id # sock[u]
    BY <2>1 DEF WireInv
  <2>3. /\ p + 1 \in 1 .. Len(to_client) /\ to_client'[p] = to_client[p + 1] /\ p + 1 # 1
        /\ Accepted(p + 1) /\ 1 \in 1 .. Len(to_client)
        /\ \A q \in 1 .. Len(to_client') : q # p /\ Accepted(q)' =>
             /\ q + 1 \in 1 .. Len(to_client) /\ Accepted(q + 1) /\ q + 1 # p + 1
             /\ to_client'[q] = to_client[q + 1]
    BY <2>1, <2>2, ClientHead DEF Accepted
  <2>4. \A q \in 1 .. Len(connect_queue') : to_client[p + 1].id # connect_queue'[q]
    <3>1. CASE UNCHANGED connect_queue
      BY <2>3, <3>1 DEF WireInv
    <3>2. CASE /\ to_client[1].type = "accepted"
               /\ connect_queue' = Append(connect_queue, to_client[1].id)
      <4>1. to_client[p + 1].id # to_client[1].id /\ to_client[1].id \in 1 .. mfsockid
        BY <2>3, <3>2 DEF WireInv, Accepted
      <4>2. to_client[1].id \in Sockets
        BY <4>1, SocketsAssumption DEF AcceptType, Sockets
      <4>3. \A q \in 1 .. Len(connect_queue') :
              \/ q \in 1 .. Len(connect_queue) /\ connect_queue'[q] = connect_queue[q]
              \/ connect_queue'[q] = to_client[1].id
        BY <3>2, <4>2, AppendFacts DEF DistType
      <4> QED BY <2>3, <4>1, <4>3 DEF WireInv
    <3> QED BY <1>6, <3>1, <3>2, ListenFacts
  <2>5. /\ to_client[p + 1].id \in 1 .. mfsockid
        /\ \A q \in 1 .. Len(to_client) :
             q # p + 1 /\ Accepted(q) => to_client[p + 1].id # to_client[q].id
        /\ \A u \in Threads : to_client[p + 1].id # sock[u]
    BY <2>3 DEF WireInv
  <2>6. ASSUME NEW q \in 1 .. Len(to_client'), q # p, Accepted(q)'
        PROVE  to_client'[p].id # to_client'[q].id
    BY <2>3, <2>5, <2>6, Zenon
  <2> QED BY <2>3, <2>4, <2>5, <2>6, Zenon
<1>7. ASSUME ClientStop PROVE WireInv'
  BY <1>7 DEF ClientStop, WireInv, Accepted
<1>8. ASSUME ClientClose PROVE WireInv'
  BY <1>8 DEF ClientClose, WireInv, Accepted
<1>9. ASSUME ClientRestart PROVE WireInv'
  BY <1>9 DEF ClientRestart, WireInv, Accepted
<1>10. ASSUME AcceptAnnounce PROVE WireInv'
  <2>1. /\ mfsockid' = mfsockid + 1 /\ mfsockid' \in Sockets /\ mfsockid \in Nat
        /\ to_client' = Append(to_client, Msg("accepted", mfsockid', 0))
        /\ UNCHANGED <<connect_queue, sock>>
    BY <1>10, NextNumber DEF AcceptAnnounce, AcceptType, Sockets
  <2>2. /\ Len(to_client') = Len(to_client) + 1 /\ Len(to_client) \in Nat
        /\ to_client'[Len(to_client) + 1] = Msg("accepted", mfsockid', 0)
        /\ \A p \in 1 .. Len(to_client) : to_client'[p] = to_client[p]
    BY <2>1, MsgFacts, AppendFacts DEF NetType
  <2>3. ASSUME NEW p \in 1 .. Len(to_client'), Accepted(p)'
        PROVE  IF p \in 1 .. Len(to_client) THEN Accepted(p) /\ to_client'[p] = to_client[p]
               ELSE p = Len(to_client) + 1 /\ to_client'[p].id = mfsockid + 1
    BY <2>1, <2>2, <2>3 DEF Accepted, Msg
  <2>4. \A p \in 1 .. Len(to_client) : Accepted(p) => to_client[p].id \in 1 .. mfsockid
    BY DEF WireInv
  <2>5. \A p, q \in 1 .. Len(to_client) :
          q # p /\ Accepted(p) /\ Accepted(q) => to_client[p].id # to_client[q].id
    BY DEF WireInv
  <2>6. ASSUME NEW p \in 1 .. Len(to_client'), Accepted(p)'
        PROVE  /\ to_client'[p].id \in 1 .. mfsockid'
               /\ \A q \in 1 .. Len(to_client') :
                    q # p /\ Accepted(q)' => to_client'[p].id # to_client'[q].id
    <3>1. to_client'[p].id \in 1 .. mfsockid'
      BY <2>1, <2>3, <2>4, <2>6
    <3>2. ASSUME NEW q \in 1 .. Len(to_client'), q # p, Accepted(q)'
          PROVE  to_client'[p].id # to_client'[q].id
      BY <2>1, <2>3, <2>4, <2>5, <2>6, <3>2
    <3> QED BY <3>1, <3>2
  <2>7. ASSUME NEW p \in 1 .. Len(to_client'), Accepted(p)'
        PROVE  /\ \A q \in 1 .. Len(connect_queue) : to_client'[p].id # connect_queue[q]
               /\ \A t \in Threads : to_client'[p].id # sock[t]
    <3>1. CASE p \in 1 .. Len(to_client)
      BY <2>3, <2>7, <3>1 DEF WireInv
    <3>2. CASE p \notin 1 .. Len(to_client)
      <4>1. to_client'[p].id = mfsockid + 1
        BY <2>3, <2>7, <3>2
      <4>2. \A q \in 1 .. Len(connect_queue) : connect_queue[q] \in 1 .. mfsockid
        BY DEF QueueInv
      <4>3. \A t \in Threads : sock[t] \in 0 .. mfsockid
        BY DEF SockInv
      <4> QED BY <2>1, <4>1, <4>2, <4>3
    <3> QED BY <3>1, <3>2
  <2> QED BY <2>1, <2>6, <2>7 DEF WireInv
<1>11. ASSUME AcceptRegister PROVE WireInv'
  BY <1>11 DEF AcceptRegister, WireInv, Accepted
<1>12. ASSUME ListenCreate PROVE WireInv'
  BY <1>12 DEF ListenCreate, WireInv, Accepted, Arrives
<1>13. ASSUME ListenSock PROVE WireInv'
  BY <1>13 DEF ListenSock, WireInv, Accepted, Arrives
<1>14. ASSUME ListenClose PROVE WireInv'
  BY <1>14 DEF ListenClose, WireInv, Accepted, Arrives
<1>15. ASSUME CloseErase PROVE WireInv'
  BY <1>15 DEF CloseErase, WireInv, Accepted
<1>16. ASSUME NEW i \in Sockets, RecvFind(i) PROVE WireInv'
  BY <1>16 DEF RecvFind, WireInv, Accepted, Closed
<1>17. ASSUME NEW i \in Sockets, RecvGetSem(i) PROVE WireInv'
  BY <1>17 DEF RecvGetSem, WireInv, Accepted
<1>18. ASSUME NEW i \in Sockets, RecvWait(i) PROVE WireInv'
  BY <1>18 DEF RecvWait, WireInv, Accepted
<1>19. ASSUME NEW i \in Sockets, RecvStatus(i) PROVE WireInv'
  BY <1>19 DEF RecvStatus, WireInv, Accepted, Closed
<1>20. ASSUME NEW i \in Sockets, RecvLookup(i) PROVE WireInv'
  BY <1>20 DEF RecvLookup, WireInv, Accepted
<1>21. ASSUME NEW i \in Sockets, RecvPop(i) PROVE WireInv'
  BY <1>21 DEF RecvPop, WireInv, Accepted
<1>22. ASSUME NEW i \in Sockets, Answer(i) PROVE WireInv'
  <2>1. /\ UNCHANGED <<connect_queue, sock, mfsockid>>
        /\ to_client' = to_client \/ to_client' = Append(to_client, Msg("sock", i, 1))
    BY <1>22 DEF Answer
  <2>2. CASE to_client' = to_client
    BY <2>1, <2>2 DEF WireInv, Accepted
  <2>3. CASE to_client' = Append(to_client, Msg("sock", i, 1))
    <3>1. /\ Len(to_client') = Len(to_client) + 1 /\ Len(to_client) \in Nat
          /\ to_client'[Len(to_client) + 1] = Msg("sock", i, 1)
          /\ \A p \in 1 .. Len(to_client) : to_client'[p] = to_client[p]
      BY <2>3, MsgFacts, AppendFacts DEF NetType
    <3>2. \A p \in 1 .. Len(to_client') : Accepted(p)' =>
            p \in 1 .. Len(to_client) /\ Accepted(p) /\ to_client'[p] = to_client[p]
      BY <3>1 DEF Accepted, Msg
    <3> QED BY <2>1, <3>2, SMTT(60) DEF WireInv
  <2> QED BY <2>1, <2>2, <2>3
<1>23. ASSUME NEW i \in Sockets, BadAccess(i) PROVE WireInv'
  BY <1>23 DEF BadAccess, WireInv, Accepted
<1>24. ASSUME Lose PROVE WireInv'
  <2>1. UNCHANGED <<connect_queue, sock, mfsockid>>
    BY <1>24 DEF Lose
  <2>2. CASE to_client' = to_client
    BY <2>1, <2>2 DEF WireInv, Accepted
  <2>3. CASE to_client # <<>> /\ to_client' = Tail(to_client)
    <3>1. \A p \in 1 .. Len(to_client') :
            /\ p + 1 \in 1 .. Len(to_client) /\ to_client'[p] = to_client[p + 1]
            /\ Accepted(p)' => Accepted(p + 1)
      BY <2>3, ClientHead DEF Accepted
    <3>2. \A p, q \in 1 .. Len(to_client') : p # q => p + 1 # q + 1
      OBVIOUS
    <3>3. \A p \in 1 .. Len(to_client') : Accepted(p)' =>
            /\ to_client'[p].id \in 1 .. mfsockid
            /\ \A q \in 1 .. Len(connect_queue) : to_client'[p].id # connect_queue[q]
            /\ \A t \in Threads : to_client'[p].id # sock[t]
      BY <3>1 DEF WireInv
    <3>4. \A p, q \in 1 .. Len(to_client') :
            q # p /\ Accepted(p)' /\ Accepted(q)' => to_client'[p].id # to_client'[q].id
      BY <3>1, <3>2, SMTT(30) DEF WireInv
    <3> QED BY <2>1, <3>3, <3>4 DEF WireInv
  <2> QED BY <1>24, <2>2, <2>3 DEF Lose
<1> QED BY <1>1, <1>2, <1>3, <1>4, <1>5, <1>6, <1>7, <1>8, <1>9, <1>10, <1>11, <1>12, <1>13, <1>14, <1>15, <1>16, <1>17, <1>18, <1>19, <1>20, <1>21, <1>22, <1>23, <1>24, NextSteps

(* Numbers in connect_queue. *)
LEMMA QueueStep ==
  ASSUME ThreadType, NetType, DistType, AcceptType, MapType, HeapType, ServeType, TakenInv, WireInv, QueueInv, SockInv, Next
  PROVE  QueueInv'
<1> USE DEF net, threads, cdist, cvars, acceptor, smaps, heap, serving, svars
<1>1. ASSUME NEW t \in Threads, ConnectSend(t) PROVE QueueInv'
  BY <1>1 DEF ConnectSend, QueueInv
<1>2. ASSUME NEW t \in Threads, ConnectWait(t) PROVE QueueInv'
  <2>1. mfsockid' = mfsockid /\ connect_sem' = Len(connect_queue')
    BY <1>2, WaitFacts DEF QueueInv
  <2>2. \A u \in Threads : sock'[u] = sock[u] \/ sock'[u] = connect_queue[1]
    BY <1>2, WaitFacts DEF ThreadType
  <2>3. ASSUME NEW p \in 1 .. Len(connect_queue')
        PROVE  /\ connect_queue'[p] \in 1 .. mfsockid
               /\ \A q \in 1 .. Len(connect_queue') :
                    q # p => connect_queue'[p] # connect_queue'[q]
               /\ \A u \in Threads : connect_queue'[p] # sock'[u]
    <3>1. /\ p + 1 \in 1 .. Len(connect_queue) /\ connect_queue'[p] = connect_queue[p + 1]
          /\ p + 1 # 1 /\ 1 \in 1 .. Len(connect_queue)
      BY <1>2, WaitFacts
    <3>2. \A q \in 1 .. Len(connect_queue') :
            /\ q + 1 \in 1 .. Len(connect_queue) /\ connect_queue'[q] = connect_queue[q + 1]
            /\ q # p => q + 1 # p + 1
      BY <1>2, WaitFacts
    <3>3. connect_queue[p + 1] # connect_queue[1]
      BY <3>1 DEF QueueInv
    <3> QED BY <2>2, <3>1, <3>2, <3>3 DEF QueueInv
  <2> QED BY <2>1, <2>3 DEF QueueInv
<1>3. ASSUME NEW t \in Threads, ConnectRegister(t) PROVE QueueInv'
  BY <1>3 DEF ConnectRegister, QueueInv
<1>4. ASSUME NEW t \in Threads, InsertId(t) PROVE QueueInv'
  BY <1>4 DEF InsertId, QueueInv
<1>5. ASSUME NEW t \in Threads, Send(t) PROVE QueueInv'
  BY <1>5 DEF Send, QueueInv
<1>6. ASSUME ClientListen PROVE QueueInv'
  <2>1. to_client # <<>> /\ UNCHANGED <<sock, mfsockid>>
    BY <1>6, ListenFacts
  <2>2. CASE UNCHANGED <<connect_queue, connect_sem>>
    BY <2>1, <2>2 DEF QueueInv
  <2>3. CASE /\ to_client[1].type = "accepted" /\ connect_sem' = connect_sem + 1
             /\ connect_queue' = Append(connect_queue, to_client[1].id)
    <3> DEFINE n == to_client[1].id
    <3>1. /\ n \in 1 .. mfsockid /\ \A t \in Threads : n # sock[t]
          /\ \A q \in 1 .. Len(connect_queue) : n # connect_queue[q]
      BY <2>1, <2>3, ClientHead DEF WireInv, Accepted
    <3>2. n \in Sockets
      BY <3>1, SocketsAssumption DEF AcceptType, Sockets
    <3>3. /\ Len(connect_queue') = Len(connect_queue) + 1 /\ Len(connect_queue) \in Nat
          /\ connect_queue'[Len(connect_queue) + 1] = n
          /\ \A p \in 1 .. Len(connect_queue) : connect_queue'[p] = connect_queue[p]
      BY <2>3, <3>2, AppendFacts DEF DistType
    <3> HIDE DEF n
    <3>4. connect_sem' = Len(connect_queue')
      BY <2>3, <3>3 DEF QueueInv
    <3>5. \A p \in 1 .. Len(connect_queue') :
            \/ p \in 1 .. Len(connect_queue) /\ connect_queue'[p] = connect_queue[p]
            \/ p = Len(connect_queue) + 1 /\ connect_queue'[p] = n
      BY <3>3
    <3>6. \A p \in 1 .. Len(connect_queue') :
            /\ connect_queue'[p] \in 1 .. mfsockid
            /\ \A t \in Threads : connect_queue'[p] # sock[t]
      BY <3>1, <3>5 DEF QueueInv
    <3>7. \A p, q \in 1 .. Len(connect_queue') :
            q # p => connect_queue'[p] # connect_queue'[q]
      BY <3>1, <3>5 DEF QueueInv
    <3> QED BY <2>1, <3>4, <3>6, <3>7 DEF QueueInv
  <2> QED BY <1>6, <2>2, <2>3, ListenFacts
<1>7. ASSUME ClientStop PROVE QueueInv'
  BY <1>7 DEF ClientStop, QueueInv
<1>8. ASSUME ClientClose PROVE QueueInv'
  BY <1>8 DEF ClientClose, QueueInv
<1>9. ASSUME ClientRestart PROVE QueueInv'
  BY <1>9 DEF ClientRestart, QueueInv
<1>10. ASSUME AcceptAnnounce PROVE QueueInv'
  <2>1. mfsockid' = mfsockid + 1 /\ mfsockid \in Nat /\ UNCHANGED <<connect_sem, connect_queue, sock>>
    BY <1>10, NextNumber DEF AcceptAnnounce, AcceptType, Sockets
  <2>2. \A n \in 1 .. mfsockid : n \in 1 .. mfsockid'
    BY <2>1
  <2> QED BY <2>1, <2>2 DEF QueueInv
<1>11. ASSUME AcceptRegister PROVE QueueInv'
  BY <1>11 DEF AcceptRegister, QueueInv
<1>12. ASSUME ListenCreate PROVE QueueInv'
  BY <1>12 DEF ListenCreate, QueueInv, Arrives
<1>13. ASSUME ListenSock PROVE QueueInv'
  BY <1>13 DEF ListenSock, QueueInv, Arrives
<1>14. ASSUME ListenClose PROVE QueueInv'
  BY <1>14 DEF ListenClose, QueueInv, Arrives
<1>15. ASSUME CloseErase PROVE QueueInv'
  BY <1>15 DEF CloseErase, QueueInv
<1>16. ASSUME NEW i \in Sockets, RecvFind(i) PROVE QueueInv'
  BY <1>16 DEF RecvFind, QueueInv, Closed
<1>17. ASSUME NEW i \in Sockets, RecvGetSem(i) PROVE QueueInv'
  BY <1>17 DEF RecvGetSem, QueueInv
<1>18. ASSUME NEW i \in Sockets, RecvWait(i) PROVE QueueInv'
  BY <1>18 DEF RecvWait, QueueInv
<1>19. ASSUME NEW i \in Sockets, RecvStatus(i) PROVE QueueInv'
  BY <1>19 DEF RecvStatus, QueueInv, Closed
<1>20. ASSUME NEW i \in Sockets, RecvLookup(i) PROVE QueueInv'
  BY <1>20 DEF RecvLookup, QueueInv
<1>21. ASSUME NEW i \in Sockets, RecvPop(i) PROVE QueueInv'
  BY <1>21 DEF RecvPop, QueueInv
<1>22. ASSUME NEW i \in Sockets, Answer(i) PROVE QueueInv'
  BY <1>22 DEF Answer, QueueInv
<1>23. ASSUME NEW i \in Sockets, BadAccess(i) PROVE QueueInv'
  BY <1>23 DEF BadAccess, QueueInv
<1>24. ASSUME Lose PROVE QueueInv'
  BY <1>24 DEF Lose, QueueInv
<1> QED BY <1>1, <1>2, <1>3, <1>4, <1>5, <1>6, <1>7, <1>8, <1>9, <1>10, <1>11, <1>12, <1>13, <1>14, <1>15, <1>16, <1>17, <1>18, <1>19, <1>20, <1>21, <1>22, <1>23, <1>24, NextSteps

(* Numbers of the threads. *)
LEMMA SockStep ==
  ASSUME ThreadType, NetType, DistType, AcceptType, MapType, HeapType, ServeType, TakenInv, QueueInv, SockInv, Next
  PROVE  SockInv'
<1> USE DEF net, threads, cdist, cvars, acceptor, smaps, heap, serving, svars
<1>1. ASSUME NEW t \in Threads, ConnectSend(t) PROVE SockInv'
  BY <1>1 DEF ConnectSend, SockInv
<1>2. ASSUME NEW t \in Threads, ConnectWait(t) PROVE SockInv'
  <2>1. connect_queue[1] \in 1 .. mfsockid
    BY <1>2, WaitFacts DEF QueueInv
  <2>2. connect_queue[1] \in 0 .. mfsockid
    BY <2>1
  <2> QED BY <1>2, <2>2, WaitFacts DEF SockInv, ThreadType
<1>3. ASSUME NEW t \in Threads, ConnectRegister(t) PROVE SockInv'
  BY <1>3 DEF ConnectRegister, SockInv
<1>4. ASSUME NEW t \in Threads, InsertId(t) PROVE SockInv'
  BY <1>4 DEF InsertId, SockInv
<1>5. ASSUME NEW t \in Threads, Send(t) PROVE SockInv'
  BY <1>5 DEF Send, SockInv
<1>6. ASSUME ClientListen PROVE SockInv'
  BY <1>6 DEF ClientListen, SockInv
<1>7. ASSUME ClientStop PROVE SockInv'
  BY <1>7 DEF ClientStop, SockInv
<1>8. ASSUME ClientClose PROVE SockInv'
  BY <1>8 DEF ClientClose, SockInv
<1>9. ASSUME ClientRestart PROVE SockInv'
  BY <1>9 DEF ClientRestart, SockInv
<1>10. ASSUME AcceptAnnounce PROVE SockInv'
  <2>1. mfsockid' = mfsockid + 1 /\ mfsockid \in Nat /\ UNCHANGED sock
    BY <1>10, NextNumber DEF AcceptAnnounce, AcceptType, Sockets
  <2>2. \A n \in 0 .. mfsockid : n \in 0 .. mfsockid'
    BY <2>1
  <2> QED BY <2>1, <2>2 DEF SockInv
<1>11. ASSUME AcceptRegister PROVE SockInv'
  BY <1>11 DEF AcceptRegister, SockInv
<1>12. ASSUME ListenCreate PROVE SockInv'
  BY <1>12 DEF ListenCreate, SockInv, Arrives
<1>13. ASSUME ListenSock PROVE SockInv'
  BY <1>13 DEF ListenSock, SockInv, Arrives
<1>14. ASSUME ListenClose PROVE SockInv'
  BY <1>14 DEF ListenClose, SockInv, Arrives
<1>15. ASSUME CloseErase PROVE SockInv'
  BY <1>15 DEF CloseErase, SockInv
<1>16. ASSUME NEW i \in Sockets, RecvFind(i) PROVE SockInv'
  BY <1>16 DEF RecvFind, SockInv, Closed
<1>17. ASSUME NEW i \in Sockets, RecvGetSem(i) PROVE SockInv'
  BY <1>17 DEF RecvGetSem, SockInv
<1>18. ASSUME NEW i \in Sockets, RecvWait(i) PROVE SockInv'
  BY <1>18 DEF RecvWait, SockInv
<1>19. ASSUME NEW i \in Sockets, RecvStatus(i) PROVE SockInv'
  BY <1>19 DEF RecvStatus, SockInv, Closed
<1>20. ASSUME NEW i \in Sockets, RecvLookup(i) PROVE SockInv'
  BY <1>20 DEF RecvLookup, SockInv
<1>21. ASSUME NEW i \in Sockets, RecvPop(i) PROVE SockInv'
  BY <1>21 DEF RecvPop, SockInv
<1>22. ASSUME NEW i \in Sockets, Answer(i) PROVE SockInv'
  BY <1>22 DEF Answer, SockInv
<1>23. ASSUME NEW i \in Sockets, BadAccess(i) PROVE SockInv'
  BY <1>23 DEF BadAccess, SockInv
<1>24. ASSUME Lose PROVE SockInv'
  BY <1>24 DEF Lose, SockInv
<1> QED BY <1>1, <1>2, <1>3, <1>4, <1>5, <1>6, <1>7, <1>8, <1>9, <1>10, <1>11, <1>12, <1>13, <1>14, <1>15, <1>16, <1>17, <1>18, <1>19, <1>20, <1>21, <1>22, <1>23, <1>24, NextSteps

(* Two threads never have the same number. *)
LEMMA OwnerStep ==
  ASSUME ThreadType, NetType, DistType, AcceptType, MapType, HeapType, ServeType, QueueInv, OneOwner, Next
  PROVE  OneOwner'
<1> USE DEF net, threads, cdist, cvars, acceptor, smaps, heap, serving, svars
<1>1. ASSUME NEW t \in Threads, ConnectSend(t) PROVE OneOwner'
  BY <1>1 DEF ConnectSend, OneOwner
<1>2. ASSUME NEW t \in Threads, ConnectWait(t) PROVE OneOwner'
  <2>1. /\ sock' = [sock EXCEPT ![t] = connect_queue[1]]
        /\ \A u \in Threads : connect_queue[1] # sock[u]
    BY <1>2, WaitFacts DEF QueueInv
  <2> QED BY <2>1 DEF OneOwner, ThreadType
<1>3. ASSUME NEW t \in Threads, ConnectRegister(t) PROVE OneOwner'
  BY <1>3 DEF ConnectRegister, OneOwner
<1>4. ASSUME NEW t \in Threads, InsertId(t) PROVE OneOwner'
  BY <1>4 DEF InsertId, OneOwner
<1>5. ASSUME NEW t \in Threads, Send(t) PROVE OneOwner'
  BY <1>5 DEF Send, OneOwner
<1>6. ASSUME ClientListen PROVE OneOwner'
  BY <1>6 DEF ClientListen, OneOwner
<1>7. ASSUME ClientStop PROVE OneOwner'
  BY <1>7 DEF ClientStop, OneOwner
<1>8. ASSUME ClientClose PROVE OneOwner'
  BY <1>8 DEF ClientClose, OneOwner
<1>9. ASSUME ClientRestart PROVE OneOwner'
  BY <1>9 DEF ClientRestart, OneOwner
<1>10. ASSUME AcceptAnnounce PROVE OneOwner'
  BY <1>10 DEF AcceptAnnounce, OneOwner
<1>11. ASSUME AcceptRegister PROVE OneOwner'
  BY <1>11 DEF AcceptRegister, OneOwner
<1>12. ASSUME ListenCreate PROVE OneOwner'
  BY <1>12 DEF ListenCreate, OneOwner, Arrives
<1>13. ASSUME ListenSock PROVE OneOwner'
  BY <1>13 DEF ListenSock, OneOwner, Arrives
<1>14. ASSUME ListenClose PROVE OneOwner'
  BY <1>14 DEF ListenClose, OneOwner, Arrives
<1>15. ASSUME CloseErase PROVE OneOwner'
  BY <1>15 DEF CloseErase, OneOwner
<1>16. ASSUME NEW i \in Sockets, RecvFind(i) PROVE OneOwner'
  BY <1>16 DEF RecvFind, OneOwner, Closed
<1>17. ASSUME NEW i \in Sockets, RecvGetSem(i) PROVE OneOwner'
  BY <1>17 DEF RecvGetSem, OneOwner
<1>18. ASSUME NEW i \in Sockets, RecvWait(i) PROVE OneOwner'
  BY <1>18 DEF RecvWait, OneOwner
<1>19. ASSUME NEW i \in Sockets, RecvStatus(i) PROVE OneOwner'
  BY <1>19 DEF RecvStatus, OneOwner, Closed
<1>20. ASSUME NEW i \in Sockets, RecvLookup(i) PROVE OneOwner'
  BY <1>20 DEF RecvLookup, OneOwner
<1>21. ASSUME NEW i \in Sockets, RecvPop(i) PROVE OneOwner'
  BY <1>21 DEF RecvPop, OneOwner
<1>22. ASSUME NEW i \in Sockets, Answer(i) PROVE OneOwner'
  BY <1>22 DEF Answer, OneOwner
<1>23. ASSUME NEW i \in Sockets, BadAccess(i) PROVE OneOwner'
  BY <1>23 DEF BadAccess, OneOwner
<1>24. ASSUME Lose PROVE OneOwner'
  BY <1>24 DEF Lose, OneOwner
<1> QED BY <1>1, <1>2, <1>3, <1>4, <1>5, <1>6, <1>7, <1>8, <1>9, <1>10, <1>11, <1>12, <1>13, <1>14, <1>15, <1>16, <1>17, <1>18, <1>19, <1>20, <1>21, <1>22, <1>23, <1>24, NextSteps

(* How far the threads are. *)
LEMMA ThreadStep ==
  ASSUME ThreadType, NetType, DistType, AcceptType, MapType, HeapType, ServeType, QueueInv, SockInv, ThreadInv, Next
  PROVE  ThreadInv'
<1> USE DEF net, threads, cdist, cvars, acceptor, smaps, heap, serving, svars
<1>1. ASSUME NEW t \in Threads, ConnectSend(t) PROVE ThreadInv'
  <2>1. /\ cpc[t] = "idle" /\ cpc' = [cpc EXCEPT ![t] = "waiting"] /\ ProcessOf[t] = process
        /\ UNCHANGED <<process, client, sock, sent, c_open>>
    BY <1>1 DEF ConnectSend, Running
  <2> QED BY <2>1, ProcessAssumption DEF ThreadType, ThreadInv, Running
<1>2. ASSUME NEW t \in Threads, ConnectWait(t) PROVE ThreadInv'
  <2>1. /\ cpc[t] = "waiting" /\ cpc' = [cpc EXCEPT ![t] = "got"] /\ ProcessOf[t] = process
        /\ UNCHANGED <<process, client, sent, c_open>>
        /\ sock' = [sock EXCEPT ![t] = connect_queue[1]]
    BY <1>2, WaitFacts DEF ConnectWait, Running
  <2>2. connect_queue[1] # 0
    BY <1>2, WaitFacts DEF Sockets
  <2> QED BY <2>1, <2>2, ProcessAssumption DEF ThreadType, ThreadInv, Running
<1>3. ASSUME NEW t \in Threads, ConnectRegister(t) PROVE ThreadInv'
  BY <1>3 DEF ConnectRegister, ThreadInv, Running
<1>4. ASSUME NEW t \in Threads, InsertId(t) PROVE ThreadInv'
  BY <1>4 DEF InsertId, ThreadInv, Running
<1>5. ASSUME NEW t \in Threads, Send(t) PROVE ThreadInv'
  <2>1. /\ cpc[t] \in {"inserted", "up"} /\ cpc' = [cpc EXCEPT ![t] = "up"]
        /\ sent' = [sent EXCEPT ![t] = @ + 1] /\ ProcessOf[t] = process
        /\ UNCHANGED <<process, client, sock, c_open>>
    BY <1>5 DEF Send, Running
  <2> QED BY <2>1, ProcessAssumption DEF ThreadType, ThreadInv, Running
<1>6. ASSUME ClientListen PROVE ThreadInv'
  BY <1>6 DEF ClientListen, ThreadInv, Running
<1>7. ASSUME ClientStop PROVE ThreadInv'
  <2>1. /\ client' = "stop" /\ UNCHANGED <<process, sock, sent, c_open>>
        /\ cpc' = [t \in Threads |-> IF ProcessOf[t] = process THEN "stopped" ELSE cpc[t]]
    BY <1>7 DEF ClientStop
  <2> QED BY <2>1, ProcessAssumption DEF ThreadType, ThreadInv, Running
<1>8. ASSUME ClientClose PROVE ThreadInv'
  BY <1>8 DEF ClientClose, ThreadInv, Running
<1>9. ASSUME ClientRestart PROVE ThreadInv'
  <2>1. /\ process' = process + 1 /\ c_open' = {} /\ UNCHANGED <<cpc, sock, sent>>
        /\ process \in Int /\ \A t \in Threads : ProcessOf[t] \in Int
    BY <1>9, ProcessAssumption DEF ClientRestart, ThreadType
  <2>2. \A t \in Threads : ProcessOf[t] > process' \/ ProcessOf[t] = process' => ProcessOf[t] > process
    BY <2>1
  <2>3. \A t \in Threads : Running(t)' => cpc[t] = "idle"
    BY <2>2 DEF Running, ThreadInv
  <2> QED BY <2>1, <2>2, <2>3 DEF ThreadInv
<1>10. ASSUME AcceptAnnounce PROVE ThreadInv'
  BY <1>10 DEF AcceptAnnounce, ThreadInv, Running
<1>11. ASSUME AcceptRegister PROVE ThreadInv'
  BY <1>11 DEF AcceptRegister, ThreadInv, Running
<1>12. ASSUME ListenCreate PROVE ThreadInv'
  BY <1>12 DEF ListenCreate, ThreadInv, Running, Arrives
<1>13. ASSUME ListenSock PROVE ThreadInv'
  BY <1>13 DEF ListenSock, ThreadInv, Running, Arrives
<1>14. ASSUME ListenClose PROVE ThreadInv'
  BY <1>14 DEF ListenClose, ThreadInv, Running, Arrives
<1>15. ASSUME CloseErase PROVE ThreadInv'
  BY <1>15 DEF CloseErase, ThreadInv, Running
<1>16. ASSUME NEW i \in Sockets, RecvFind(i) PROVE ThreadInv'
  BY <1>16 DEF RecvFind, ThreadInv, Running, Closed
<1>17. ASSUME NEW i \in Sockets, RecvGetSem(i) PROVE ThreadInv'
  BY <1>17 DEF RecvGetSem, ThreadInv, Running
<1>18. ASSUME NEW i \in Sockets, RecvWait(i) PROVE ThreadInv'
  BY <1>18 DEF RecvWait, ThreadInv, Running
<1>19. ASSUME NEW i \in Sockets, RecvStatus(i) PROVE ThreadInv'
  BY <1>19 DEF RecvStatus, ThreadInv, Running, Closed
<1>20. ASSUME NEW i \in Sockets, RecvLookup(i) PROVE ThreadInv'
  BY <1>20 DEF RecvLookup, ThreadInv, Running
<1>21. ASSUME NEW i \in Sockets, RecvPop(i) PROVE ThreadInv'
  BY <1>21 DEF RecvPop, ThreadInv, Running
<1>22. ASSUME NEW i \in Sockets, Answer(i) PROVE ThreadInv'
  BY <1>22 DEF Answer, ThreadInv, Running
<1>23. ASSUME NEW i \in Sockets, BadAccess(i) PROVE ThreadInv'
  BY <1>23 DEF BadAccess, ThreadInv, Running
<1>24. ASSUME Lose PROVE ThreadInv'
  BY <1>24 DEF Lose, ThreadInv, Running
<1> QED BY <1>1, <1>2, <1>3, <1>4, <1>5, <1>6, <1>7, <1>8, <1>9, <1>10, <1>11, <1>12, <1>13, <1>14, <1>15, <1>16, <1>17, <1>18, <1>19, <1>20, <1>21, <1>22, <1>23, <1>24, NextSteps

-----------------------------------------------------------------------------
(* The steps that change sock or sent. *)
LEMMA ThreadSteps ==
  ASSUME Next
  PROVE  \/ UNCHANGED <<sock, sent>>
         \/ \E t \in Threads : ConnectWait(t) \/ Send(t)
<1> USE DEF threads, cdist, cvars
<1>1. ASSUME NEW t \in Threads, ConnectSend(t) \/ ConnectRegister(t) \/ InsertId(t)
      PROVE  UNCHANGED <<sock, sent>>
  BY <1>1 DEF ConnectSend, ConnectRegister, InsertId
<1>2. ClientListen \/ ClientStop \/ ClientClose \/ ClientRestart => UNCHANGED <<sock, sent>>
  BY DEF ClientListen, ClientStop, ClientClose, ClientRestart
<1>3. ASSUME AcceptAnnounce \/ AcceptRegister \/ ListenCreate \/ ListenSock \/ ListenClose
             \/ CloseErase \/ Lose
      PROVE  UNCHANGED <<sock, sent>>
  BY <1>3 DEF AcceptAnnounce, AcceptRegister, ListenCreate, ListenSock, ListenClose,
              CloseErase, Lose
<1>4. ASSUME NEW i \in Sockets,
             \/ RecvFind(i) \/ RecvGetSem(i) \/ RecvWait(i) \/ RecvStatus(i)
             \/ RecvLookup(i) \/ RecvPop(i) \/ Answer(i) \/ BadAccess(i)
      PROVE  UNCHANGED <<sock, sent>>
  BY <1>4 DEF RecvFind, RecvGetSem, RecvWait, RecvStatus, RecvLookup, RecvPop, Answer,
              BadAccess
<1> QED BY <1>1, <1>2, <1>3, <1>4, NextSteps

(* A thread keeps its socket, and what it has sent. *)
LEMMA ThreadsGrow ==
  ASSUME ThreadType, DistType, QueueInv, ThreadInv, Next
  PROVE  Grow
<1>1. CASE UNCHANGED <<sock, sent>>
  BY <1>1 DEF Grow, ThreadType
<1>2. ASSUME NEW t \in Threads, ConnectWait(t) PROVE Grow
  <2>1. /\ sock[t] = 0 /\ sent' = sent
        /\ sock' = [sock EXCEPT ![t] = connect_queue[1]]
    BY <1>2, WaitFacts DEF ThreadInv
  <2> QED BY <2>1 DEF Grow, ThreadType
<1>3. ASSUME NEW t \in Threads, Send(t) PROVE Grow
  <2>1. sent' = [sent EXCEPT ![t] = @ + 1] /\ sock' = sock
    BY <1>3 DEF Send, threads
  <2> QED BY <2>1 DEF Grow, ThreadType
<1> QED BY <1>1, <1>2, <1>3, ThreadSteps

\* A message on its way has the number of a socket, and a count.
LEMMA WireTypes ==
  ASSUME NetType
  PROVE  /\ \A p \in 1 .. Len(to_server) :
              to_server[p].id \in Sockets \cup {0} /\ to_server[p].n \in 0 .. MaxMsgs
         /\ \A p \in 1 .. Len(to_client) : to_client[p].id \in Sockets \cup {0}
<1>1. \A m \in Messages : m.id \in Sockets \cup {0} /\ m.n \in 0 .. MaxMsgs
  BY DEF Messages
<1>2. /\ \A p \in 1 .. Len(to_server) : to_server[p] \in Messages
      /\ \A p \in 1 .. Len(to_client) : to_client[p] \in Messages
  BY DEF NetType
<1> QED BY <1>1, <1>2

\* While sockets and counts only grow, a socket stays owned and a sent message sent.
LEMMA OwnedKept ==
  ASSUME ThreadType, ThreadType', Grow, NEW i \in Sockets
  PROVE  (Owned(i) => Owned(i)') /\ \A n \in Int : SentOn(i, n) => SentOn(i, n)'
<1>1. \A t \in Threads : sock[t] = i => sock'[t] = i /\ sent[t] <= sent'[t]
  BY DEF Grow, Sockets
<1>2. \A t \in Threads : sent[t] \in Int /\ sent'[t] \in Int
  BY DEF ThreadType
<1> QED BY <1>1, <1>2 DEF Owned, SentOn

(* One more message to the server. *)
LEMMA ServerAppend ==
  ASSUME NetType, NEW m \in Messages, to_server' = Append(to_server, m)
  PROVE  /\ Len(to_server) \in Nat /\ Len(to_server') = Len(to_server) + 1
         /\ to_server'[Len(to_server) + 1] = m
         /\ \A p \in 1 .. Len(to_server) : to_server'[p] = to_server[p]
         /\ \A p \in 1 .. Len(to_server') :
              p \in 1 .. Len(to_server) \/ p = Len(to_server) + 1
BY AppendFacts DEF NetType

\* What a thread sends is the next message of its socket.
LEMMA SendFacts ==
  ASSUME ThreadType, ThreadInv, NetType, NEW t \in Threads, Send(t)
  PROVE  /\ sock[t] \in Sockets /\ sent[t] + 1 \in 1 .. MaxMsgs /\ sent[t] \in Nat
         /\ sent' = [sent EXCEPT ![t] = @ + 1]
         /\ Msg("sock", sock[t], sent[t] + 1) \in Messages
         /\ to_server' = Append(to_server, Msg("sock", sock[t], sent[t] + 1))
         /\ UNCHANGED <<server, to_client, sock, id_set, c_open, answered, accept_sem, mfsockid,
                        apc, sem_map, closing, queue, recv_sem, spc, received>>
<1>1. sock[t] \in Sockets /\ sent[t] + 1 \in 1 .. MaxMsgs /\ sent[t] \in Nat
  BY MsgsAssumption DEF Send, ThreadType, ThreadInv
<1>2. Msg("sock", sock[t], sent[t] + 1) \in Messages
  BY <1>1, MsgFacts
<1> QED BY <1>1, <1>2
    DEF Send, cdist, acceptor, smaps, heap, serving, svars

(* One less. *)
LEMMA ServerTakes ==
  ASSUME NetType, ListenCreate \/ ListenSock \/ ListenClose \/ (Lose /\ to_server' # to_server)
  PROVE  /\ to_server # <<>> /\ to_server' = Tail(to_server)
         /\ \A p \in 1 .. Len(to_server') :
              p + 1 \in 1 .. Len(to_server) /\ to_server'[p] = to_server[p + 1]
<1>1. to_server # <<>> /\ to_server' = Tail(to_server)
  BY SMTT(60) DEF ListenCreate, ListenSock, ListenClose, Arrives, Lose
<1>2. \A p \in 1 .. Len(Tail(to_server)) :
        p + 1 \in 1 .. Len(to_server) /\ Tail(to_server)[p] = to_server[p + 1]
  BY <1>1, ServerHead
<1> QED BY <1>1, <1>2, SMTT(60)

(* What is on its way to the server. *)
LEMMA ToServerStep ==
  ASSUME ThreadType, NetType, DistType, AcceptType, MapType, HeapType, ServeType, QueueInv, ThreadInv, ToServerInv, Next
  PROVE  ToServerInv'
<1> USE DEF net, threads, cdist, cvars, acceptor, smaps, heap, serving, svars
<1>1. ASSUME NEW t \in Threads, ConnectSend(t) PROVE ToServerInv'
  <2>1. to_server' = Append(to_server, Msg("create", 0, 0)) /\ UNCHANGED <<id_set, sock, sent>>
    BY <1>1 DEF ConnectSend
  <2>2. \A p \in 1 .. Len(to_server') :
          \/ p \in 1 .. Len(to_server) /\ to_server'[p] = to_server[p]
          \/ to_server'[p].type = "create"
    BY <2>1, ServerAppend, MsgFacts DEF Msg
  <2> QED BY <2>1, <2>2 DEF ToServerInv, Owned, SentOn
<1>2. ASSUME NEW t \in Threads, ConnectWait(t) PROVE ToServerInv'
  <2>1. to_server' = to_server /\ id_set' = id_set
    BY <1>2 DEF ConnectWait
  <2>2. \A i \in Sockets :
          (Owned(i) => Owned(i)') /\ \A n \in Int : SentOn(i, n) => SentOn(i, n)'
    BY OwnedKept, ThreadsGrow, ThreadTypeStep
  <2>3. \A p \in 1 .. Len(to_server) :
          to_server[p].id \in Sockets \cup {0} /\ to_server[p].n \in Int
    BY WireTypes, MsgsAssumption
  <2> QED BY <2>1, <2>2, <2>3 DEF ToServerInv, DistType
<1>3. ASSUME NEW t \in Threads, ConnectRegister(t) PROVE ToServerInv'
  BY <1>3 DEF ConnectRegister, ToServerInv, Owned, SentOn
<1>4. ASSUME NEW t \in Threads, InsertId(t) PROVE ToServerInv'
  <2>1. UNCHANGED <<to_server, sock, sent>> /\ id_set' = id_set \cup {sock[t]}
    BY <1>4 DEF InsertId
  <2> QED BY <2>1 DEF ToServerInv, Owned, SentOn
<1>5. ASSUME NEW t \in Threads, Send(t) PROVE ToServerInv'
  <2>1. /\ to_server' = Append(to_server, Msg("sock", sock[t], sent[t] + 1))
        /\ UNCHANGED <<id_set, sock>> /\ sent' = [sent EXCEPT ![t] = @ + 1]
        /\ sock[t] \in Sockets /\ sent[t] + 1 \in 1 .. MaxMsgs
        /\ Msg("sock", sock[t], sent[t] + 1) \in Messages
    BY <1>5, SendFacts
  <2>2. \A i \in Sockets :
          (Owned(i) => Owned(i)') /\ \A n \in Int : SentOn(i, n) => SentOn(i, n)'
    BY OwnedKept, ThreadsGrow, ThreadTypeStep
  <2>3. \A p \in 1 .. Len(to_server) :
          to_server[p].id \in Sockets \cup {0} /\ to_server[p].n \in Int
    BY WireTypes, MsgsAssumption
  <2>4. \E u \in Threads : sock'[u] = sock[t] /\ sent[t] + 1 <= sent'[u]
    BY <2>1 DEF ThreadType
  <2>5. \A p \in 1 .. Len(to_server') :
          \/ p \in 1 .. Len(to_server) /\ to_server'[p] = to_server[p]
          \/ to_server'[p] = [type |-> "sock", id |-> sock[t], n |-> sent[t] + 1]
    BY <2>1, ServerAppend DEF Msg
  <2>6. \A i \in id_set' : Owned(i)'
    BY <2>1, <2>2 DEF ToServerInv, DistType
  <2>7. ASSUME NEW p \in 1 .. Len(to_server')
        PROVE  /\ to_server'[p].type = "sock" =>
                    /\ to_server'[p].n > 0 /\ to_server'[p].id # 0
                    /\ SentOn(to_server[p].id, to_server[p].n)'
               /\ to_server'[p].type = "close" =>
                    to_server'[p].id # 0 /\ Owned(to_server[p].id)'
    <3>1. CASE p \in 1 .. Len(to_server) /\ to_server'[p] = to_server[p]
      BY <2>2, <2>3, <3>1 DEF ToServerInv
    <3>2. CASE to_server'[p] = [type |-> "sock", id |-> sock[t], n |-> sent[t] + 1]
      <4>1. to_server'[p].type = "sock" /\ to_server'[p].id = sock[t] /\ to_server'[p].n = sent[t] + 1
        BY <3>2
      <4>2. SentOn(to_server[p].id, to_server[p].n)'
        BY <2>1, <2>4, <4>1 DEF SentOn
      <4> QED BY <2>1, <4>1, <4>2 DEF Sockets
    <3> QED BY <2>5, <3>1, <3>2
  <2> QED BY <2>6, <2>7 DEF ToServerInv
<1>6. ASSUME ClientListen PROVE ToServerInv'
  BY <1>6 DEF ClientListen, ToServerInv, Owned, SentOn
<1>7. ASSUME ClientStop PROVE ToServerInv'
  BY <1>7 DEF ClientStop, ToServerInv, Owned, SentOn
<1>8. ASSUME ClientClose PROVE ToServerInv'
  <2>1. PICK i \in id_set : /\ id_set' = id_set \ {i}
                            /\ to_server' = Append(to_server, Msg("close", i, 0))
    BY <1>8 DEF ClientClose
  <2>2. UNCHANGED <<sock, sent>>
    BY <1>8 DEF ClientClose
  <2>3. \A p \in 1 .. Len(to_server') :
          \/ p \in 1 .. Len(to_server) /\ to_server'[p] = to_server[p]
          \/ to_server'[p].type = "close" /\ to_server'[p].id = i
    BY <2>1, ServerAppend, MsgFacts DEF Msg, DistType
  <2>4. i # 0
    BY DEF DistType, Sockets
  <2> QED BY <2>1, <2>2, <2>3, <2>4 DEF ToServerInv, Owned, SentOn
<1>9. ASSUME ClientRestart PROVE ToServerInv'
  BY <1>9 DEF ClientRestart, ToServerInv, Owned, SentOn
<1>10. ASSUME AcceptAnnounce PROVE ToServerInv'
  BY <1>10 DEF AcceptAnnounce, ToServerInv, Owned, SentOn
<1>11. ASSUME AcceptRegister PROVE ToServerInv'
  BY <1>11 DEF AcceptRegister, ToServerInv, Owned, SentOn
<1>12. ASSUME ListenCreate PROVE ToServerInv'
  <2>1. UNCHANGED <<id_set, sock, sent>>
    BY <1>12 DEF ListenCreate, ListenSock, ListenClose
  <2>2. \A p \in 1 .. Len(to_server') :
          p + 1 \in 1 .. Len(to_server) /\ to_server'[p] = to_server[p + 1]
    BY <1>12, ServerTakes
  <2>3. ASSUME NEW p \in 1 .. Len(to_server')
        PROVE  /\ to_server'[p].type = "sock" =>
                    /\ to_server'[p].n > 0 /\ to_server'[p].id # 0
                    /\ \E t \in Threads :
                         sock[t] = to_server'[p].id /\ to_server'[p].n <= sent[t]
               /\ to_server'[p].type = "close" =>
                    to_server'[p].id # 0 /\ \E t \in Threads : sock[t] = to_server'[p].id
    <3>1. p + 1 \in 1 .. Len(to_server) /\ to_server'[p] = to_server[p + 1]
      BY <2>2
    <3>2. /\ to_server[p + 1].type = "sock" =>
               /\ to_server[p + 1].n > 0 /\ to_server[p + 1].id # 0
               /\ \E t \in Threads :
                    sock[t] = to_server[p + 1].id /\ to_server[p + 1].n <= sent[t]
          /\ to_server[p + 1].type = "close" =>
               to_server[p + 1].id # 0 /\ \E t \in Threads : sock[t] = to_server[p + 1].id
      BY <3>1 DEF ToServerInv, Owned, SentOn
    <3> QED BY <3>1, <3>2, Zenon
  <2>4. \A i \in id_set : \E t \in Threads : sock[t] = i
    BY DEF ToServerInv, Owned
  <2> QED BY <2>1, <2>3, <2>4 DEF ToServerInv, Owned, SentOn
<1>13. ASSUME ListenSock PROVE ToServerInv'
  <2>1. UNCHANGED <<id_set, sock, sent>>
    BY <1>13 DEF ListenCreate, ListenSock, ListenClose
  <2>2. \A p \in 1 .. Len(to_server') :
          p + 1 \in 1 .. Len(to_server) /\ to_server'[p] = to_server[p + 1]
    BY <1>13, ServerTakes
  <2>3. ASSUME NEW p \in 1 .. Len(to_server')
        PROVE  /\ to_server'[p].type = "sock" =>
                    /\ to_server'[p].n > 0 /\ to_server'[p].id # 0
                    /\ \E t \in Threads :
                         sock[t] = to_server'[p].id /\ to_server'[p].n <= sent[t]
               /\ to_server'[p].type = "close" =>
                    to_server'[p].id # 0 /\ \E t \in Threads : sock[t] = to_server'[p].id
    <3>1. p + 1 \in 1 .. Len(to_server) /\ to_server'[p] = to_server[p + 1]
      BY <2>2
    <3>2. /\ to_server[p + 1].type = "sock" =>
               /\ to_server[p + 1].n > 0 /\ to_server[p + 1].id # 0
               /\ \E t \in Threads :
                    sock[t] = to_server[p + 1].id /\ to_server[p + 1].n <= sent[t]
          /\ to_server[p + 1].type = "close" =>
               to_server[p + 1].id # 0 /\ \E t \in Threads : sock[t] = to_server[p + 1].id
      BY <3>1 DEF ToServerInv, Owned, SentOn
    <3> QED BY <3>1, <3>2, Zenon
  <2>4. \A i \in id_set : \E t \in Threads : sock[t] = i
    BY DEF ToServerInv, Owned
  <2> QED BY <2>1, <2>3, <2>4 DEF ToServerInv, Owned, SentOn
<1>14. ASSUME ListenClose PROVE ToServerInv'
  <2>1. UNCHANGED <<id_set, sock, sent>>
    BY <1>14 DEF ListenCreate, ListenSock, ListenClose
  <2>2. \A p \in 1 .. Len(to_server') :
          p + 1 \in 1 .. Len(to_server) /\ to_server'[p] = to_server[p + 1]
    BY <1>14, ServerTakes
  <2>3. ASSUME NEW p \in 1 .. Len(to_server')
        PROVE  /\ to_server'[p].type = "sock" =>
                    /\ to_server'[p].n > 0 /\ to_server'[p].id # 0
                    /\ \E t \in Threads :
                         sock[t] = to_server'[p].id /\ to_server'[p].n <= sent[t]
               /\ to_server'[p].type = "close" =>
                    to_server'[p].id # 0 /\ \E t \in Threads : sock[t] = to_server'[p].id
    <3>1. p + 1 \in 1 .. Len(to_server) /\ to_server'[p] = to_server[p + 1]
      BY <2>2
    <3>2. /\ to_server[p + 1].type = "sock" =>
               /\ to_server[p + 1].n > 0 /\ to_server[p + 1].id # 0
               /\ \E t \in Threads :
                    sock[t] = to_server[p + 1].id /\ to_server[p + 1].n <= sent[t]
          /\ to_server[p + 1].type = "close" =>
               to_server[p + 1].id # 0 /\ \E t \in Threads : sock[t] = to_server[p + 1].id
      BY <3>1 DEF ToServerInv, Owned, SentOn
    <3> QED BY <3>1, <3>2, Zenon
  <2>4. \A i \in id_set : \E t \in Threads : sock[t] = i
    BY DEF ToServerInv, Owned
  <2> QED BY <2>1, <2>3, <2>4 DEF ToServerInv, Owned, SentOn
<1>15. ASSUME CloseErase PROVE ToServerInv'
  BY <1>15 DEF CloseErase, ToServerInv, Owned, SentOn
<1>16. ASSUME NEW i \in Sockets, RecvFind(i) PROVE ToServerInv'
  BY <1>16 DEF RecvFind, ToServerInv, Owned, SentOn, Closed
<1>17. ASSUME NEW i \in Sockets, RecvGetSem(i) PROVE ToServerInv'
  BY <1>17 DEF RecvGetSem, ToServerInv, Owned, SentOn
<1>18. ASSUME NEW i \in Sockets, RecvWait(i) PROVE ToServerInv'
  BY <1>18 DEF RecvWait, ToServerInv, Owned, SentOn
<1>19. ASSUME NEW i \in Sockets, RecvStatus(i) PROVE ToServerInv'
  BY <1>19 DEF RecvStatus, ToServerInv, Owned, SentOn, Closed
<1>20. ASSUME NEW i \in Sockets, RecvLookup(i) PROVE ToServerInv'
  BY <1>20 DEF RecvLookup, ToServerInv, Owned, SentOn
<1>21. ASSUME NEW i \in Sockets, RecvPop(i) PROVE ToServerInv'
  BY <1>21 DEF RecvPop, ToServerInv, Owned, SentOn
<1>22. ASSUME NEW i \in Sockets, Answer(i) PROVE ToServerInv'
  BY <1>22 DEF Answer, ToServerInv, Owned, SentOn
<1>23. ASSUME NEW i \in Sockets, BadAccess(i) PROVE ToServerInv'
  BY <1>23 DEF BadAccess, ToServerInv, Owned, SentOn
<1>24. ASSUME Lose PROVE ToServerInv'
  <2>1. UNCHANGED <<id_set, sock, sent>>
    BY <1>24 DEF Lose
  <2>2. CASE to_server' = to_server
    BY <2>1, <2>2 DEF ToServerInv, Owned, SentOn
  <2>3. CASE to_server' # to_server
    <3>1. \A p \in 1 .. Len(to_server') :
            p + 1 \in 1 .. Len(to_server) /\ to_server'[p] = to_server[p + 1]
      BY <1>24, <2>3, ServerTakes
    <3>2. ASSUME NEW p \in 1 .. Len(to_server')
          PROVE  /\ to_server'[p].type = "sock" =>
                      /\ to_server'[p].n > 0 /\ to_server'[p].id # 0
                      /\ \E t \in Threads :
                           sock[t] = to_server'[p].id /\ to_server'[p].n <= sent[t]
                 /\ to_server'[p].type = "close" =>
                      to_server'[p].id # 0 /\ \E t \in Threads : sock[t] = to_server'[p].id
      <4>1. p + 1 \in 1 .. Len(to_server) /\ to_server'[p] = to_server[p + 1]
        BY <3>1
      <4>2. /\ to_server[p + 1].type = "sock" =>
                 /\ to_server[p + 1].n > 0 /\ to_server[p + 1].id # 0
                 /\ \E t \in Threads :
                      sock[t] = to_server[p + 1].id /\ to_server[p + 1].n <= sent[t]
            /\ to_server[p + 1].type = "close" =>
                 to_server[p + 1].id # 0 /\ \E t \in Threads : sock[t] = to_server[p + 1].id
        BY <4>1 DEF ToServerInv, Owned, SentOn
      <4> QED BY <4>1, <4>2, Zenon
    <3>3. \A i \in id_set : \E t \in Threads : sock[t] = i
      BY DEF ToServerInv, Owned
    <3> QED BY <2>1, <3>2, <3>3 DEF ToServerInv, Owned, SentOn
  <2> QED BY <2>2, <2>3
<1> QED BY <1>1, <1>2, <1>3, <1>4, <1>5, <1>6, <1>7, <1>8, <1>9, <1>10, <1>11, <1>12, <1>13, <1>14, <1>15, <1>16, <1>17, <1>18, <1>19, <1>20, <1>21, <1>22, <1>23, <1>24, NextSteps

(* What the server has heard. *)
LEMMA HeardStep ==
  ASSUME ThreadType, NetType, DistType, AcceptType, MapType, HeapType, ServeType, QueueInv, ThreadInv, ToServerInv, HeardInv, Next
  PROVE  HeardInv'
<1> USE DEF net, threads, cdist, cvars, acceptor, smaps, heap, serving, svars
<1>1. ASSUME NEW t \in Threads, ConnectSend(t) PROVE HeardInv'
  BY <1>1 DEF ConnectSend, HeardInv, SentOn
<1>2. ASSUME NEW t \in Threads, ConnectWait(t) PROVE HeardInv'
  <2>1. UNCHANGED <<received, queue>>
    BY <1>2 DEF ConnectWait, Send
  <2>2. \A i \in Sockets : SentOn(i, 1) => SentOn(i, 1)'
    BY OwnedKept, ThreadsGrow, ThreadTypeStep
  <2> QED BY <2>1, <2>2 DEF HeardInv
<1>3. ASSUME NEW t \in Threads, ConnectRegister(t) PROVE HeardInv'
  BY <1>3 DEF ConnectRegister, HeardInv, SentOn
<1>4. ASSUME NEW t \in Threads, InsertId(t) PROVE HeardInv'
  BY <1>4 DEF InsertId, HeardInv, SentOn
<1>5. ASSUME NEW t \in Threads, Send(t) PROVE HeardInv'
  <2>1. UNCHANGED <<received, queue>>
    BY <1>5 DEF ConnectWait, Send
  <2>2. \A i \in Sockets : SentOn(i, 1) => SentOn(i, 1)'
    BY OwnedKept, ThreadsGrow, ThreadTypeStep
  <2> QED BY <2>1, <2>2 DEF HeardInv
<1>6. ASSUME ClientListen PROVE HeardInv'
  BY <1>6 DEF ClientListen, HeardInv, SentOn
<1>7. ASSUME ClientStop PROVE HeardInv'
  BY <1>7 DEF ClientStop, HeardInv, SentOn
<1>8. ASSUME ClientClose PROVE HeardInv'
  BY <1>8 DEF ClientClose, HeardInv, SentOn
<1>9. ASSUME ClientRestart PROVE HeardInv'
  BY <1>9 DEF ClientRestart, HeardInv, SentOn
<1>10. ASSUME AcceptAnnounce PROVE HeardInv'
  BY <1>10 DEF AcceptAnnounce, HeardInv, SentOn
<1>11. ASSUME AcceptRegister PROVE HeardInv'
  <2>1. /\ UNCHANGED <<received, sock, sent>>
        /\ \A i \in Sockets : queue'[i] = queue[i] \/ queue'[i] = <<>>
    BY <1>11 DEF AcceptRegister, HeapType
  <2> QED BY <2>1 DEF HeardInv, SentOn
<1>12. ASSUME ListenCreate PROVE HeardInv'
  BY <1>12 DEF ListenCreate, HeardInv, SentOn, Arrives
<1>13. ASSUME ListenSock PROVE HeardInv'
  <2>1. /\ to_server # <<>> /\ UNCHANGED <<received, sock, sent>>
        /\ \/ queue' = queue
           \/ /\ to_server[1].type = "sock"
              /\ queue' = [queue EXCEPT ![to_server[1].id] = Append(@, to_server[1].n)]
    BY <1>13, ArriveFacts
  <2>2. to_server[1].type = "sock" => SentOn(to_server[1].id, 1)
    <3>1. to_server[1].n \in Int /\ 1 \in 1 .. Len(to_server)
      BY <2>1, ServerHead, MsgsAssumption DEF Messages
    <3>2. \A t \in Threads : sent[t] \in Int
      BY DEF ThreadType
    <3> QED BY <3>1, <3>2 DEF ToServerInv, SentOn
  <2>3. ASSUME NEW i \in Sockets, received'[i] > 0 \/ queue'[i] # <<>> PROVE SentOn(i, 1)
    <3>1. CASE i = to_server[1].id /\ to_server[1].type = "sock"
      BY <2>2, <3>1
    <3>2. CASE queue'[i] = queue[i]
      BY <2>1, <2>3, <3>2 DEF HeardInv
    <3> QED BY <2>1, <3>1, <3>2 DEF HeapType
  <2> QED BY <2>1, <2>3 DEF HeardInv, SentOn
<1>14. ASSUME ListenClose PROVE HeardInv'
  BY <1>14 DEF ListenClose, HeardInv, SentOn, Arrives
<1>15. ASSUME CloseErase PROVE HeardInv'
  BY <1>15 DEF CloseErase, HeardInv, SentOn
<1>16. ASSUME NEW i \in Sockets, RecvFind(i) PROVE HeardInv'
  BY <1>16 DEF RecvFind, HeardInv, SentOn, Closed
<1>17. ASSUME NEW i \in Sockets, RecvGetSem(i) PROVE HeardInv'
  BY <1>17 DEF RecvGetSem, HeardInv, SentOn
<1>18. ASSUME NEW i \in Sockets, RecvWait(i) PROVE HeardInv'
  BY <1>18 DEF RecvWait, HeardInv, SentOn
<1>19. ASSUME NEW i \in Sockets, RecvStatus(i) PROVE HeardInv'
  BY <1>19 DEF RecvStatus, HeardInv, SentOn, Closed
<1>20. ASSUME NEW i \in Sockets, RecvLookup(i) PROVE HeardInv'
  BY <1>20 DEF RecvLookup, HeardInv, SentOn
<1>21. ASSUME NEW i \in Sockets, RecvPop(i) PROVE HeardInv'
  <2>1. /\ queue[i] # <<>> /\ UNCHANGED <<sock, sent>>
        /\ \A j \in Sockets : j # i => received'[j] = received[j] /\ queue'[j] = queue[j]
    BY <1>21 DEF RecvPop, HeapType, ServeType
  <2> QED BY <2>1 DEF HeardInv, SentOn
<1>22. ASSUME NEW i \in Sockets, Answer(i) PROVE HeardInv'
  BY <1>22 DEF Answer, HeardInv, SentOn
<1>23. ASSUME NEW i \in Sockets, BadAccess(i) PROVE HeardInv'
  BY <1>23 DEF BadAccess, HeardInv, SentOn
<1>24. ASSUME Lose PROVE HeardInv'
  BY <1>24 DEF Lose, HeardInv, SentOn
<1> QED BY <1>1, <1>2, <1>3, <1>4, <1>5, <1>6, <1>7, <1>8, <1>9, <1>10, <1>11, <1>12, <1>13, <1>14, <1>15, <1>16, <1>17, <1>18, <1>19, <1>20, <1>21, <1>22, <1>23, <1>24, NextSteps

(* What the client is told. *)
LEMMA AnswerStep ==
  ASSUME ThreadType, NetType, DistType, AcceptType, MapType, HeapType, ServeType, TakenInv, WireInv, QueueInv, SockInv, OneOwner, ThreadInv, AnswerInv, Next
  PROVE  AnswerInv'
<1> USE DEF net, threads, cdist, cvars, acceptor, smaps, heap, serving, svars
<1>1. ASSUME NEW t \in Threads, ConnectSend(t) PROVE AnswerInv'
  BY <1>1 DEF ConnectSend, AnswerInv
<1>2. ASSUME NEW t \in Threads, ConnectWait(t) PROVE AnswerInv'
  <2>1. /\ sock[t] = 0 /\ sent[t] = 0 /\ UNCHANGED <<to_client, answered, sent>>
        /\ sock' = [sock EXCEPT ![t] = connect_queue[1]]
    BY <1>2, WaitFacts DEF ThreadInv
  <2>2. UNCHANGED <<received, spc>>
    BY <1>2 DEF ConnectWait
  <2> QED BY <2>1, <2>2 DEF AnswerInv, ThreadType
<1>3. ASSUME NEW t \in Threads, ConnectRegister(t) PROVE AnswerInv'
  BY <1>3 DEF ConnectRegister, AnswerInv
<1>4. ASSUME NEW t \in Threads, InsertId(t) PROVE AnswerInv'
  BY <1>4 DEF InsertId, AnswerInv
<1>5. ASSUME NEW t \in Threads, Send(t) PROVE AnswerInv'
  <2>1. /\ UNCHANGED <<to_client, answered, received, spc, sock>> /\ sock[t] \in Sockets
        /\ sent' = [sent EXCEPT ![t] = @ + 1] /\ sent[t] \in Nat
    BY <1>5, SendFacts
  <2>2. sent[t] = 0 \/ sock[t] \in answered
    BY <1>5 DEF Send, ThreadInv
  <2>3. sent'[t] > 1 => sock[t] # 0 /\ received[sock[t]] > 0
    <3>1. CASE sent[t] = 0
      BY <2>1, <3>1 DEF ThreadType
    <3>2. CASE sock[t] \in answered
      BY <2>1, <3>2 DEF AnswerInv, Sockets
    <3> QED BY <2>2, <3>1, <3>2
  <2>4. \A u \in Threads : u # t => sent'[u] = sent[u]
    BY <2>1 DEF ThreadType
  <2> QED BY <2>1, <2>3, <2>4 DEF AnswerInv
<1>6. ASSUME ClientListen PROVE AnswerInv'
  <2>1. /\ to_client # <<>> /\ to_client' = Tail(to_client)
        /\ UNCHANGED <<received, spc, sock, sent>>
        /\ \/ answered' = answered
           \/ /\ to_client[1].type = "sock"
              /\ answered' = answered \cup {to_client[1].id}
    BY <1>6, ListenFacts
  <2>2. \A p \in 1 .. Len(to_client') :
          p + 1 \in 1 .. Len(to_client) /\ to_client'[p] = to_client[p + 1]
    BY <2>1, ClientHead
  <2>3. 1 \in 1 .. Len(to_client)
    BY <2>1, ClientHead
  <2>4. \A i \in answered' : received[i] > 0
    BY <2>1, <2>3 DEF AnswerInv
  <2> QED BY <2>1, <2>2, <2>4 DEF AnswerInv
<1>7. ASSUME ClientStop PROVE AnswerInv'
  BY <1>7 DEF ClientStop, AnswerInv
<1>8. ASSUME ClientClose PROVE AnswerInv'
  BY <1>8 DEF ClientClose, AnswerInv
<1>9. ASSUME ClientRestart PROVE AnswerInv'
  <2>1. answered' = {} /\ UNCHANGED <<received, spc, sock, sent>>
    BY <1>9 DEF ClientRestart
  <2>2. CASE to_client' = to_client
    BY <2>1, <2>2 DEF AnswerInv
  <2>3. CASE to_client' = <<>>
    <3>1. Len(to_client') = 0
      BY <2>3
    <3> QED BY <2>1, <3>1 DEF AnswerInv
  <2> QED BY <1>9, <2>2, <2>3 DEF ClientRestart
<1>10. ASSUME AcceptAnnounce PROVE AnswerInv'
  <2>1. /\ UNCHANGED <<answered, received, spc, sock, sent>> /\ mfsockid' \in Sockets
        /\ to_client' = Append(to_client, Msg("accepted", mfsockid', 0))
    BY <1>10, NextNumber DEF AcceptAnnounce
  <2>2. \A p \in 1 .. Len(to_client') :
          \/ p \in 1 .. Len(to_client) /\ to_client'[p] = to_client[p]
          \/ to_client'[p].type = "accepted"
    <3>1. Msg("accepted", mfsockid', 0) \in Messages
      BY <2>1, MsgFacts
    <3> QED BY <2>1, <3>1, AppendFacts DEF NetType, Msg
  <2> QED BY <2>1, <2>2 DEF AnswerInv
<1>11. ASSUME AcceptRegister PROVE AnswerInv'
  <2>1. UNCHANGED <<to_client, answered, received, sock, sent>>
    BY <1>11 DEF AcceptRegister
  <2>2. \A i \in Sockets : spc'[i] = spc[i] \/ spc'[i] = "find"
    BY <1>11 DEF AcceptRegister, ServeType
  <2> QED BY <2>1, <2>2 DEF AnswerInv
<1>12. ASSUME ListenCreate PROVE AnswerInv'
  BY <1>12 DEF ListenCreate, AnswerInv, Arrives
<1>13. ASSUME ListenSock PROVE AnswerInv'
  BY <1>13 DEF ListenSock, AnswerInv, Arrives
<1>14. ASSUME ListenClose PROVE AnswerInv'
  BY <1>14 DEF ListenClose, AnswerInv, Arrives
<1>15. ASSUME CloseErase PROVE AnswerInv'
  BY <1>15 DEF CloseErase, AnswerInv
<1>16. ASSUME NEW i \in Sockets, RecvFind(i) PROVE AnswerInv'
  <2>1. UNCHANGED <<to_client, answered, received, sock, sent>>
    BY <1>16 DEF RecvFind, RecvGetSem, RecvWait, RecvStatus, RecvLookup
  <2>2. \A j \in Sockets : spc'[j] = spc[j] \/ spc'[j] # "answer"
    BY <1>16 DEF RecvFind, RecvGetSem, RecvWait, RecvStatus, RecvLookup, ServeType, Closed
  <2> QED BY <2>1, <2>2 DEF AnswerInv
<1>17. ASSUME NEW i \in Sockets, RecvGetSem(i) PROVE AnswerInv'
  <2>1. UNCHANGED <<to_client, answered, received, sock, sent>>
    BY <1>17 DEF RecvFind, RecvGetSem, RecvWait, RecvStatus, RecvLookup
  <2>2. \A j \in Sockets : spc'[j] = spc[j] \/ spc'[j] # "answer"
    BY <1>17 DEF RecvFind, RecvGetSem, RecvWait, RecvStatus, RecvLookup, ServeType, Closed
  <2> QED BY <2>1, <2>2 DEF AnswerInv
<1>18. ASSUME NEW i \in Sockets, RecvWait(i) PROVE AnswerInv'
  <2>1. UNCHANGED <<to_client, answered, received, sock, sent>>
    BY <1>18 DEF RecvFind, RecvGetSem, RecvWait, RecvStatus, RecvLookup
  <2>2. \A j \in Sockets : spc'[j] = spc[j] \/ spc'[j] # "answer"
    BY <1>18 DEF RecvFind, RecvGetSem, RecvWait, RecvStatus, RecvLookup, ServeType, Closed
  <2> QED BY <2>1, <2>2 DEF AnswerInv
<1>19. ASSUME NEW i \in Sockets, RecvStatus(i) PROVE AnswerInv'
  <2>1. UNCHANGED <<to_client, answered, received, sock, sent>>
    BY <1>19 DEF RecvFind, RecvGetSem, RecvWait, RecvStatus, RecvLookup
  <2>2. \A j \in Sockets : spc'[j] = spc[j] \/ spc'[j] # "answer"
    BY <1>19 DEF RecvFind, RecvGetSem, RecvWait, RecvStatus, RecvLookup, ServeType, Closed
  <2> QED BY <2>1, <2>2 DEF AnswerInv
<1>20. ASSUME NEW i \in Sockets, RecvLookup(i) PROVE AnswerInv'
  <2>1. UNCHANGED <<to_client, answered, received, sock, sent>>
    BY <1>20 DEF RecvFind, RecvGetSem, RecvWait, RecvStatus, RecvLookup
  <2>2. \A j \in Sockets : spc'[j] = spc[j] \/ spc'[j] # "answer"
    BY <1>20 DEF RecvFind, RecvGetSem, RecvWait, RecvStatus, RecvLookup, ServeType, Closed
  <2> QED BY <2>1, <2>2 DEF AnswerInv
<1>21. ASSUME NEW i \in Sockets, RecvPop(i) PROVE AnswerInv'
  <2>1. /\ UNCHANGED <<to_client, answered, sock, sent>>
        /\ queue[i] # <<>> /\ received' = [received EXCEPT ![i] = Head(queue[i])]
        /\ \A j \in Sockets : j # i => spc'[j] = spc[j]
    BY <1>21 DEF RecvPop, ServeType
  <2>2. received'[i] > 0
    <3>1. Head(queue[i]) \in 1 .. MaxMsgs
      <4>1. queue[i] \in Seq(1 .. MaxMsgs)
        BY DEF HeapType
      <4> QED BY <2>1, <4>1, HeadFacts
    <3> QED BY <2>1, <3>1 DEF ServeType
  <2>3. \A j \in Sockets : received'[j] = received[j] \/ received'[j] > 0
    BY <2>1, <2>2 DEF ServeType
  <2>4. /\ \A p \in 1 .. Len(to_client) : to_client[p].id \in Sockets \cup {0}
        /\ \A t \in Threads : sock[t] \in Sockets \cup {0}
    BY WireTypes DEF ThreadType
  <2>5. \A j \in Sockets : spc'[j] = "answer" => received'[j] > 0
    BY <2>1, <2>2, <2>3 DEF AnswerInv
  <2>6. \A j \in Sockets : received[j] > 0 => received'[j] > 0
    BY <2>3
  <2> QED BY <2>1, <2>4, <2>5, <2>6 DEF AnswerInv, DistType
<1>22. ASSUME NEW i \in Sockets, Answer(i) PROVE AnswerInv'
  <2>1. /\ UNCHANGED <<answered, received, sock, sent>> /\ spc[i] = "answer"
        /\ \/ to_client' = to_client
           \/ to_client' = Append(to_client, Msg("sock", i, 1))
        /\ \A j \in Sockets : spc'[j] = spc[j] \/ spc'[j] = "find"
    BY <1>22 DEF Answer, ServeType
  <2>2. \A p \in 1 .. Len(to_client') :
          \/ p \in 1 .. Len(to_client) /\ to_client'[p] = to_client[p]
          \/ to_client'[p].id = i
    <3>1. Msg("sock", i, 1) \in Messages /\ Msg("sock", i, 1).id = i
      BY MsgFacts DEF Msg
    <3>2. CASE to_client' = to_client
      BY <3>2
    <3>3. CASE to_client' = Append(to_client, Msg("sock", i, 1))
      <4>1. \A p \in 1 .. Len(to_client') :
              \/ p \in 1 .. Len(to_client) /\ to_client'[p] = to_client[p]
              \/ to_client'[p] = Msg("sock", i, 1)
        BY <3>1, <3>3, AppendFacts DEF NetType
      <4> QED BY <3>1, <4>1
    <3> QED BY <2>1, <3>2, <3>3
  <2>3. i # 0 /\ received[i] > 0
    BY <2>1 DEF AnswerInv, Sockets
  <2> QED BY <2>1, <2>2, <2>3 DEF AnswerInv
<1>23. ASSUME NEW i \in Sockets, BadAccess(i) PROVE AnswerInv'
  BY <1>23 DEF BadAccess, AnswerInv
<1>24. ASSUME Lose PROVE AnswerInv'
  <2>1. UNCHANGED <<answered, received, sock, sent, spc>>
    BY <1>24 DEF Lose
  <2>2. CASE to_client' = to_client
    BY <2>1, <2>2 DEF AnswerInv
  <2>3. CASE to_client # <<>> /\ to_client' = Tail(to_client)
    <3>1. \A p \in 1 .. Len(to_client') :
            p + 1 \in 1 .. Len(to_client) /\ to_client'[p] = to_client[p + 1]
      BY <2>3, ClientHead
    <3> QED BY <2>1, <3>1 DEF AnswerInv
  <2> QED BY <1>24, <2>2, <2>3 DEF Lose
<1> QED BY <1>1, <1>2, <1>3, <1>4, <1>5, <1>6, <1>7, <1>8, <1>9, <1>10, <1>11, <1>12, <1>13, <1>14, <1>15, <1>16, <1>17, <1>18, <1>19, <1>20, <1>21, <1>22, <1>23, <1>24, NextSteps

-----------------------------------------------------------------------------
(* The messages of a socket are on their way in order. *)
LEMMA OrderStep ==
  ASSUME ThreadType, NetType, DistType, AcceptType, MapType, HeapType, ServeType, TakenInv, QueueInv, OneOwner, ThreadInv, ToServerInv, OrderInv, SemInv, Next
  PROVE  OrderInv'
<1> USE DEF net, threads, cdist, cvars, acceptor, smaps, heap, serving, svars
<1>1. ASSUME NEW t \in Threads, ConnectSend(t) PROVE OrderInv'
  <2>1. /\ to_server' = Append(to_server, Msg("create", 0, 0))
        /\ UNCHANGED <<sem_map, closing, recv_sem>>
    BY <1>1 DEF ConnectSend
  <2>2. \A p \in 1 .. Len(to_server') : to_server'[p].type = "sock" =>
          /\ p \in 1 .. Len(to_server) /\ to_server'[p] = to_server[p]
          /\ \A q \in 1 .. p - 1 : q \in 1 .. Len(to_server) /\ to_server'[q] = to_server[q]
    BY <2>1, ServerAppend, MsgFacts DEF Msg
  <2> QED BY <2>1, <2>2 DEF OrderInv, Listening
<1>2. ASSUME NEW t \in Threads, ConnectWait(t) PROVE OrderInv'
  BY <1>2 DEF ConnectWait, OrderInv, Listening
<1>3. ASSUME NEW t \in Threads, ConnectRegister(t) PROVE OrderInv'
  BY <1>3 DEF ConnectRegister, OrderInv, Listening
<1>4. ASSUME NEW t \in Threads, InsertId(t) PROVE OrderInv'
  BY <1>4 DEF InsertId, OrderInv, Listening
<1>5. ASSUME NEW t \in Threads, Send(t) PROVE OrderInv'
  <2>1. /\ to_server' = Append(to_server, Msg("sock", sock[t], sent[t] + 1))
        /\ UNCHANGED <<sem_map, closing, recv_sem>>
        /\ sock[t] \in Sockets /\ sent[t] \in Nat
        /\ Msg("sock", sock[t], sent[t] + 1) \in Messages
    BY <1>5, SendFacts
  <2> DEFINE m == [type |-> "sock", id |-> sock[t], n |-> sent[t] + 1]
  <2>2. /\ Len(to_server) \in Nat /\ to_server'[Len(to_server) + 1] = m
        /\ \A p \in 1 .. Len(to_server) : to_server'[p] = to_server[p]
        /\ \A p \in 1 .. Len(to_server') : p \in 1 .. Len(to_server) \/ p = Len(to_server) + 1
    BY <2>1, ServerAppend DEF Msg
  <2>3. m.id = sock[t] /\ m.n = sent[t] + 1
    OBVIOUS
  <2>4. \A q \in 1 .. Len(to_server) :
          to_server[q].type = "sock" /\ to_server[q].id = sock[t] => to_server[q].n < m.n
    <3>1. \A u \in Threads : sock[u] = sock[t] => sent[u] = sent[t]
      BY <2>1 DEF OneOwner, Sockets
    <3> QED BY <2>1, <2>3, <3>1, WireTypes, MsgsAssumption DEF ToServerInv, SentOn
  <2>5. Listening(sock[t]) => recv_sem[sock[t]] < m.n
    <3>1. \A u \in Threads : sock[u] = sock[t] => sent[u] = sent[t]
      BY <2>1 DEF OneOwner, Sockets
    <3> QED BY <2>1, <2>3, <3>1 DEF SemInv, HeapType
  <2> HIDE DEF m
  <2>6. ASSUME NEW p \in 1 .. Len(to_server'), to_server'[p].type = "sock"
        PROVE  /\ \A q \in 1 .. p - 1 :
                    to_server'[q].type = "sock" /\ to_server'[q].id = to_server'[p].id =>
                      to_server'[q].n < to_server'[p].n
               /\ Listening(to_server'[p].id) => recv_sem[to_server'[p].id] < to_server'[p].n
    <3>1. CASE p \in 1 .. Len(to_server)
      BY <2>2, <2>6, <3>1, SMTT(30) DEF OrderInv
    <3>2. CASE p = Len(to_server) + 1
      BY <2>2, <2>3, <2>4, <2>5, <3>2
    <3> QED BY <2>2, <3>1, <3>2
  <2> QED BY <2>1, <2>6 DEF OrderInv, Listening
<1>6. ASSUME ClientListen PROVE OrderInv'
  BY <1>6 DEF ClientListen, OrderInv, Listening
<1>7. ASSUME ClientStop PROVE OrderInv'
  BY <1>7 DEF ClientStop, OrderInv, Listening
<1>8. ASSUME ClientClose PROVE OrderInv'
  <2>1. PICK i \in id_set : to_server' = Append(to_server, Msg("close", i, 0))
    BY <1>8 DEF ClientClose
  <2>2. UNCHANGED <<sem_map, closing, recv_sem>>
    BY <1>8 DEF ClientClose
  <2>3. Msg("close", i, 0) \in Messages /\ Msg("close", i, 0).type = "close"
    BY MsgFacts DEF DistType, Msg
  <2>4. \A p \in 1 .. Len(to_server') : to_server'[p].type = "sock" =>
          /\ p \in 1 .. Len(to_server) /\ to_server'[p] = to_server[p]
          /\ \A q \in 1 .. p - 1 : q \in 1 .. Len(to_server) /\ to_server'[q] = to_server[q]
    BY <2>1, <2>3, ServerAppend
  <2> QED BY <2>2, <2>4 DEF OrderInv, Listening
<1>9. ASSUME ClientRestart PROVE OrderInv'
  BY <1>9 DEF ClientRestart, OrderInv, Listening
<1>10. ASSUME AcceptAnnounce PROVE OrderInv'
  BY <1>10 DEF AcceptAnnounce, OrderInv, Listening
<1>11. ASSUME AcceptRegister PROVE OrderInv'
  <2>1. /\ UNCHANGED <<to_server, closing>> /\ sem_map' = sem_map \cup {mfsockid}
        /\ recv_sem' = [recv_sem EXCEPT ![mfsockid] = 0]
    BY <1>11 DEF AcceptRegister
  <2>2. \A p \in 1 .. Len(to_server) : to_server[p].type = "sock" =>
          to_server[p].n > 0 /\ to_server[p].id \in Sockets
    BY WireTypes DEF ToServerInv
  <2> QED BY <2>1, <2>2 DEF OrderInv, Listening, HeapType
<1>12. ASSUME ListenCreate PROVE OrderInv'
  BY <1>12, SMTT(60) DEF ListenCreate, OrderInv, Listening, Arrives
<1>13. ASSUME ListenSock PROVE OrderInv'
  <2>1. /\ to_server # <<>> /\ to_server' = Tail(to_server) /\ closing = 0
        /\ sem_map' = sem_map
    BY <1>13, ArriveFacts
  <2>2. /\ 1 \in 1 .. Len(to_server)
        /\ \A p \in 1 .. Len(to_server') :
             p + 1 \in 1 .. Len(to_server) /\ to_server'[p] = to_server[p + 1]
    BY <2>1, ServerHead
  <2> DEFINE i == to_server[1].id
  <2>3. ASSUME NEW p \in 1 .. Len(to_server'), to_server'[p].type = "sock", NEW q \in 1 .. p - 1,
               to_server'[q].type = "sock", to_server'[q].id = to_server'[p].id
        PROVE  to_server'[q].n < to_server'[p].n
    <3>1. q + 1 \in 1 .. (p + 1) - 1 /\ q \in 1 .. Len(to_server')
      BY <2>2
    <3> QED BY <2>2, <2>3, <3>1 DEF OrderInv
  <2>4. ASSUME NEW p \in 1 .. Len(to_server'), to_server'[p].type = "sock",
               Listening(to_server[p].id)'
        PROVE  recv_sem'[to_server'[p].id] < to_server'[p].n
    <3> DEFINE j == to_server[p + 1].id
    <3>1. /\ p + 1 \in 1 .. Len(to_server) /\ to_server'[p] = to_server[p + 1]
          /\ to_server[p + 1].type = "sock" /\ 1 \in 1 .. (p + 1) - 1
      BY <2>2, <2>4
    <3>2. j \in sem_map /\ j # closing' /\ j \in Sockets
      BY <2>1, <2>4, <3>1 DEF Listening, MapType
    <3>3. Listening(j) /\ recv_sem[j] < to_server[p + 1].n
      BY <2>1, <3>1, <3>2 DEF OrderInv, Listening, Sockets
    <3>4. CASE recv_sem'[j] = recv_sem[j]
      BY <3>1, <3>3, <3>4
    <3>5. CASE /\ i = j /\ to_server[1].type = "sock" /\ recv_sem' = [recv_sem EXCEPT ![i] = @ + 1]
      <4>1. recv_sem[j] < to_server[1].n /\ to_server[1].n < to_server[p + 1].n
        BY <2>2, <3>1, <3>3, <3>5 DEF OrderInv
      <4>2. recv_sem'[j] = recv_sem[j] + 1 /\ recv_sem[j] \in Int
        BY <3>2, <3>5 DEF HeapType
      <4>3. to_server[1].n \in Int /\ to_server[p + 1].n \in Int
        BY <2>2, <3>1, WireTypes, MsgsAssumption
      <4> QED BY <3>1, <4>1, <4>2, <4>3, SMTT(30)
    <3>6. recv_sem'[j] = recv_sem[j] \/ (/\ i = j /\ to_server[1].type = "sock"
                                        /\ recv_sem' = [recv_sem EXCEPT ![i] = @ + 1])
      BY <1>13, <3>2, ArriveFacts, ZenonT(60) DEF HeapType
    <3> QED BY <3>4, <3>5, <3>6
  <2> QED BY <2>3, <2>4 DEF OrderInv
<1>14. ASSUME ListenClose PROVE OrderInv'
  <2>1. /\ to_server # <<>> /\ to_server' = Tail(to_server) /\ closing = 0
        /\ sem_map' = sem_map
    BY <1>14, ArriveFacts
  <2>2. /\ 1 \in 1 .. Len(to_server)
        /\ \A p \in 1 .. Len(to_server') :
             p + 1 \in 1 .. Len(to_server) /\ to_server'[p] = to_server[p + 1]
    BY <2>1, ServerHead
  <2> DEFINE i == to_server[1].id
  <2>3. ASSUME NEW p \in 1 .. Len(to_server'), to_server'[p].type = "sock", NEW q \in 1 .. p - 1,
               to_server'[q].type = "sock", to_server'[q].id = to_server'[p].id
        PROVE  to_server'[q].n < to_server'[p].n
    <3>1. q + 1 \in 1 .. (p + 1) - 1 /\ q \in 1 .. Len(to_server')
      BY <2>2
    <3> QED BY <2>2, <2>3, <3>1 DEF OrderInv
  <2>4. ASSUME NEW p \in 1 .. Len(to_server'), to_server'[p].type = "sock",
               Listening(to_server[p].id)'
        PROVE  recv_sem'[to_server'[p].id] < to_server'[p].n
    <3> DEFINE j == to_server[p + 1].id
    <3>1. /\ p + 1 \in 1 .. Len(to_server) /\ to_server'[p] = to_server[p + 1]
          /\ to_server[p + 1].type = "sock" /\ 1 \in 1 .. (p + 1) - 1
      BY <2>2, <2>4
    <3>2. j \in sem_map /\ j # closing' /\ j \in Sockets
      BY <2>1, <2>4, <3>1 DEF Listening, MapType
    <3>3. Listening(j) /\ recv_sem[j] < to_server[p + 1].n
      BY <2>1, <3>1, <3>2 DEF OrderInv, Listening, Sockets
    <3>4. CASE recv_sem'[j] = recv_sem[j]
      BY <3>1, <3>3, <3>4
    <3>5. CASE /\ i = j /\ to_server[1].type = "sock" /\ recv_sem' = [recv_sem EXCEPT ![i] = @ + 1]
      <4>1. recv_sem[j] < to_server[1].n /\ to_server[1].n < to_server[p + 1].n
        BY <2>2, <3>1, <3>3, <3>5 DEF OrderInv
      <4>2. recv_sem'[j] = recv_sem[j] + 1 /\ recv_sem[j] \in Int
        BY <3>2, <3>5 DEF HeapType
      <4>3. to_server[1].n \in Int /\ to_server[p + 1].n \in Int
        BY <2>2, <3>1, WireTypes, MsgsAssumption
      <4> QED BY <3>1, <4>1, <4>2, <4>3, SMTT(30)
    <3>6. recv_sem'[j] = recv_sem[j] \/ (/\ i = j /\ to_server[1].type = "sock"
                                        /\ recv_sem' = [recv_sem EXCEPT ![i] = @ + 1])
      BY <1>14, <3>2, ArriveFacts DEF HeapType
    <3> QED BY <3>4, <3>5, <3>6
  <2> QED BY <2>3, <2>4 DEF OrderInv
<1>15. ASSUME CloseErase PROVE OrderInv'
  BY <1>15 DEF CloseErase, OrderInv, Listening
<1>16. ASSUME NEW i \in Sockets, RecvFind(i) PROVE OrderInv'
  BY <1>16 DEF RecvFind, OrderInv, Listening, Closed
<1>17. ASSUME NEW i \in Sockets, RecvGetSem(i) PROVE OrderInv'
  BY <1>17 DEF RecvGetSem, OrderInv, Listening
<1>18. ASSUME NEW i \in Sockets, RecvWait(i) PROVE OrderInv'
  <2>1. /\ UNCHANGED <<to_server, sem_map, closing>>
        /\ recv_sem' = [recv_sem EXCEPT ![i] = @ - 1]
    BY <1>18 DEF RecvWait
  <2>2. \A j \in Sockets : recv_sem'[j] <= recv_sem[j] /\ recv_sem[j] \in Int /\ recv_sem'[j] \in Int
    BY <2>1 DEF HeapType
  <2>3. \A p \in 1 .. Len(to_server) :
          to_server[p].type = "sock" => to_server[p].id \in Sockets /\ to_server[p].n \in Int
    BY WireTypes, MsgsAssumption DEF ToServerInv
  <2> QED BY <2>1, <2>2, <2>3 DEF OrderInv, Listening
<1>19. ASSUME NEW i \in Sockets, RecvStatus(i) PROVE OrderInv'
  BY <1>19 DEF RecvStatus, OrderInv, Listening, Closed
<1>20. ASSUME NEW i \in Sockets, RecvLookup(i) PROVE OrderInv'
  BY <1>20 DEF RecvLookup, OrderInv, Listening
<1>21. ASSUME NEW i \in Sockets, RecvPop(i) PROVE OrderInv'
  BY <1>21 DEF RecvPop, OrderInv, Listening
<1>22. ASSUME NEW i \in Sockets, Answer(i) PROVE OrderInv'
  BY <1>22 DEF Answer, OrderInv, Listening
<1>23. ASSUME NEW i \in Sockets, BadAccess(i) PROVE OrderInv'
  BY <1>23 DEF BadAccess, OrderInv, Listening
<1>24. ASSUME Lose PROVE OrderInv'
  <2>1. UNCHANGED <<sem_map, closing, recv_sem>>
    BY <1>24 DEF Lose
  <2>2. CASE to_server' = to_server
    BY <2>1, <2>2 DEF OrderInv, Listening
  <2>3. CASE to_server' # to_server
    <3>1. \A p \in 1 .. Len(to_server') :
            p + 1 \in 1 .. Len(to_server) /\ to_server'[p] = to_server[p + 1]
      BY <1>24, <2>3, ServerTakes
    <3>2. \A p \in 1 .. Len(to_server') : \A q \in 1 .. p - 1 :
            q \in 1 .. Len(to_server') /\ q + 1 \in 1 .. (p + 1) - 1
      BY <3>1
    <3> QED BY <2>1, <3>1, <3>2 DEF OrderInv, Listening
  <2> QED BY <2>2, <2>3
<1> QED BY <1>1, <1>2, <1>3, <1>4, <1>5, <1>6, <1>7, <1>8, <1>9, <1>10, <1>11, <1>12, <1>13, <1>14, <1>15, <1>16, <1>17, <1>18, <1>19, <1>20, <1>21, <1>22, <1>23, <1>24, NextSteps

(* The posts of a semaphore. *)
LEMMA SemStep ==
  ASSUME ThreadType, NetType, DistType, AcceptType, MapType, HeapType, ServeType, TakenInv, QueueInv, ThreadInv, ToServerInv, OrderInv, SemInv, Next
  PROVE  SemInv'
<1> USE DEF net, threads, cdist, cvars, acceptor, smaps, heap, serving, svars
<1>1. ASSUME NEW t \in Threads, ConnectSend(t) PROVE SemInv'
  BY <1>1 DEF ConnectSend, SemInv, Listening
<1>2. ASSUME NEW t \in Threads, ConnectWait(t) PROVE SemInv'
  <2>1. UNCHANGED <<sem_map, closing, recv_sem, sent>>
    BY <1>2 DEF ConnectWait
  <2>2. \A u \in Threads : sock[u] # 0 => sock'[u] = sock[u]
    BY ThreadsGrow DEF Grow
  <2> QED BY <2>1, <2>2 DEF SemInv, Listening, Sockets
<1>3. ASSUME NEW t \in Threads, ConnectRegister(t) PROVE SemInv'
  BY <1>3 DEF ConnectRegister, SemInv, Listening
<1>4. ASSUME NEW t \in Threads, InsertId(t) PROVE SemInv'
  BY <1>4 DEF InsertId, SemInv, Listening
<1>5. ASSUME NEW t \in Threads, Send(t) PROVE SemInv'
  <2>1. UNCHANGED <<sem_map, closing, recv_sem, sock>>
    BY <1>5 DEF Send
  <2>2. \A u \in Threads : sent'[u] >= sent[u] /\ sent[u] \in Int /\ sent'[u] \in Int
    <3>1. \A u \in Threads : sent[u] <= sent'[u]
      BY ThreadsGrow DEF Grow
    <3>2. \A u \in Threads : sent[u] \in Int
      BY DEF ThreadType
    <3>3. ThreadType'
      BY ThreadTypeStep
    <3>4. \A u \in Threads : sent'[u] \in Int
      BY <3>3 DEF ThreadType
    <3> QED BY <3>1, <3>2, <3>4
  <2>3. \A i \in Sockets : recv_sem[i] \in Int /\ (Listening(i)' <=> Listening(i))
    BY <2>1 DEF HeapType, Listening
  <2> QED BY <2>1, <2>2, <2>3 DEF SemInv
<1>6. ASSUME ClientListen PROVE SemInv'
  BY <1>6 DEF ClientListen, SemInv, Listening
<1>7. ASSUME ClientStop PROVE SemInv'
  BY <1>7 DEF ClientStop, SemInv, Listening
<1>8. ASSUME ClientClose PROVE SemInv'
  BY <1>8 DEF ClientClose, SemInv, Listening
<1>9. ASSUME ClientRestart PROVE SemInv'
  BY <1>9 DEF ClientRestart, SemInv, Listening
<1>10. ASSUME AcceptAnnounce PROVE SemInv'
  BY <1>10 DEF AcceptAnnounce, SemInv, Listening
<1>11. ASSUME AcceptRegister PROVE SemInv'
  <2>1. /\ UNCHANGED <<sock, sent, closing>> /\ sem_map' = sem_map \cup {mfsockid}
        /\ recv_sem' = [recv_sem EXCEPT ![mfsockid] = 0]
    BY <1>11 DEF AcceptRegister
  <2> QED BY <2>1 DEF SemInv, Listening, HeapType
<1>12. ASSUME ListenCreate PROVE SemInv'
  BY <1>12 DEF ListenCreate, SemInv, Listening, Arrives
<1>13. ASSUME ListenSock PROVE SemInv'
  <2>1. /\ to_server # <<>> /\ closing = 0 /\ UNCHANGED <<sock, sent, sem_map>>
    BY <1>13, ArriveFacts
  <2> DEFINE i == to_server[1].id
  <2>2. /\ 1 \in 1 .. Len(to_server) /\ to_server[1].n \in Int
    BY <2>1, ServerHead, WireTypes, MsgsAssumption
  <2>3. ASSUME NEW j \in Sockets, recv_sem'[j] # 0
        PROVE  \E t \in Threads :
                 sock[t] = j /\ recv_sem'[j] <= sent[t] + (IF Listening(j)' THEN 0 ELSE 1)
    <3>1. CASE recv_sem'[j] = recv_sem[j]
      <4>1. PICK t \in Threads :
              sock[t] = j /\ recv_sem[j] <= sent[t] + (IF Listening(j) THEN 0 ELSE 1)
        BY <2>3, <3>1 DEF SemInv
      <4>2. Listening(j)' => Listening(j)
        BY <2>1 DEF Listening, Sockets
      <4> QED BY <3>1, <4>1, <4>2 DEF HeapType, ThreadType
    <3>2. CASE /\ i = j /\ to_server[1].type = "sock" /\ i \in sem_map
               /\ recv_sem' = [recv_sem EXCEPT ![i] = @ + 1]
      <4>1. Listening(j) /\ recv_sem'[j] = recv_sem[j] + 1 /\ recv_sem[j] \in Nat
        BY <2>1, <3>2 DEF Listening, Sockets, HeapType
      <4>2. recv_sem[j] < to_server[1].n
        BY <2>2, <3>2, <4>1 DEF OrderInv
      <4>3. PICK t \in Threads : sock[t] = j /\ to_server[1].n <= sent[t]
        BY <2>2, <3>2 DEF ToServerInv, SentOn
      <4> QED BY <2>2, <4>1, <4>2, <4>3, SMTT(30) DEF ThreadType
    <3>3. CASE /\ i = j /\ to_server[1].type = "close" /\ i \in sem_map /\ closing' = i
               /\ recv_sem' = [recv_sem EXCEPT ![i] = @ + 1]
      <4>1. /\ Listening(j) /\ ~Listening(j)' /\ recv_sem'[j] = recv_sem[j] + 1
            /\ recv_sem[j] \in Nat
        BY <2>1, <3>3 DEF Listening, Sockets, HeapType
      <4>2. PICK t \in Threads : sock[t] = j
        BY <2>2, <3>3 DEF ToServerInv, Owned
      <4>3. CASE recv_sem[j] = 0
        BY <4>1, <4>2, <4>3 DEF ThreadType
      <4>4. CASE recv_sem[j] # 0
        BY <4>1, <4>4 DEF SemInv, ThreadType
      <4> QED BY <4>3, <4>4
    <3>4. \/ recv_sem'[j] = recv_sem[j]
          \/ /\ i = j /\ i \in sem_map /\ recv_sem' = [recv_sem EXCEPT ![i] = @ + 1]
             /\ to_server[1].type = "sock" \/ (to_server[1].type = "close" /\ closing' = i)
      BY <1>13, ArriveFacts DEF HeapType
    <3> QED BY <3>1, <3>2, <3>3, <3>4
  <2> QED BY <2>1, <2>3 DEF SemInv
<1>14. ASSUME ListenClose PROVE SemInv'
  <2>1. /\ to_server # <<>> /\ closing = 0 /\ UNCHANGED <<sock, sent, sem_map>>
    BY <1>14, ArriveFacts
  <2> DEFINE i == to_server[1].id
  <2>2. /\ 1 \in 1 .. Len(to_server) /\ to_server[1].n \in Int
    BY <2>1, ServerHead, WireTypes, MsgsAssumption
  <2>3. ASSUME NEW j \in Sockets, recv_sem'[j] # 0
        PROVE  \E t \in Threads :
                 sock[t] = j /\ recv_sem'[j] <= sent[t] + (IF Listening(j)' THEN 0 ELSE 1)
    <3>1. CASE recv_sem'[j] = recv_sem[j]
      <4>1. PICK t \in Threads :
              sock[t] = j /\ recv_sem[j] <= sent[t] + (IF Listening(j) THEN 0 ELSE 1)
        BY <2>3, <3>1 DEF SemInv
      <4>2. Listening(j)' => Listening(j)
        BY <2>1 DEF Listening, Sockets
      <4> QED BY <3>1, <4>1, <4>2 DEF HeapType, ThreadType
    <3>2. CASE /\ i = j /\ to_server[1].type = "sock" /\ i \in sem_map
               /\ recv_sem' = [recv_sem EXCEPT ![i] = @ + 1]
      <4>1. Listening(j) /\ recv_sem'[j] = recv_sem[j] + 1 /\ recv_sem[j] \in Nat
        BY <2>1, <3>2 DEF Listening, Sockets, HeapType
      <4>2. recv_sem[j] < to_server[1].n
        BY <2>2, <3>2, <4>1 DEF OrderInv
      <4>3. PICK t \in Threads : sock[t] = j /\ to_server[1].n <= sent[t]
        BY <2>2, <3>2 DEF ToServerInv, SentOn
      <4> QED BY <2>2, <4>1, <4>2, <4>3, SMTT(30) DEF ThreadType
    <3>3. CASE /\ i = j /\ to_server[1].type = "close" /\ i \in sem_map /\ closing' = i
               /\ recv_sem' = [recv_sem EXCEPT ![i] = @ + 1]
      <4>1. /\ Listening(j) /\ ~Listening(j)' /\ recv_sem'[j] = recv_sem[j] + 1
            /\ recv_sem[j] \in Nat
        BY <2>1, <3>3 DEF Listening, Sockets, HeapType
      <4>2. PICK t \in Threads : sock[t] = j
        BY <2>2, <3>3 DEF ToServerInv, Owned
      <4>3. CASE recv_sem[j] = 0
        BY <4>1, <4>2, <4>3 DEF ThreadType
      <4>4. CASE recv_sem[j] # 0
        BY <4>1, <4>4 DEF SemInv, ThreadType
      <4> QED BY <4>3, <4>4
    <3>4. \/ recv_sem'[j] = recv_sem[j]
          \/ /\ i = j /\ i \in sem_map /\ recv_sem' = [recv_sem EXCEPT ![i] = @ + 1]
             /\ to_server[1].type = "sock" \/ (to_server[1].type = "close" /\ closing' = i)
      BY <1>14, ArriveFacts DEF HeapType
    <3> QED BY <3>1, <3>2, <3>3, <3>4
  <2> QED BY <2>1, <2>3 DEF SemInv
<1>15. ASSUME CloseErase PROVE SemInv'
  <2>1. /\ UNCHANGED <<sock, sent, recv_sem>> /\ closing' = 0 /\ sem_map' = sem_map \ {closing}
    BY <1>15 DEF CloseErase
  <2>2. \A i \in Sockets : Listening(i)' <=> Listening(i)
    BY <2>1 DEF Listening, Sockets
  <2> QED BY <2>1, <2>2 DEF SemInv
<1>16. ASSUME NEW i \in Sockets, RecvFind(i) PROVE SemInv'
  BY <1>16 DEF RecvFind, SemInv, Listening, Closed
<1>17. ASSUME NEW i \in Sockets, RecvGetSem(i) PROVE SemInv'
  BY <1>17 DEF RecvGetSem, SemInv, Listening
<1>18. ASSUME NEW i \in Sockets, RecvWait(i) PROVE SemInv'
  <2>1. /\ UNCHANGED <<sock, sent, sem_map, closing>> /\ recv_sem[i] > 0
        /\ recv_sem' = [recv_sem EXCEPT ![i] = @ - 1]
    BY <1>18 DEF RecvWait
  <2>2. \A j \in Sockets :
          /\ recv_sem[j] \in Nat /\ recv_sem'[j] \in Nat
          /\ recv_sem'[j] <= recv_sem[j] /\ (recv_sem'[j] # 0 => recv_sem[j] # 0)
    BY <2>1 DEF HeapType
  <2>3. \A j \in Sockets : Listening(j)' <=> Listening(j)
    BY <2>1 DEF Listening
  <2> QED BY <2>1, <2>2, <2>3 DEF SemInv, ThreadType
<1>19. ASSUME NEW i \in Sockets, RecvStatus(i) PROVE SemInv'
  BY <1>19 DEF RecvStatus, SemInv, Listening, Closed
<1>20. ASSUME NEW i \in Sockets, RecvLookup(i) PROVE SemInv'
  BY <1>20 DEF RecvLookup, SemInv, Listening
<1>21. ASSUME NEW i \in Sockets, RecvPop(i) PROVE SemInv'
  BY <1>21 DEF RecvPop, SemInv, Listening
<1>22. ASSUME NEW i \in Sockets, Answer(i) PROVE SemInv'
  BY <1>22 DEF Answer, SemInv, Listening
<1>23. ASSUME NEW i \in Sockets, BadAccess(i) PROVE SemInv'
  BY <1>23 DEF BadAccess, SemInv, Listening
<1>24. ASSUME Lose PROVE SemInv'
  BY <1>24 DEF Lose, SemInv, Listening
<1> QED BY <1>1, <1>2, <1>3, <1>4, <1>5, <1>6, <1>7, <1>8, <1>9, <1>10, <1>11, <1>12, <1>13, <1>14, <1>15, <1>16, <1>17, <1>18, <1>19, <1>20, <1>21, <1>22, <1>23, <1>24, NextSteps

-----------------------------------------------------------------------------
(* What recv() takes, and what listen() adds. *)
LEMMA PopFacts ==
  ASSUME HeapType, ServeType, ArrivedInv, NEW i \in Sockets, RecvPop(i)
  PROVE  /\ received' = [received EXCEPT ![i] = received[i] + 1]
         /\ Len(queue'[i]) = Len(queue[i]) - 1 /\ Len(queue[i]) \in Nat
         /\ \A p \in 1 .. Len(queue'[i]) :
              p + 1 \in 1 .. Len(queue[i]) /\ queue'[i][p] = queue[i][p + 1]
         /\ \A j \in Sockets : j # i => queue'[j] = queue[j]
         /\ \A j \in Sockets : Arrived(j)' = Arrived(j)
         /\ UNCHANGED <<to_server, sock, sent, sem_map, closing>>
<1>1. /\ queue[i] # <<>> /\ queue[i] \in Seq(1 .. MaxMsgs)
      /\ received' = [received EXCEPT ![i] = Head(queue[i])]
      /\ queue' = [queue EXCEPT ![i] = Tail(@)]
      /\ UNCHANGED <<to_server, sock, sent, sem_map, closing>>
  BY DEF RecvPop, HeapType, net, threads, cvars, smaps
<1>2. /\ Len(queue[i]) \in Nat /\ 1 \in 1 .. Len(queue[i])
      /\ Head(queue[i]) = queue[i][1] /\ Len(Tail(queue[i])) = Len(queue[i]) - 1
      /\ \A p \in 1 .. Len(Tail(queue[i])) :
           p + 1 \in 1 .. Len(queue[i]) /\ Tail(queue[i])[p] = queue[i][p + 1]
  BY <1>1, HeadFacts
<1>3. Head(queue[i]) = received[i] + 1
  BY <1>2 DEF ArrivedInv
<1>4. queue'[i] = Tail(queue[i]) /\ \A j \in Sockets : j # i => queue'[j] = queue[j]
  BY <1>1 DEF HeapType
<1>5. /\ received'[i] = received[i] + 1 /\ received[i] \in Nat
      /\ \A j \in Sockets : j # i => received'[j] = received[j]
  BY <1>1, <1>3 DEF ServeType
<1>6. \A j \in Sockets : Arrived(j)' = Arrived(j)
  <2>1. received'[i] + Len(queue'[i]) = received[i] + Len(queue[i])
    BY <1>2, <1>4, <1>5
  <2> QED BY <1>4, <1>5, <2>1 DEF Arrived
<1>7. received' = [received EXCEPT ![i] = received[i] + 1]
  BY <1>1, <1>3
<1> QED BY <1>1, <1>2, <1>4, <1>6, <1>7

\* What the server's listen() puts into a queue is the message after the last that arrived.
LEMMA InLine ==
  ASSUME NetType, MapType, HeapType, ServeType, FlightInv, ListenSock
  PROVE  LET i == to_server[1].id IN
         /\ to_server[1].type = "sock" /\ 1 \in 1 .. Len(to_server) /\ Len(to_server) \in Nat
         /\ Len(to_server') = Len(to_server) - 1
         /\ \A p \in 1 .. Len(to_server') :
              p + 1 \in 1 .. Len(to_server) /\ to_server'[p] = to_server[p + 1]
         /\ UNCHANGED <<received, sem_map, closing, sock, sent>>
         /\ \A j \in Sockets : Listening(j) <=> j \in sem_map
         /\ IF i \in sem_map
            THEN /\ i \in Sockets /\ to_server[1].n = Arrived(i) + 1
                 /\ queue' = [queue EXCEPT ![i] = Append(@, to_server[1].n)]
                 /\ Len(queue'[i]) = Len(queue[i]) + 1 /\ Len(queue[i]) \in Nat
                 /\ queue'[i][Len(queue[i]) + 1] = to_server[1].n
                 /\ \A p \in 1 .. Len(queue[i]) : queue'[i][p] = queue[i][p]
                 /\ received[i] + Len(queue'[i]) = Arrived(i) + 1
                 /\ \A j \in Sockets : j # i => queue'[j] = queue[j] /\ Arrived(j)' = Arrived(j)
            ELSE queue' = queue /\ \A j \in Sockets : Arrived(j)' = Arrived(j)
<1> DEFINE i == to_server[1].id
           n == to_server[1].n
<1>1. /\ to_server # <<>> /\ to_server' = Tail(to_server) /\ closing = 0
      /\ UNCHANGED <<received, sem_map, sock, sent>>
      /\ Head(to_server).type = "sock" /\ closing' = closing
  BY ArriveFacts DEF ListenSock, Arrives
<1>2. /\ to_server[1].type = "sock" /\ 1 \in 1 .. Len(to_server) /\ Len(to_server) \in Nat
      /\ Len(to_server') = Len(to_server) - 1
      /\ \A p \in 1 .. Len(to_server') :
           p + 1 \in 1 .. Len(to_server) /\ to_server'[p] = to_server[p + 1]
  BY <1>1, ServerHead
<1>3. \A j \in Sockets : Listening(j) <=> j \in sem_map
  BY <1>1 DEF Listening, Sockets
<1>4. CASE i \notin sem_map
  <2>1. queue' = queue
    BY <1>4, ArriveFacts
  <2> QED BY <1>1, <1>2, <1>3, <1>4, <2>1, SMTT(30) DEF Arrived
<1>5. CASE i \in sem_map
  <2>1. i \in Sockets /\ queue[i] \in Seq(1 .. MaxMsgs) /\ received[i] \in Nat
    BY <1>5 DEF MapType, HeapType, ServeType
  <2>2. queue' = [queue EXCEPT ![i] = Append(@, n)]
    BY <1>2, <1>5, ArriveFacts
  <2>3. n = Arrived(i) + 1 /\ Arrived(i) < n
    BY <1>2, <1>3, <1>5, <2>1 DEF FlightInv, InFlight
  <2>4. /\ Len(Append(queue[i], n)) = Len(queue[i]) + 1 /\ Len(queue[i]) \in Nat
        /\ Append(queue[i], n)[Len(queue[i]) + 1] = n
        /\ \A p \in 1 .. Len(queue[i]) : Append(queue[i], n)[p] = queue[i][p]
    <3>1. n \in Nat /\ queue[i] \in Seq(Nat)
      <4>1. n \in 0 .. MaxMsgs
        BY <1>2, WireTypes
      <4> QED BY <2>1, <4>1, MsgsAssumption
    <3> QED BY <3>1, AppendFacts, SMTT(30)
  <2>5. queue'[i] = Append(queue[i], n) /\ \A j \in Sockets : j # i => queue'[j] = queue[j]
    BY <2>1, <2>2 DEF HeapType
  <2>6. received[i] + Len(queue'[i]) = Arrived(i) + 1
    <3>1. Len(queue'[i]) = Len(queue[i]) + 1
      BY <2>4, <2>5, Zenon
    <3>2. Arrived(i) = received[i] + Len(queue[i])
      BY DEF Arrived
    <3>3. received[i] \in Nat /\ Len(queue[i]) \in Nat
      BY <2>1, <2>4
    <3> HIDE DEF i
    <3> QED BY <3>1, <3>2, <3>3
  <2>7. \A j \in Sockets : j # i => Arrived(j)' = Arrived(j)
    BY <1>1, <2>5 DEF Arrived
  <2> HIDE DEF n
  <2> QED BY <1>1, <1>2, <1>3, <1>5, <2>1, <2>2, <2>3, <2>4, <2>5, <2>6, <2>7 DEF n
<1> QED BY <1>4, <1>5

(* Until a number is taken nothing but the header was sent on it. *)
LEMMA HeaderOnly ==
  ASSUME ThreadType, AcceptType, TakenInv, ServeType, ToServerInv, AnswerInv, NetType,
         AcceptRegister
  PROVE  /\ mfsockid \in Sockets /\ received[mfsockid] = 0
         /\ \A t \in Threads : sock[t] = mfsockid => sent[t] \in 0 .. 1
         /\ \A p \in 1 .. Len(to_server) :
              to_server[p].type = "sock" /\ to_server[p].id = mfsockid => to_server[p].n = 1
<1>1. mfsockid \in Sockets /\ received[mfsockid] = 0
  BY DEF AcceptRegister, TakenInv, Taken, AcceptType, Sockets
<1>2. \A t \in Threads : sock[t] = mfsockid => sent[t] \in 0 .. 1
  BY <1>1, MsgsAssumption DEF AnswerInv, ThreadType
<1>3. \A p \in 1 .. Len(to_server) :
        to_server[p].type = "sock" /\ to_server[p].id = mfsockid => to_server[p].n = 1
  BY <1>2, WireTypes, MsgsAssumption, SMTT(30) DEF ToServerInv, SentOn
<1> QED BY <1>1, <1>2, <1>3

(* What has arrived on a socket. *)
LEMMA ArrivedStep ==
  ASSUME ThreadType, NetType, DistType, AcceptType, MapType, HeapType, ServeType, TakenInv, QueueInv, OneOwner, ThreadInv, ToServerInv, HeardInv, AnswerInv, OrderInv, SemInv, ~Lossy, ArrivedInv, FlightInv, SenderInv, Next
  PROVE  ArrivedInv'
<1> USE DEF net, threads, cdist, cvars, acceptor, smaps, heap, serving, svars
<1>1. ASSUME NEW t \in Threads, ConnectSend(t) PROVE ArrivedInv'
  BY <1>1 DEF ConnectSend, ArrivedInv
<1>2. ASSUME NEW t \in Threads, ConnectWait(t) PROVE ArrivedInv'
  BY <1>2 DEF ConnectWait, ArrivedInv
<1>3. ASSUME NEW t \in Threads, ConnectRegister(t) PROVE ArrivedInv'
  BY <1>3 DEF ConnectRegister, ArrivedInv
<1>4. ASSUME NEW t \in Threads, InsertId(t) PROVE ArrivedInv'
  BY <1>4 DEF InsertId, ArrivedInv
<1>5. ASSUME NEW t \in Threads, Send(t) PROVE ArrivedInv'
  BY <1>5 DEF Send, ArrivedInv
<1>6. ASSUME ClientListen PROVE ArrivedInv'
  BY <1>6 DEF ClientListen, ArrivedInv
<1>7. ASSUME ClientStop PROVE ArrivedInv'
  BY <1>7 DEF ClientStop, ArrivedInv
<1>8. ASSUME ClientClose PROVE ArrivedInv'
  BY <1>8 DEF ClientClose, ArrivedInv
<1>9. ASSUME ClientRestart PROVE ArrivedInv'
  BY <1>9 DEF ClientRestart, ArrivedInv
<1>10. ASSUME AcceptAnnounce PROVE ArrivedInv'
  BY <1>10 DEF AcceptAnnounce, ArrivedInv
<1>11. ASSUME AcceptRegister PROVE ArrivedInv'
  BY <1>11 DEF AcceptRegister, ArrivedInv
<1>12. ASSUME ListenCreate PROVE ArrivedInv'
  BY <1>12 DEF ListenCreate, ArrivedInv, Arrives
<1>13. ASSUME ListenSock PROVE ArrivedInv'
  <2>1. \A j \in Sockets : \A p \in 1 .. Len(queue[j]) : queue[j][p] = received[j] + p
    BY DEF ArrivedInv
  <2>2. CASE to_server[1].id \notin sem_map
    BY <1>13, <2>1, <2>2, InLine DEF ArrivedInv
  <2>3. CASE to_server[1].id \in sem_map
    <3> DEFINE i == to_server[1].id
    <3>1. /\ received' = received /\ i \in Sockets /\ to_server[1].n = Arrived(i) + 1
          /\ Len(queue'[i]) = Len(queue[i]) + 1 /\ Len(queue[i]) \in Nat
          /\ queue'[i][Len(queue[i]) + 1] = to_server[1].n
          /\ \A p \in 1 .. Len(queue[i]) : queue'[i][p] = queue[i][p]
          /\ \A j \in Sockets : j # i => queue'[j] = queue[j]
      BY <1>13, <2>3, InLine
    <3>2. \A p \in 1 .. Len(queue'[i]) : p \in 1 .. Len(queue[i]) \/ p = Len(queue[i]) + 1
      BY <3>1
    <3>3. \A p \in 1 .. Len(queue'[i]) : queue'[i][p] = received[i] + p
      <4>1. \A p \in 1 .. Len(queue[i]) : queue'[i][p] = received[i] + p
        BY <2>1, <3>1
      <4>2. queue'[i][Len(queue[i]) + 1] = received[i] + (Len(queue[i]) + 1)
        <5>1. Arrived(i) = received[i] + Len(queue[i]) /\ received[i] \in Nat
          BY <3>1 DEF Arrived, ServeType
        <5> QED BY <3>1, <5>1, SMTT(30)
      <4> QED BY <3>2, <4>1, <4>2
    <3> HIDE DEF i
    <3> QED BY <2>1, <3>1, <3>3 DEF ArrivedInv
  <2> QED BY <2>2, <2>3
<1>14. ASSUME ListenClose PROVE ArrivedInv'
  BY <1>14 DEF ListenClose, ArrivedInv, Arrives
<1>15. ASSUME CloseErase PROVE ArrivedInv'
  BY <1>15 DEF CloseErase, ArrivedInv
<1>16. ASSUME NEW i \in Sockets, RecvFind(i) PROVE ArrivedInv'
  BY <1>16 DEF RecvFind, ArrivedInv, Closed
<1>17. ASSUME NEW i \in Sockets, RecvGetSem(i) PROVE ArrivedInv'
  BY <1>17 DEF RecvGetSem, ArrivedInv
<1>18. ASSUME NEW i \in Sockets, RecvWait(i) PROVE ArrivedInv'
  BY <1>18 DEF RecvWait, ArrivedInv
<1>19. ASSUME NEW i \in Sockets, RecvStatus(i) PROVE ArrivedInv'
  BY <1>19 DEF RecvStatus, ArrivedInv, Closed
<1>20. ASSUME NEW i \in Sockets, RecvLookup(i) PROVE ArrivedInv'
  BY <1>20 DEF RecvLookup, ArrivedInv
<1>21. ASSUME NEW i \in Sockets, RecvPop(i) PROVE ArrivedInv'
  <2>1. \A j \in Sockets : \A p \in 1 .. Len(queue[j]) : queue[j][p] = received[j] + p
    BY DEF ArrivedInv
  <2>2. \A p \in 1 .. Len(queue'[i]) : queue'[i][p] = received'[i] + p
    <3>1. received'[i] = received[i] + 1 /\ received[i] \in Nat
      BY <1>21, PopFacts DEF ServeType
    <3>2. ASSUME NEW p \in 1 .. Len(queue'[i]) PROVE queue'[i][p] = received'[i] + p
      <4>1. p + 1 \in 1 .. Len(queue[i]) /\ queue'[i][p] = queue[i][p + 1]
        BY <1>21, PopFacts
      <4>2. queue[i][p + 1] = received[i] + (p + 1)
        BY <2>1, <4>1
      <4> QED BY <3>1, <4>1, <4>2
    <3> QED BY <3>2
  <2>3. \A j \in Sockets : j # i => queue'[j] = queue[j] /\ received'[j] = received[j]
    BY <1>21, PopFacts DEF ServeType
  <2> QED BY <2>1, <2>2, <2>3 DEF ArrivedInv
<1>22. ASSUME NEW i \in Sockets, Answer(i) PROVE ArrivedInv'
  BY <1>22 DEF Answer, ArrivedInv
<1>23. ASSUME NEW i \in Sockets, BadAccess(i) PROVE ArrivedInv'
  BY <1>23 DEF BadAccess, ArrivedInv
<1>24. ASSUME Lose PROVE ArrivedInv'
  BY <1>24 DEF Lose, ArrivedInv
<1> QED BY <1>1, <1>2, <1>3, <1>4, <1>5, <1>6, <1>7, <1>8, <1>9, <1>10, <1>11, <1>12, <1>13, <1>14, <1>15, <1>16, <1>17, <1>18, <1>19, <1>20, <1>21, <1>22, <1>23, <1>24, NextSteps

(* What is on its way continues it. *)
LEMMA FlightStep ==
  ASSUME ThreadType, NetType, DistType, AcceptType, MapType, HeapType, ServeType, TakenInv, QueueInv, OneOwner, ThreadInv, ToServerInv, HeardInv, AnswerInv, OrderInv, SemInv, ~Lossy, ArrivedInv, FlightInv, SenderInv, Next
  PROVE  FlightInv'
<1> USE DEF net, threads, cdist, cvars, acceptor, smaps, heap, serving, svars
<1>1. ASSUME NEW t \in Threads, ConnectSend(t) PROVE FlightInv'
  <2>1. /\ to_server' = Append(to_server, Msg("create", 0, 0))
        /\ UNCHANGED <<sem_map, closing, received, queue>>
    BY <1>1 DEF ConnectSend
  <2>2. \A p \in 1 .. Len(to_server') : to_server'[p].type = "sock" =>
          /\ p \in 1 .. Len(to_server) /\ to_server'[p] = to_server[p]
          /\ \A q \in 1 .. p - 1 : q \in 1 .. Len(to_server) /\ to_server'[q] = to_server[q]
    BY <2>1, ServerAppend, MsgFacts DEF Msg
  <2> QED BY <2>1, <2>2, SMTT(30) DEF FlightInv, Listening, Arrived, InFlight
<1>2. ASSUME NEW t \in Threads, ConnectWait(t) PROVE FlightInv'
  BY <1>2 DEF ConnectWait, FlightInv, Listening, Arrived, InFlight
<1>3. ASSUME NEW t \in Threads, ConnectRegister(t) PROVE FlightInv'
  BY <1>3 DEF ConnectRegister, FlightInv, Listening, Arrived, InFlight
<1>4. ASSUME NEW t \in Threads, InsertId(t) PROVE FlightInv'
  BY <1>4 DEF InsertId, FlightInv, Listening, Arrived, InFlight
<1>5. ASSUME NEW t \in Threads, Send(t) PROVE FlightInv'
  <2>1. /\ to_server' = Append(to_server, Msg("sock", sock[t], sent[t] + 1))
        /\ UNCHANGED <<sem_map, closing, received, queue>>
        /\ sock[t] \in Sockets /\ sent[t] \in Nat
        /\ Msg("sock", sock[t], sent[t] + 1) \in Messages
    BY <1>5, SendFacts
  <2> DEFINE m == [type |-> "sock", id |-> sock[t], n |-> sent[t] + 1]
             i == sock[t]
             L == Len(to_server)
  <2>2. /\ L \in Nat /\ to_server'[L + 1] = m
        /\ \A p \in 1 .. L : to_server'[p] = to_server[p]
        /\ \A p \in 1 .. Len(to_server') : p \in 1 .. L \/ p = L + 1
    BY <2>1, ServerAppend DEF Msg
  <2>3. m.id = i /\ m.n = sent[t] + 1
    OBVIOUS
  <2>4. Arrived(i) \in Nat /\ (i \in answered => Arrived(i) > 0)
    BY <2>1 DEF Arrived, HeapType, ServeType, AnswerInv
  <2>5. ASSUME Listening(i)
        PROVE  Arrived(i) < m.n /\ (m.n = Arrived(i) + 1 \/ InFlight(i, m.n - 1, L))
    <3>1. CASE sent[t] = Arrived(i)
      BY <2>3, <2>4, <3>1
    <3>2. CASE InFlight(i, sent[t], L)
      <4>1. PICK q \in 1 .. L :
              to_server[q].type = "sock" /\ to_server[q].id = i /\ to_server[q].n = sent[t]
        BY <3>2 DEF InFlight
      <4>2. Arrived(i) < sent[t]
        BY <2>5, <4>1 DEF FlightInv
      <4> QED BY <2>1, <2>3, <2>4, <3>2, <4>2
    <3>3. CASE Arrived(i) = 0 /\ sent[t] <= 1
      <4>1. sent[t] = 0
        BY <1>5, <2>1, <2>4, <3>3 DEF Send, ThreadInv
      <4> QED BY <2>3, <3>3, <4>1
    <3> QED BY <2>1, <2>5, <3>1, <3>2, <3>3 DEF SenderInv, Sockets
  <2> HIDE DEF m, i, L
  <2>6. ASSUME NEW p \in 1 .. Len(to_server'), to_server'[p].type = "sock",
               Listening(to_server'[p].id)
        PROVE  /\ Arrived(to_server'[p].id) < to_server'[p].n
               /\ \/ to_server'[p].n = Arrived(to_server'[p].id) + 1
                  \/ \E q \in 1 .. p - 1 :
                       /\ to_server'[q].type = "sock" /\ to_server'[q].id = to_server'[p].id
                       /\ to_server'[q].n = to_server'[p].n - 1
    <3>1. CASE p \in 1 .. L
      <4>1. \A q \in 1 .. p - 1 : q \in 1 .. L
        BY <2>2, <3>1
      <4> QED BY <2>2, <2>6, <3>1, <4>1 DEF FlightInv, InFlight, L
    <3>2. CASE p = L + 1
      <4>1. \A q \in 1 .. L : q \in 1 .. p - 1
        BY <2>2, <3>2
      <4> QED BY <2>2, <2>3, <2>5, <2>6, <3>2, <4>1 DEF InFlight
    <3> QED BY <2>2, <3>1, <3>2
  <2> QED BY <2>1, <2>6 DEF FlightInv, Listening, Arrived, InFlight
<1>6. ASSUME ClientListen PROVE FlightInv'
  BY <1>6 DEF ClientListen, FlightInv, Listening, Arrived, InFlight
<1>7. ASSUME ClientStop PROVE FlightInv'
  BY <1>7 DEF ClientStop, FlightInv, Listening, Arrived, InFlight
<1>8. ASSUME ClientClose PROVE FlightInv'
  <2>1. PICK i \in id_set : to_server' = Append(to_server, Msg("close", i, 0))
    BY <1>8 DEF ClientClose
  <2>2. UNCHANGED <<sem_map, closing, received, queue>>
    BY <1>8 DEF ClientClose
  <2>3. Msg("close", i, 0) \in Messages /\ Msg("close", i, 0).type = "close"
    BY MsgFacts DEF DistType, Msg
  <2>4. \A p \in 1 .. Len(to_server') : to_server'[p].type = "sock" =>
          /\ p \in 1 .. Len(to_server) /\ to_server'[p] = to_server[p]
          /\ \A q \in 1 .. p - 1 : q \in 1 .. Len(to_server) /\ to_server'[q] = to_server[q]
    BY <2>1, <2>3, ServerAppend
  <2> QED BY <2>2, <2>4, ZenonT(60) DEF FlightInv, Listening, Arrived, InFlight
<1>9. ASSUME ClientRestart PROVE FlightInv'
  BY <1>9 DEF ClientRestart, FlightInv, Listening, Arrived, InFlight
<1>10. ASSUME AcceptAnnounce PROVE FlightInv'
  BY <1>10 DEF AcceptAnnounce, FlightInv, Listening, Arrived, InFlight
<1>11. ASSUME AcceptRegister PROVE FlightInv'
  <2>1. /\ UNCHANGED <<to_server, closing, received>> /\ sem_map' = sem_map \cup {mfsockid}
        /\ queue' = [queue EXCEPT ![mfsockid] = <<>>]
    BY <1>11 DEF AcceptRegister
  <2>2. Arrived(mfsockid)' = 0
    <3>1. queue'[mfsockid] = <<>> /\ received'[mfsockid] = 0
      BY <1>11, <2>1, HeaderOnly DEF HeapType
    <3>2. received'[mfsockid] + Len(queue'[mfsockid]) = 0
      BY <3>1
    <3>3. mfsockid' = mfsockid
      BY <1>11 DEF AcceptRegister
    <3> QED BY <3>2, <3>3 DEF Arrived
  <2>3. \A j \in Sockets : j # mfsockid => (Arrived(j)' = Arrived(j) /\ (Listening(j)' <=> Listening(j)))
    BY <2>1 DEF Arrived, Listening, HeapType
  <2>4. mfsockid' = mfsockid
    BY <1>11 DEF AcceptRegister
  <2>5. \A p \in 1 .. Len(to_server) : to_server[p].type = "sock" =>
          to_server[p].id \in Sockets /\ (to_server[p].id = mfsockid => to_server[p].n = 1)
    BY <1>11, HeaderOnly, WireTypes DEF ToServerInv
  <2>6. ASSUME NEW p \in 1 .. Len(to_server), to_server[p].type = "sock", Listening(to_server[p].id)'
        PROVE  /\ Arrived(to_server[p].id)' < to_server[p].n
               /\ \/ to_server[p].n = Arrived(to_server[p].id)' + 1
                  \/ InFlight(to_server[p].id, to_server[p].n - 1, p - 1)
    <3> DEFINE j == to_server[p].id
    <3>1. j' = j
      BY <2>1
    <3>2. CASE j = mfsockid
      <4>1. Arrived(j)' = 0 /\ to_server[p].n = 1
        BY <2>1, <2>2, <2>4, <2>5, <2>6, <3>2 DEF Arrived
      <4> QED BY <4>1
    <3>3. CASE j # mfsockid
      <4>1. Arrived(j)' = Arrived(j) /\ Listening(j)
        BY <2>1, <2>3, <2>5, <2>6, <3>3 DEF Arrived, Listening
      <4> QED BY <2>6, <4>1 DEF FlightInv
    <3> QED BY <3>2, <3>3
  <2> QED BY <2>1, <2>6 DEF FlightInv, InFlight
<1>12. ASSUME ListenCreate PROVE FlightInv'
  <2>1. /\ to_server[1].type # "sock" /\ UNCHANGED <<sem_map, received, queue>>
        /\ \A i \in Sockets : Listening(i)' => Listening(i)
        /\ \A p \in 1 .. Len(to_server') :
             p + 1 \in 1 .. Len(to_server) /\ to_server'[p] = to_server[p + 1]
    <3>1. to_server # <<>> /\ to_server' = Tail(to_server)
      BY <1>12, ServerTakes
    <3>2. to_server[1].type # "sock"
      BY <1>12, <3>1, ServerHead DEF ListenCreate, ListenClose, Arrives
    <3>3. UNCHANGED <<sem_map, received, queue>> /\ closing = 0
      BY <1>12 DEF ListenCreate, ListenClose, Arrives
    <3>4. \A i \in Sockets : Listening(i)' => Listening(i)
      BY <3>3 DEF Listening, Sockets
    <3> QED BY <3>1, <3>2, <3>3, <3>4, ServerHead
  <2>2. ASSUME NEW p \in 1 .. Len(to_server'), to_server'[p].type = "sock",
               Listening(to_server[p].id)'
        PROVE  /\ Arrived(to_server'[p].id) < to_server'[p].n
               /\ \/ to_server'[p].n = Arrived(to_server'[p].id) + 1
                  \/ \E q \in 1 .. p - 1 :
                       /\ to_server'[q].type = "sock" /\ to_server'[q].id = to_server'[p].id
                       /\ to_server'[q].n = to_server'[p].n - 1
    <3> DEFINE m == to_server[p + 1]
    <3>1. /\ p + 1 \in 1 .. Len(to_server) /\ to_server'[p] = m /\ m.type = "sock"
          /\ m.id \in Sockets
      BY <2>1, <2>2, WireTypes DEF ToServerInv
    <3>2. Listening(m.id)
      BY <2>1, <2>2, <3>1 DEF Listening, Sockets
    <3>3. /\ Arrived(m.id) < m.n
          /\ m.n = Arrived(m.id) + 1 \/ InFlight(m.id, m.n - 1, p)
      BY <3>1, <3>2 DEF FlightInv
    <3>4. ASSUME NEW q \in 1 .. p, to_server[q].type = "sock"
          PROVE  q - 1 \in 1 .. p - 1 /\ to_server'[q - 1] = to_server[q]
      <4>1. q # 1
        BY <2>1, <3>4
      <4>2. q - 1 \in 1 .. Len(to_server')
        BY <4>1
      <4> QED BY <2>1, <4>1, <4>2
    <3> HIDE DEF m
    <3> QED BY <3>1, <3>3, <3>4 DEF InFlight
  <2> QED BY <2>1, <2>2 DEF FlightInv, Arrived, InFlight
<1>13. ASSUME ListenSock PROVE FlightInv'
  <2> DEFINE i == to_server[1].id
  <2>1. ASSUME NEW p \in 1 .. Len(to_server'), to_server'[p].type = "sock",
               to_server'[p].id \in sem_map
        PROVE  /\ received[to_server'[p].id] + Len(queue'[to_server'[p].id]) < to_server'[p].n
               /\ \/ to_server'[p].n = received[to_server'[p].id] + Len(queue'[to_server'[p].id]) + 1
                  \/ \E q \in 1 .. p - 1 :
                       /\ to_server'[q].type = "sock" /\ to_server'[q].id = to_server'[p].id
                       /\ to_server'[q].n = to_server'[p].n - 1
    <3> DEFINE m == to_server[p + 1]
               j == m.id
               A == received[j] + Len(queue'[j])
    <3>1. /\ p + 1 \in 1 .. Len(to_server) /\ to_server'[p] = m /\ m.type = "sock"
          /\ j \in Sockets /\ j \in sem_map /\ Listening(j) /\ m.n \in Int
          /\ to_server[1].n \in Int /\ to_server[1].type = "sock"
      BY <1>13, <2>1, InLine, WireTypes, MsgsAssumption, SMTT(60) DEF ToServerInv
    <3>2. /\ Arrived(j) < m.n
          /\ m.n = Arrived(j) + 1 \/ InFlight(j, m.n - 1, p)
      BY <3>1 DEF FlightInv
    <3>3. ASSUME NEW q \in 1 .. p, q # 1
          PROVE  q - 1 \in 1 .. p - 1 /\ to_server'[q - 1] = to_server[q]
      <4>1. q - 1 \in 1 .. Len(to_server')
        BY <3>3
      <4>2. \A r \in 1 .. Len(to_server') : to_server'[r] = to_server[r + 1]
        BY <1>13, InLine
      <4> QED BY <3>3, <4>1, <4>2
    <3>4. CASE j # i
      <4>1. A = Arrived(j)
        BY <1>13, <3>1, <3>4, InLine DEF Arrived
      <4>2. m.n = A + 1 \/ \E q \in 1 .. p :
              /\ q # 1 /\ to_server[q].type = "sock" /\ to_server[q].id = j
              /\ to_server[q].n = m.n - 1
        BY <3>2, <3>4, <4>1 DEF InFlight
      <4> QED BY <3>1, <3>2, <3>3, <4>1, <4>2
    <3>5. CASE j = i
      <4>1. A = to_server[1].n /\ to_server[1].n = Arrived(j) + 1
        <5>1. Arrived(i) = received[i] + Len(queue[i]) /\ received[i] \in Nat
          BY <3>1, <3>5 DEF Arrived, ServeType
        <5> QED BY <1>13, <3>1, <3>5, <5>1, InLine
      <4>2. to_server[1].n < m.n
        <5>1. 1 \in 1 .. (p + 1) - 1 /\ to_server[1].id = j
          BY <3>5
        <5> QED BY <3>1, <5>1 DEF OrderInv
      <4>3. InFlight(j, m.n - 1, p)
        BY <3>1, <3>2, <4>1, <4>2
      <4>4. m.n = A + 1 \/ \E q \in 1 .. p :
              /\ q # 1 /\ to_server[q].type = "sock" /\ to_server[q].id = j
              /\ to_server[q].n = m.n - 1
        BY <3>1, <4>1, <4>3, SMTT(30) DEF InFlight
      <4> QED BY <3>1, <3>3, <4>1, <4>2, <4>4
    <3> QED BY <3>4, <3>5
  <2>2. \A j \in Sockets : Listening(j)' => j \in sem_map
    BY <1>13, InLine DEF Listening
  <2>3. \A p \in 1 .. Len(to_server') : to_server'[p].type = "sock" => to_server'[p].id \in Sockets
    BY <1>13, InLine, WireTypes DEF ToServerInv
  <2>4. received' = received
    BY <1>13, InLine
  <2> QED BY <2>1, <2>2, <2>3, <2>4 DEF FlightInv, Arrived, InFlight, Listening
<1>14. ASSUME ListenClose PROVE FlightInv'
  <2>1. /\ to_server[1].type # "sock" /\ UNCHANGED <<sem_map, received, queue>>
        /\ \A i \in Sockets : Listening(i)' => Listening(i)
        /\ \A p \in 1 .. Len(to_server') :
             p + 1 \in 1 .. Len(to_server) /\ to_server'[p] = to_server[p + 1]
    <3>1. to_server # <<>> /\ to_server' = Tail(to_server)
      BY <1>14, ServerTakes
    <3>2. to_server[1].type # "sock"
      BY <1>14, <3>1, ServerHead DEF ListenCreate, ListenClose, Arrives
    <3>3. UNCHANGED <<sem_map, received, queue>> /\ closing = 0
      BY <1>14 DEF ListenCreate, ListenClose, Arrives
    <3>4. \A i \in Sockets : Listening(i)' => Listening(i)
      BY <3>3 DEF Listening, Sockets
    <3> QED BY <3>1, <3>2, <3>3, <3>4, ServerHead
  <2>2. ASSUME NEW p \in 1 .. Len(to_server'), to_server'[p].type = "sock",
               Listening(to_server[p].id)'
        PROVE  /\ Arrived(to_server'[p].id) < to_server'[p].n
               /\ \/ to_server'[p].n = Arrived(to_server'[p].id) + 1
                  \/ \E q \in 1 .. p - 1 :
                       /\ to_server'[q].type = "sock" /\ to_server'[q].id = to_server'[p].id
                       /\ to_server'[q].n = to_server'[p].n - 1
    <3> DEFINE m == to_server[p + 1]
    <3>1. /\ p + 1 \in 1 .. Len(to_server) /\ to_server'[p] = m /\ m.type = "sock"
          /\ m.id \in Sockets
      BY <2>1, <2>2, WireTypes DEF ToServerInv
    <3>2. Listening(m.id)
      BY <2>1, <2>2, <3>1 DEF Listening, Sockets
    <3>3. /\ Arrived(m.id) < m.n
          /\ m.n = Arrived(m.id) + 1 \/ InFlight(m.id, m.n - 1, p)
      BY <3>1, <3>2 DEF FlightInv
    <3>4. ASSUME NEW q \in 1 .. p, to_server[q].type = "sock"
          PROVE  q - 1 \in 1 .. p - 1 /\ to_server'[q - 1] = to_server[q]
      <4>1. q # 1
        BY <2>1, <3>4
      <4>2. q - 1 \in 1 .. Len(to_server')
        BY <4>1
      <4> QED BY <2>1, <4>1, <4>2
    <3> HIDE DEF m
    <3> QED BY <3>1, <3>3, <3>4 DEF InFlight
  <2> QED BY <2>1, <2>2 DEF FlightInv, Arrived, InFlight
<1>15. ASSUME CloseErase PROVE FlightInv'
  BY <1>15 DEF CloseErase, FlightInv, Listening, Arrived, InFlight
<1>16. ASSUME NEW i \in Sockets, RecvFind(i) PROVE FlightInv'
  BY <1>16 DEF RecvFind, FlightInv, Listening, Arrived, InFlight, Closed
<1>17. ASSUME NEW i \in Sockets, RecvGetSem(i) PROVE FlightInv'
  BY <1>17 DEF RecvGetSem, FlightInv, Listening, Arrived, InFlight
<1>18. ASSUME NEW i \in Sockets, RecvWait(i) PROVE FlightInv'
  BY <1>18 DEF RecvWait, FlightInv, Listening, Arrived, InFlight
<1>19. ASSUME NEW i \in Sockets, RecvStatus(i) PROVE FlightInv'
  BY <1>19 DEF RecvStatus, FlightInv, Listening, Arrived, InFlight, Closed
<1>20. ASSUME NEW i \in Sockets, RecvLookup(i) PROVE FlightInv'
  BY <1>20 DEF RecvLookup, FlightInv, Listening, Arrived, InFlight
<1>21. ASSUME NEW i \in Sockets, RecvPop(i) PROVE FlightInv'
  <2>1. UNCHANGED <<to_server, sem_map, closing>> /\ \A j \in Sockets : Arrived(j)' = Arrived(j)
    BY <1>21, PopFacts
  <2>2. \A p \in 1 .. Len(to_server) : to_server[p].type = "sock" => to_server[p].id \in Sockets
    BY WireTypes DEF ToServerInv
  <2>3. ASSUME NEW p \in 1 .. Len(to_server), to_server[p].type = "sock", Listening(to_server[p].id)
        PROVE  /\ Arrived(to_server[p].id)' < to_server[p].n
               /\ \/ to_server[p].n = Arrived(to_server[p].id)' + 1
                  \/ InFlight(to_server[p].id, to_server[p].n - 1, p - 1)
    <3>1. Arrived(to_server[p].id)' = Arrived(to_server[p].id)
      BY <2>1, <2>2, <2>3 DEF Arrived
    <3> QED BY <2>3, <3>1 DEF FlightInv
  <2> QED BY <2>1, <2>3 DEF FlightInv, InFlight, Listening
<1>22. ASSUME NEW i \in Sockets, Answer(i) PROVE FlightInv'
  BY <1>22 DEF Answer, FlightInv, Listening, Arrived, InFlight
<1>23. ASSUME NEW i \in Sockets, BadAccess(i) PROVE FlightInv'
  BY <1>23 DEF BadAccess, FlightInv, Listening, Arrived, InFlight
<1>24. ASSUME Lose PROVE FlightInv'
  BY <1>24 DEF Lose, FlightInv, Listening, Arrived, InFlight
<1> QED BY <1>1, <1>2, <1>3, <1>4, <1>5, <1>6, <1>7, <1>8, <1>9, <1>10, <1>11, <1>12, <1>13, <1>14, <1>15, <1>16, <1>17, <1>18, <1>19, <1>20, <1>21, <1>22, <1>23, <1>24, NextSteps

(* What is sent next continues it. *)
LEMMA SenderStep ==
  ASSUME ThreadType, NetType, DistType, AcceptType, MapType, HeapType, ServeType, TakenInv, QueueInv, OneOwner, ThreadInv, ToServerInv, HeardInv, AnswerInv, OrderInv, SemInv, ~Lossy, ArrivedInv, FlightInv, SenderInv, Next
  PROVE  SenderInv'
<1> USE DEF net, threads, cdist, cvars, acceptor, smaps, heap, serving, svars
<1>1. ASSUME NEW t \in Threads, ConnectSend(t) PROVE SenderInv'
  BY <1>1 DEF ConnectSend, SenderInv, Listening, Arrived, InFlight
<1>2. ASSUME NEW t \in Threads, ConnectWait(t) PROVE SenderInv'
  <2>1. /\ sock' = [sock EXCEPT ![t] = connect_queue[1]] /\ UNCHANGED <<to_server, sent>>
        /\ connect_queue[1] \in Sockets /\ 1 \in 1 .. Len(connect_queue) /\ sent[t] = 0
    BY <1>2, WaitFacts DEF ThreadInv
  <2>2. UNCHANGED <<sem_map, closing, received, queue>>
    BY <1>2 DEF ConnectWait
  <2>3. Arrived(connect_queue[1]) = 0
    <3>1. \A u \in Threads : sock[u] # connect_queue[1]
      BY <2>1 DEF QueueInv
    <3>2. ~ (received[connect_queue[1]] > 0) /\ queue[connect_queue[1]] = <<>>
      BY <2>1, <3>1 DEF HeardInv, SentOn
    <3>3. received[connect_queue[1]] = 0
      BY <2>1, <3>2 DEF ServeType
    <3> QED BY <3>2, <3>3 DEF Arrived
  <2>4. \A u \in Threads : u # t => sock'[u] = sock[u]
    BY <2>1 DEF ThreadType
  <2>5. sock'[t] = connect_queue[1]
    BY <2>1 DEF ThreadType
  <2>6. ASSUME NEW u \in Threads, sock'[u] # 0, Listening(sock[u])'
        PROVE  \/ sent[u] = Arrived(sock[u])'
               \/ InFlight(sock'[u], sent[u], Len(to_server))
               \/ Arrived(sock[u])' = 0 /\ sent[u] <= 1
    <3>1. CASE u = t
      BY <2>1, <2>2, <2>3, <2>5, <3>1 DEF Arrived
    <3>2. CASE u # t
      BY <2>2, <2>4, <2>6, <3>2 DEF SenderInv, Arrived, Listening
    <3> QED BY <3>1, <3>2
  <2> QED BY <2>1, <2>6 DEF SenderInv, InFlight
<1>3. ASSUME NEW t \in Threads, ConnectRegister(t) PROVE SenderInv'
  BY <1>3 DEF ConnectRegister, SenderInv, Listening, Arrived, InFlight
<1>4. ASSUME NEW t \in Threads, InsertId(t) PROVE SenderInv'
  BY <1>4 DEF InsertId, SenderInv, Listening, Arrived, InFlight
<1>5. ASSUME NEW t \in Threads, Send(t) PROVE SenderInv'
  <2>1. /\ to_server' = Append(to_server, Msg("sock", sock[t], sent[t] + 1))
        /\ UNCHANGED <<sem_map, closing, received, queue, sock>>
        /\ sent' = [sent EXCEPT ![t] = @ + 1] /\ sent[t] \in Nat
        /\ Msg("sock", sock[t], sent[t] + 1) \in Messages
    BY <1>5, SendFacts
  <2> DEFINE m == [type |-> "sock", id |-> sock[t], n |-> sent[t] + 1]
  <2>2. /\ Len(to_server) \in Nat /\ to_server'[Len(to_server) + 1] = m
        /\ \A p \in 1 .. Len(to_server) : to_server'[p] = to_server[p]
        /\ \A p \in 1 .. Len(to_server) : p \in 1 .. Len(to_server')
        /\ Len(to_server) + 1 \in 1 .. Len(to_server')
    BY <2>1, ServerAppend DEF Msg
  <2>3. m.type = "sock" /\ m.id = sock[t] /\ m.n = sent'[t]
    BY <2>1 DEF ThreadType
  <2>4. \A u \in Threads : u # t => sent'[u] = sent[u]
    BY <2>1 DEF ThreadType
  <2> HIDE DEF m
  <2>5. ASSUME NEW u \in Threads, sock[u] # 0, Listening(sock[u])
        PROVE  \/ sent'[u] = Arrived(sock[u])
               \/ \E q \in 1 .. Len(to_server') :
                    /\ to_server'[q].type = "sock" /\ to_server'[q].id = sock[u]
                    /\ to_server'[q].n = sent'[u]
               \/ Arrived(sock[u]) = 0 /\ sent'[u] <= 1
    <3>1. CASE u = t
      BY <2>2, <2>3, <3>1
    <3>2. CASE u # t
      BY <2>2, <2>4, <2>5, <3>2 DEF SenderInv, InFlight
    <3> QED BY <3>1, <3>2
  <2> QED BY <2>1, <2>5 DEF SenderInv, Listening, Arrived, InFlight
<1>6. ASSUME ClientListen PROVE SenderInv'
  BY <1>6 DEF ClientListen, SenderInv, Listening, Arrived, InFlight
<1>7. ASSUME ClientStop PROVE SenderInv'
  BY <1>7 DEF ClientStop, SenderInv, Listening, Arrived, InFlight
<1>8. ASSUME ClientClose PROVE SenderInv'
  BY <1>8 DEF ClientClose, SenderInv, Listening, Arrived, InFlight
<1>9. ASSUME ClientRestart PROVE SenderInv'
  BY <1>9 DEF ClientRestart, SenderInv, Listening, Arrived, InFlight
<1>10. ASSUME AcceptAnnounce PROVE SenderInv'
  BY <1>10 DEF AcceptAnnounce, SenderInv, Listening, Arrived, InFlight
<1>11. ASSUME AcceptRegister PROVE SenderInv'
  <2>1. /\ UNCHANGED <<to_server, closing, received, sock, sent, mfsockid>>
        /\ sem_map' = sem_map \cup {mfsockid}
        /\ queue' = [queue EXCEPT ![mfsockid] = <<>>]
    BY <1>11 DEF AcceptRegister
  <2>2. /\ mfsockid \in Sockets /\ received[mfsockid] + Len(queue'[mfsockid]) = 0
    <3>1. queue'[mfsockid] = <<>> /\ received[mfsockid] = 0 /\ mfsockid \in Sockets
      BY <1>11, <2>1, HeaderOnly DEF HeapType
    <3> QED BY <3>1
  <2>3. ASSUME NEW u \in Threads, sock[u] # 0, Listening(sock[u])'
        PROVE  \/ sent[u] = Arrived(sock[u])'
               \/ InFlight(sock[u], sent[u], Len(to_server))
               \/ Arrived(sock[u])' = 0 /\ sent[u] <= 1
    <3>1. CASE sock[u] = mfsockid
      <4>1. sent[u] <= 1
        BY <1>11, <3>1, HeaderOnly
      <4> QED BY <2>1, <2>2, <3>1, <4>1 DEF Arrived
    <3>2. CASE sock[u] # mfsockid
      <4>1. Arrived(sock[u])' = Arrived(sock[u]) /\ Listening(sock[u])
        BY <2>1, <2>3, <3>2 DEF Arrived, Listening, HeapType, ThreadType
      <4> QED BY <2>3, <4>1 DEF SenderInv
    <3> QED BY <3>1, <3>2
  <2> QED BY <2>1, <2>3 DEF SenderInv, InFlight
<1>12. ASSUME ListenCreate PROVE SenderInv'
  <2>1. /\ to_server[1].type # "sock" /\ UNCHANGED <<sock, sent, received, queue>>
        /\ \A i \in Sockets : Listening(i)' => Listening(i)
        /\ \A p \in 1 .. Len(to_server) :
             p # 1 => p - 1 \in 1 .. Len(to_server') /\ to_server'[p - 1] = to_server[p]
    <3>1. to_server # <<>> /\ to_server' = Tail(to_server)
      BY <1>12, ServerTakes
    <3>2. to_server[1].type # "sock"
      BY <1>12, <3>1, ServerHead DEF ListenCreate, ListenClose, Arrives
    <3>3. UNCHANGED <<sem_map, sock, sent, received, queue>> /\ closing = 0
      BY <1>12 DEF ListenCreate, ListenClose, Arrives
    <3>4. \A i \in Sockets : Listening(i)' => Listening(i)
      BY <3>3 DEF Listening, Sockets
    <3>5. ASSUME NEW p \in 1 .. Len(to_server), p # 1
          PROVE  p - 1 \in 1 .. Len(to_server') /\ to_server'[p - 1] = to_server[p]
      <4>1. p - 1 \in 1 .. Len(to_server') /\ (p - 1) + 1 = p
        BY <3>1, <3>5, ServerHead
      <4> QED BY <3>1, <4>1, ServerHead
    <3> QED BY <3>2, <3>3, <3>4, <3>5
  <2>2. ASSUME NEW u \in Threads, sock[u] # 0, Listening(sock[u])'
        PROVE  \/ sent[u] = Arrived(sock[u])
               \/ \E q \in 1 .. Len(to_server') :
                    /\ to_server'[q].type = "sock" /\ to_server'[q].id = sock[u]
                    /\ to_server'[q].n = sent[u]
               \/ Arrived(sock[u]) = 0 /\ sent[u] <= 1
    <3>1. Listening(sock[u])
      BY <2>1, <2>2 DEF ThreadType, Listening
    <3>2. ASSUME InFlight(sock[u], sent[u], Len(to_server))
          PROVE  \E q \in 1 .. Len(to_server') :
                   /\ to_server'[q].type = "sock" /\ to_server'[q].id = sock[u]
                   /\ to_server'[q].n = sent[u]
      BY <2>1, <3>2 DEF InFlight
    <3> QED BY <2>2, <3>1, <3>2 DEF SenderInv
  <2> QED BY <2>1, <2>2 DEF SenderInv, Arrived, InFlight
<1>13. ASSUME ListenSock PROVE SenderInv'
  <2> DEFINE i == to_server[1].id
  <2>1. ASSUME NEW u \in Threads, sock[u] # 0, sock[u] \in sem_map
        PROVE  \/ sent[u] = received[sock[u]] + Len(queue'[sock[u]])
               \/ \E q \in 1 .. Len(to_server') :
                    /\ to_server'[q].type = "sock" /\ to_server'[q].id = sock[u]
                    /\ to_server'[q].n = sent[u]
               \/ received[sock[u]] + Len(queue'[sock[u]]) = 0 /\ sent[u] <= 1
    <3> DEFINE j == sock[u]
               A == received[j] + Len(queue'[j])
    <3>1. /\ j \in Sockets /\ Listening(j) /\ sent[u] \in Int
          /\ to_server[1].n \in Int /\ to_server[1].type = "sock"
      BY <1>13, <2>1, InLine, WireTypes, MsgsAssumption DEF ThreadType
    <3>2. \/ sent[u] = Arrived(j) \/ InFlight(j, sent[u], Len(to_server))
          \/ Arrived(j) = 0 /\ sent[u] <= 1
      BY <2>1, <3>1 DEF SenderInv
    <3>3. ASSUME NEW q \in 1 .. Len(to_server), q # 1
          PROVE  q - 1 \in 1 .. Len(to_server') /\ to_server'[q - 1] = to_server[q]
      <4>1. q - 1 \in 1 .. Len(to_server')
        BY <1>13, <3>3, InLine, SMTT(30)
      <4>2. \A p \in 1 .. Len(to_server') : to_server'[p] = to_server[p + 1]
        BY <1>13, InLine
      <4> QED BY <3>3, <4>1, <4>2
    <3>4. CASE j # i
      <4>1. A = Arrived(j)
        BY <1>13, <3>1, <3>4, InLine, SMTT(30) DEF Arrived
      <4>2. InFlight(j, sent[u], Len(to_server)) => \E q \in 1 .. Len(to_server) :
              /\ q # 1 /\ to_server[q].type = "sock" /\ to_server[q].id = j
              /\ to_server[q].n = sent[u]
        BY <3>4 DEF InFlight
      <4> QED BY <3>2, <3>3, <4>1, <4>2
    <3>5. CASE j = i
      <4>1. A = to_server[1].n /\ to_server[1].n = Arrived(j) + 1 /\ Arrived(j) \in Nat
        <5>1. /\ Arrived(i) = received[i] + Len(queue[i]) /\ received[i] \in Nat
              /\ Len(queue[i]) \in Nat
          BY <1>13, <2>1, <3>1, <3>5, InLine DEF Arrived, ServeType
        <5> QED BY <1>13, <2>1, <3>1, <3>5, <5>1, InLine, SMTT(30)
      <4>2. to_server[1].n <= sent[u]
        <5>1. PICK v \in Threads : sock[v] = i /\ to_server[1].n <= sent[v]
          BY <1>13, <3>1, InLine DEF ToServerInv, SentOn
        <5> QED BY <2>1, <3>5, <5>1 DEF OneOwner
      <4>3. sent[u] = A \/ InFlight(j, sent[u], Len(to_server))
        BY <3>1, <3>2, <4>1, <4>2
      <4>4. sent[u] = A \/ \E q \in 1 .. Len(to_server) :
              /\ q # 1 /\ to_server[q].type = "sock" /\ to_server[q].id = j
              /\ to_server[q].n = sent[u]
        BY <4>1, <4>3 DEF InFlight
      <4> QED BY <3>3, <4>4
    <3> QED BY <3>4, <3>5
  <2>2. UNCHANGED <<received, sock, sent>> /\ \A j \in Sockets : Listening(j)' => j \in sem_map
    BY <1>13, InLine DEF Listening
  <2> QED BY <2>1, <2>2 DEF SenderInv, Arrived, InFlight, ThreadType
<1>14. ASSUME ListenClose PROVE SenderInv'
  <2>1. /\ to_server[1].type # "sock" /\ UNCHANGED <<sock, sent, received, queue>>
        /\ \A i \in Sockets : Listening(i)' => Listening(i)
        /\ \A p \in 1 .. Len(to_server) :
             p # 1 => p - 1 \in 1 .. Len(to_server') /\ to_server'[p - 1] = to_server[p]
    <3>1. to_server # <<>> /\ to_server' = Tail(to_server)
      BY <1>14, ServerTakes
    <3>2. to_server[1].type # "sock"
      BY <1>14, <3>1, ServerHead DEF ListenCreate, ListenClose, Arrives
    <3>3. UNCHANGED <<sem_map, sock, sent, received, queue>> /\ closing = 0
      BY <1>14 DEF ListenCreate, ListenClose, Arrives
    <3>4. \A i \in Sockets : Listening(i)' => Listening(i)
      BY <3>3 DEF Listening, Sockets
    <3>5. ASSUME NEW p \in 1 .. Len(to_server), p # 1
          PROVE  p - 1 \in 1 .. Len(to_server') /\ to_server'[p - 1] = to_server[p]
      <4>1. p - 1 \in 1 .. Len(to_server') /\ (p - 1) + 1 = p
        BY <3>1, <3>5, ServerHead
      <4> QED BY <3>1, <4>1, ServerHead
    <3> QED BY <3>2, <3>3, <3>4, <3>5
  <2>2. ASSUME NEW u \in Threads, sock[u] # 0, Listening(sock[u])'
        PROVE  \/ sent[u] = Arrived(sock[u])
               \/ \E q \in 1 .. Len(to_server') :
                    /\ to_server'[q].type = "sock" /\ to_server'[q].id = sock[u]
                    /\ to_server'[q].n = sent[u]
               \/ Arrived(sock[u]) = 0 /\ sent[u] <= 1
    <3>1. Listening(sock[u])
      BY <2>1, <2>2 DEF ThreadType, Listening
    <3>2. ASSUME InFlight(sock[u], sent[u], Len(to_server))
          PROVE  \E q \in 1 .. Len(to_server') :
                   /\ to_server'[q].type = "sock" /\ to_server'[q].id = sock[u]
                   /\ to_server'[q].n = sent[u]
      BY <2>1, <3>2 DEF InFlight
    <3> QED BY <2>2, <3>1, <3>2 DEF SenderInv
  <2> QED BY <2>1, <2>2 DEF SenderInv, Arrived, InFlight
<1>15. ASSUME CloseErase PROVE SenderInv'
  BY <1>15 DEF CloseErase, SenderInv, Listening, Arrived, InFlight
<1>16. ASSUME NEW i \in Sockets, RecvFind(i) PROVE SenderInv'
  BY <1>16 DEF RecvFind, SenderInv, Listening, Arrived, InFlight, Closed
<1>17. ASSUME NEW i \in Sockets, RecvGetSem(i) PROVE SenderInv'
  BY <1>17 DEF RecvGetSem, SenderInv, Listening, Arrived, InFlight
<1>18. ASSUME NEW i \in Sockets, RecvWait(i) PROVE SenderInv'
  BY <1>18 DEF RecvWait, SenderInv, Listening, Arrived, InFlight
<1>19. ASSUME NEW i \in Sockets, RecvStatus(i) PROVE SenderInv'
  BY <1>19 DEF RecvStatus, SenderInv, Listening, Arrived, InFlight, Closed
<1>20. ASSUME NEW i \in Sockets, RecvLookup(i) PROVE SenderInv'
  BY <1>20 DEF RecvLookup, SenderInv, Listening, Arrived, InFlight
<1>21. ASSUME NEW i \in Sockets, RecvPop(i) PROVE SenderInv'
  <2>1. /\ UNCHANGED <<to_server, sem_map, closing, sock, sent>>
        /\ \A j \in Sockets : Arrived(j)' = Arrived(j)
    BY <1>21, PopFacts
  <2>2. \A u \in Threads : sock[u] \in Sockets \cup {0}
    BY DEF ThreadType
  <2>3. ASSUME NEW u \in Threads, sock[u] # 0, Listening(sock[u])
        PROVE  \/ sent[u] = Arrived(sock[u])'
               \/ InFlight(sock[u], sent[u], Len(to_server))
               \/ Arrived(sock[u])' = 0 /\ sent[u] <= 1
    <3>1. Arrived(sock[u])' = Arrived(sock[u])
      BY <2>1, <2>2, <2>3 DEF Arrived
    <3> QED BY <2>3, <3>1 DEF SenderInv
  <2> QED BY <2>1, <2>3 DEF SenderInv, InFlight, Listening
<1>22. ASSUME NEW i \in Sockets, Answer(i) PROVE SenderInv'
  BY <1>22 DEF Answer, SenderInv, Listening, Arrived, InFlight
<1>23. ASSUME NEW i \in Sockets, BadAccess(i) PROVE SenderInv'
  BY <1>23 DEF BadAccess, SenderInv, Listening, Arrived, InFlight
<1>24. ASSUME Lose PROVE SenderInv'
  BY <1>24 DEF Lose, SenderInv, Listening, Arrived, InFlight
<1> QED BY <1>1, <1>2, <1>3, <1>4, <1>5, <1>6, <1>7, <1>8, <1>9, <1>10, <1>11, <1>12, <1>13, <1>14, <1>15, <1>16, <1>17, <1>18, <1>19, <1>20, <1>21, <1>22, <1>23, <1>24, NextSteps

-----------------------------------------------------------------------------
(* The inductive invariant. *)
LEMMA InitIInv == ASSUME Init PROVE IInv
<1> USE DEF Init
<1>1. ThreadType /\ NetType /\ DistType /\ AcceptType
  <2>1. ThreadType
    BY ProcessAssumption, MsgsAssumption DEF ThreadType, CStates
  <2>2. NetType /\ DistType /\ AcceptType
    BY DEF NetType, DistType, AcceptType
  <2> QED BY <2>1, <2>2
<1>2. MapType /\ HeapType /\ ServeType
  <2>1. \A i \in Sockets : queue[i] \in Seq(1 .. MaxMsgs)
    OBVIOUS
  <2>2. queue \in [Sockets -> Seq(1 .. MaxMsgs)]
    BY <2>1
  <2> QED BY <2>2, MsgsAssumption DEF MapType, HeapType, ServeType, SStates
<1>3. TakenInv /\ WireInv /\ QueueInv /\ SockInv /\ OneOwner
  BY DEF TakenInv, WireInv, QueueInv, SockInv, OneOwner
<1>4. ThreadInv
  BY DEF ThreadInv, Running
<1>5. ToServerInv /\ HeardInv /\ AnswerInv /\ OrderInv /\ SemInv
  <2>1. \A i \in Sockets : received[i] = 0 /\ queue[i] = <<>> /\ spc[i] = "none"
    OBVIOUS
  <2>2. HeardInv /\ AnswerInv
    BY <2>1 DEF HeardInv, AnswerInv
  <2> QED BY <2>2 DEF ToServerInv, OrderInv, SemInv
<1>6. GapInv
  <2>1. \A i \in Sockets : Len(queue[i]) = 0
    OBVIOUS
  <2>2. ArrivedInv
    BY <2>1 DEF ArrivedInv
  <2> QED BY <2>2 DEF GapInv, FlightInv, SenderInv
<1> QED BY <1>1, <1>2, <1>3, <1>4, <1>5, <1>6 DEF IInv

\* A step that changes nothing keeps the invariant.
LEMMA StutterIInv == ASSUME IInv, UNCHANGED vars PROVE IInv'
<1> USE DEF IInv, vars, net, threads, cdist, cvars, acceptor, smaps, heap, serving, svars
<1>1. ThreadType' /\ NetType' /\ DistType' /\ AcceptType' /\ MapType' /\ HeapType' /\ ServeType'
  BY DEF ThreadType, NetType, DistType, AcceptType, MapType, HeapType, ServeType
<1>2. TakenInv' /\ WireInv' /\ QueueInv' /\ SockInv' /\ OneOwner' /\ ThreadInv'
  BY DEF TakenInv, Taken, WireInv, Accepted, QueueInv, SockInv, OneOwner, ThreadInv, Running
<1>3. ToServerInv' /\ HeardInv' /\ AnswerInv'
  BY DEF ToServerInv, Owned, SentOn, HeardInv, AnswerInv
<1>4. OrderInv' /\ SemInv'
  BY DEF OrderInv, SemInv, Listening
<1>5. GapInv'
  <2>1. ASSUME ~Lossy, ArrivedInv, FlightInv, SenderInv
        PROVE  ArrivedInv' /\ FlightInv' /\ SenderInv'
    <3>1. ArrivedInv'
      BY <2>1 DEF ArrivedInv
    <3>2. FlightInv'
      BY <2>1 DEF FlightInv, Listening, Arrived, InFlight
    <3>3. SenderInv'
      BY <2>1 DEF SenderInv, Listening, Arrived, InFlight
    <3> QED BY <3>1, <3>2, <3>3
  <2> QED BY <2>1 DEF GapInv
<1> QED BY <1>1, <1>2, <1>3, <1>4, <1>5

\* Every action keeps every part of the invariant.
LEMMA StepIInv == ASSUME IInv, Next PROVE IInv'
<1> USE DEF IInv
<1>1. ThreadType' /\ NetType' /\ DistType' /\ AcceptType' /\ MapType' /\ HeapType' /\ ServeType'
  BY ThreadTypeStep, NetTypeStep, DistTypeStep, AcceptTypeStep, MapTypeStep, HeapTypeStep,
     ServeTypeStep
<1>2. TakenInv' /\ WireInv' /\ QueueInv' /\ SockInv' /\ OneOwner' /\ ThreadInv'
  BY TakenStep, WireStep, QueueStep, SockStep, OwnerStep, ThreadStep
<1>3. ToServerInv' /\ HeardInv' /\ AnswerInv'
  BY ToServerStep, HeardStep, AnswerStep
<1>4. OrderInv' /\ SemInv'
  BY OrderStep, SemStep
<1>5. GapInv'
  BY ArrivedStep, FlightStep, SenderStep DEF GapInv
<1> QED BY <1>1, <1>2, <1>3, <1>4, <1>5

(* Numbers grow, the messages of a socket keep their order, and a thread has *)
(* its socket in the maps before the server speaks on it.                    *)
THEOREM Invariance == Spec => []IInv
<1>1. Init => IInv
  BY InitIInv
<1>2. IInv /\ [Next]_vars => IInv'
  BY StutterIInv, StepIInv
<1> QED BY <1>1, <1>2, PTL DEF Spec

(* Every variable has its type, and a semaphore of the server counts at most *)
(* the messages of its socket and the close, whatever the network loses.     *)
THEOREM TypeCorrect == Spec => []TypeOK
<1>1. ASSUME IInv PROVE TypeOK
  <2>1. \A i \in Sockets : recv_sem[i] \in 0 .. MaxMsgs + 1
    <3>1. \A t \in Threads : sent[t] \in 0 .. MaxMsgs
      BY <1>1 DEF IInv, ThreadType
    <3>2. \A i \in Sockets : recv_sem[i] \in Nat
      BY <1>1 DEF IInv, HeapType
    <3> QED BY <1>1, <3>1, <3>2, MsgsAssumption DEF IInv, SemInv
  <2>2. recv_sem \in [Sockets -> 0 .. MaxMsgs + 1]
    BY <1>1, <2>1 DEF IInv, HeapType
  <2> QED BY <1>1, <2>2
      DEF IInv, ThreadType, NetType, DistType, AcceptType, MapType, HeapType, ServeType, TypeOK
<1> QED BY <1>1, Invariance, PTL

(* connect() gives every thread a socket of its own, in every process.       *)
THEOREM OwnSocket == Spec => []OneOwner
BY Invariance, PTL DEF IInv

(* The client's listen() drops no answer of a thread that runs.              *)
THEOREM NoAnswerDropped == Spec => AnswersArrive
<1>1. IInv => \A t \in Threads :
        /\ to_client # <<>> /\ Running(t)
        /\ Head(to_client).type = "sock" /\ Head(to_client).id = sock[t]
        => sock[t] \in c_open
  <2> SUFFICES ASSUME IInv, NEW t \in Threads, to_client # <<>>, Running(t),
                      Head(to_client).type = "sock", Head(to_client).id = sock[t]
               PROVE  sock[t] \in c_open
    OBVIOUS
  <2> USE DEF IInv
  <2>1. /\ 1 \in 1 .. Len(to_client) /\ to_client[1].type = "sock"
        /\ to_client[1].id = sock[t]
    BY ClientHead
  <2>2. sock[t] # 0 /\ received[sock[t]] > 0
    BY <2>1 DEF AnswerInv
  <2>3. PICK u \in Threads : sock[u] = sock[t] /\ 1 <= sent[u]
    BY <2>2 DEF HeardInv, SentOn, ThreadType
  <2>4. sent[t] # 0
    BY <2>2, <2>3 DEF OneOwner
  <2>5. cpc[t] = "up"
    BY <2>4 DEF ThreadInv, ThreadType, CStates
  <2> QED BY <2>5 DEF ThreadInv
<1>2. IInv => [\A t \in Threads :
                 /\ to_client # <<>> /\ to_client' = Tail(to_client) /\ Running(t)
                 /\ Head(to_client).type = "sock" /\ Head(to_client).id = sock[t]
                 => sock[t] \in c_open]_vars
  BY <1>1
<1> QED BY <1>2, Invariance, PTL DEF AnswersArrive

(* The steps that receive are those of recv(). *)
LEMMA ReceivingSteps ==
  ASSUME Next
  PROVE  received' = received \/ \E i \in Sockets : RecvPop(i)
<1> USE DEF net, threads, cdist, cvars, acceptor, smaps, heap, serving, svars
<1>1. ASSUME NEW t \in Threads,
             ConnectSend(t) \/ ConnectWait(t) \/ ConnectRegister(t) \/ InsertId(t) \/ Send(t)
      PROVE  received' = received
  BY <1>1 DEF ConnectSend, ConnectWait, ConnectRegister, InsertId, Send
<1>2. ClientListen \/ ClientStop \/ ClientClose \/ ClientRestart => received' = received
  BY DEF ClientListen, ClientStop, ClientClose, ClientRestart
<1>3. ASSUME AcceptAnnounce \/ AcceptRegister \/ ListenCreate \/ ListenSock \/ ListenClose
             \/ CloseErase \/ Lose
      PROVE  received' = received
  BY <1>3 DEF AcceptAnnounce, AcceptRegister, ListenCreate, ListenSock, ListenClose,
              CloseErase, Lose
<1>4. ASSUME NEW i \in Sockets,
             \/ RecvFind(i) \/ RecvGetSem(i) \/ RecvWait(i) \/ RecvStatus(i)
             \/ RecvLookup(i) \/ Answer(i) \/ BadAccess(i)
      PROVE  received' = received
  BY <1>4 DEF RecvFind, RecvGetSem, RecvWait, RecvStatus, RecvLookup, Answer, BadAccess
<1> QED BY <1>1, <1>2, <1>3, <1>4, NextSteps

(* If the network delivers what it is given, a thread of the server receives *)
(* the messages of its socket in their order and without a gap.              *)
THEOREM ReceivedWithoutGap == ~Lossy => (Spec => NoGaps)
<1>1. ASSUME ~Lossy, IInv, [Next]_vars
      PROVE  [\A i \in Sockets :
                received'[i] # received[i] => received'[i] = received[i] + 1]_vars
  <2>1. CASE UNCHANGED vars
    BY <2>1
  <2>2. CASE Next
    <3>1. ASSUME NEW i \in Sockets, RecvPop(i)
          PROVE  received' = [received EXCEPT ![i] = received[i] + 1]
      BY <1>1, <3>1, PopFacts DEF IInv, GapInv
    <3>2. received \in [Sockets -> 0 .. MaxMsgs]
      BY <1>1 DEF IInv, ServeType
    <3> QED BY <2>2, <3>1, <3>2, ReceivingSteps
  <2> QED BY <1>1, <2>1, <2>2
<1>2. ASSUME ~Lossy PROVE Spec => NoGaps
  <2>1. IInv /\ [Next]_vars =>
          [\A i \in Sockets :
             received'[i] # received[i] => received'[i] = received[i] + 1]_vars
    BY <1>1, <1>2
  <2> QED BY <2>1, Invariance, PTL DEF Spec, NoGaps
<1> QED BY <1>2
=============================================================================
