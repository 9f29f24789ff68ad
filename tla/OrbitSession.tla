---------------------------- MODULE OrbitSession ----------------------------
(***************************************************************************)
(* One session of a MobilityFirst client with the server in orbit mode: the*)
(* Java client (jclient/JClient.java, with the calls TestClient.java makes)*)
(* or the Linux client of client/client-OpenCV.cpp, and the orbit branches *)
(* of server_transmit, server_result and result_child.                     *)
(*                                                                         *)
(* A frame of n bytes is a header with n in it and then messages of at most*)
(* Chunk bytes.  Neither side counts the other's messages: sender and      *)
(* receiver each work out from n how many there are.                       *)
(*                                                                         *)
(* A socket is a queue of messages in each direction and a close that takes*)
(* the unread ones away; module MsgDistributor has the steps inside it.    *)
(***************************************************************************)
EXTENDS Integers, Sequences, SequencesExt

CONSTANTS
  Chunk,      \* bytes of a full data message (4096 in the code)
  Sizes,      \* bytes a frame may have
  MaxFrames   \* bound: frames a client sends

ASSUME ChunkAssumption == Chunk \in Nat \ {0}
ASSUME SizesAssumption == Sizes \subseteq Nat \ {0}
ASSUME FramesAssumption == MaxFrames \in Nat

VARIABLES
  java,                       \* the Java client, or the Linux client
  program,                    \* the client's process: "run" or "exited"
  user, globalStop, lockstep, \* the caller of the Java client
  asked, begun, imgSize,      \* frames asked for, frames begun, bytes of the current
  sendStartSem, sendEndSem, resultSem, resultQueue, taken,
  tpc, remain, rpc,           \* the client's transmit and result threads
  statusMap, toClose, telling,\* the client's sockets; end()
  open, to_server, to_client, \* the server's view of the sockets; messages
  server,                     \* "up" or "crashed"
  user_map,                   \* logins of the user
  spc, frame, file_size, received_size, sem_match,   \* server_transmit
  torn, unsaved, sizes,       \* history: a frame cut off, not saved; sizes sent
  sem, sem_live, queue, queue_live,                  \* the session's heap
  rsp,                        \* server_result
  jobs, answers,              \* result_child: before and after the matching
  file                        \* contents of the files, by name

caller == <<program, user, globalStop, lockstep, asked, imgSize>>
sems == <<sendStartSem, sendEndSem, resultSem, resultQueue, taken>>
cthreads == <<begun, tpc, remain, rpc, sizes>>
ends == <<statusMap, toClose, telling>>
cvars == <<java, caller, sems, cthreads, ends>>
net == <<open, to_server, to_client>>
transmit == <<spc, frame, file_size, received_size, sem_match, torn, unsaved>>
heap == <<sem, sem_live, queue, queue_live>>
matching == <<jobs, answers, file>>
svars == <<server, user_map, transmit, heap, rsp, matching>>
vars == <<cvars, net, svars>>

Socks == {"transmit", "result"}
Frames == 1 .. MaxFrames
Garbage == 0                                \* a picture that nobody sent whole
\* The Java client gives every picture the same name.
Name(f) == IF java THEN 1 ELSE f
Names == 0 .. MaxFrames

Login == [kind |-> "login", frame |-> 0, size |-> 0]
Header(f, n) == [kind |-> "header", frame |-> f, size |-> n]
Data(f, n) == [kind |-> "data", frame |-> f, size |-> n]
Messages == [kind : {"login", "header", "data"}, frame : 0 .. MaxFrames,
             size : Sizes \cup 0 .. Chunk]
Ok == -1

Init ==
  /\ java \in BOOLEAN /\ program = "run" /\ user = "idle" /\ globalStop = FALSE
  /\ lockstep = TRUE /\ asked = 0 /\ begun = 0 /\ imgSize = 0
  /\ sendStartSem = 0 /\ sendEndSem = 0 /\ resultSem = 0
  /\ resultQueue = <<>> /\ taken = <<>>
  /\ tpc = "connect" /\ remain = 0 /\ rpc = "connect"
  /\ statusMap = [s \in Socks |-> "none"] /\ toClose = {} /\ telling = {}
  /\ open = [s \in Socks |-> "none"]
  /\ to_server = [s \in Socks |-> <<>>] /\ to_client = [s \in Socks |-> <<>>]
  /\ server = "up" /\ user_map = 0
  /\ spc = "none" /\ frame = 0 /\ file_size = 0 /\ received_size = 0
  /\ sem_match = FALSE /\ torn = FALSE /\ unsaved = FALSE /\ sizes = {}
  /\ sem = 0 /\ sem_live = FALSE /\ queue = <<>> /\ queue_live = FALSE
  /\ rsp = "none" /\ jobs = <<>> /\ answers = <<>>
  /\ file = [n \in Names |-> Garbage]

-----------------------------------------------------------------------------
(* The distributor, as the threads see it. *)

Runs == program = "run"
Put(s, m) ==        \* send() to the server: dropped when the socket is closed there
  to_server' = IF open[s] = "open" /\ statusMap[s] = "open"
               THEN [to_server EXCEPT ![s] = Append(@, m)] ELSE to_server
Back(s, m) ==       \* send() to the client
  to_client' = IF open[s] = "open" THEN [to_client EXCEPT ![s] = Append(@, m)]
                                   ELSE to_client
Heard(s) == Runs /\ statusMap[s] = "open" /\ to_client[s] # <<>>
Hear(s) == to_client' = [to_client EXCEPT ![s] = Tail(@)]

\* connect() and the send of the header.
Connect(s) ==
  /\ open' = [open EXCEPT ![s] = "open"]
  /\ statusMap' = [statusMap EXCEPT ![s] = "open"]
  /\ to_server' = [to_server EXCEPT ![s] = <<Login>>]
  /\ UNCHANGED <<java, caller, sems, begun, remain, sizes, toClose, telling, to_client, svars>>

-----------------------------------------------------------------------------
(* The client's transmit thread; in the Linux client display_thread's login  *)
(* and the transmit_child threads, one at a time under sendLock.             *)

TConnect == Runs /\ tpc = "connect" /\ tpc' = "login" /\ Connect("transmit") /\ UNCHANGED rpc

TLogin ==
  /\ tpc = "login" /\ Heard("transmit") /\ Hear("transmit")
  /\ tpc' = IF globalStop THEN "ended" ELSE "wait"
  /\ UNCHANGED <<java, caller, sems, begun, remain, rpc, sizes, ends, open, to_server, svars>>

\* acquire() or the lock, and the look at globalStop.
TAcquire ==
  /\ Runs /\ tpc = "wait" /\ sendStartSem > 0
  /\ sendStartSem' = sendStartSem - 1
  /\ tpc' = IF globalStop THEN "ended" ELSE "header"
  /\ UNCHANGED <<java, caller, sendEndSem, resultSem, resultQueue, taken, begun, remain,
                 rpc, sizes, ends, net, svars>>

THeader ==
  /\ Runs /\ tpc = "header" /\ tpc' = "ok" /\ statusMap["transmit"] = "open"
  /\ begun' = begun + 1
  /\ \E n \in IF java THEN {imgSize} ELSE Sizes :
       /\ Put("transmit", Header(begun', n)) /\ remain' = n /\ sizes' = sizes \cup {n}
  /\ UNCHANGED <<java, caller, sems, rpc, ends, open, to_client, svars>>

TOk ==
  /\ tpc = "ok" /\ Heard("transmit") /\ Hear("transmit")
  /\ tpc' = "chunks"
  /\ UNCHANGED <<java, caller, sems, begun, remain, rpc, sizes, ends, open, to_server, svars>>

\* JClient: full messages while there is enough for one, then what is left.
JChunk ==
  /\ java /\ Runs /\ tpc = "chunks"
  /\ LET full == remain >= Chunk IN
       /\ Put("transmit", Data(begun, IF full THEN Chunk ELSE remain))
       /\ remain' = IF full THEN remain - Chunk ELSE 0
       /\ tpc' = IF full THEN "chunks" ELSE "release"
  /\ UNCHANGED <<java, caller, sems, begun, rpc, sizes, ends, open, to_client, svars>>

\* A loop on feof(), which is only true after a read that gives nothing.
LChunkUntilEof ==
  /\ ~java /\ Runs /\ tpc = "chunks" /\ remain > 0
  /\ to_server' = [to_server EXCEPT !["transmit"] =
                     @ \o (IF remain = Chunk THEN <<Data(begun, Chunk), Data(begun, Chunk)>>
                                             ELSE <<Data(begun, Chunk)>>)]
  /\ remain' = IF remain > Chunk THEN remain - Chunk ELSE 0
  /\ UNCHANGED <<java, caller, sems, begun, tpc, rpc, sizes, ends, open, to_client, svars>>

\* transmit_child: fread() until it gives nothing; every message is a full one.
LChunk ==
  /\ ~java /\ Runs /\ tpc = "chunks" /\ remain > 0
  /\ Put("transmit", Data(begun, Chunk))
  /\ remain' = IF remain > Chunk THEN remain - Chunk ELSE 0
  /\ UNCHANGED <<java, caller, sems, begun, tpc, rpc, sizes, ends, open, to_client, svars>>

LUnlock ==
  /\ ~java /\ Runs /\ tpc = "chunks" /\ remain = 0 /\ tpc' = "wait"
  /\ UNCHANGED <<java, caller, sems, begun, remain, rpc, sizes, ends, net, svars>>

\* Without the release.
TReleaseForgotten ==
  /\ Runs /\ tpc = "release"
  /\ tpc' = IF globalStop THEN "ended" ELSE "wait"
  /\ UNCHANGED <<java, caller, sems, begun, remain, rpc, sizes, ends, net, svars>>

TRelease ==
  /\ Runs /\ tpc = "release"
  /\ sendEndSem' = sendEndSem + 1
  /\ tpc' = IF globalStop THEN "ended" ELSE "wait"
  /\ UNCHANGED <<java, caller, sendStartSem, resultSem, resultQueue, taken, begun, remain,
                 rpc, sizes, ends, net, svars>>

-----------------------------------------------------------------------------
(* The client's result thread. *)

RConnect == Runs /\ rpc = "connect" /\ rpc' = "login" /\ Connect("result") /\ UNCHANGED tpc

RLogin ==
  /\ rpc = "login" /\ Heard("result") /\ Hear("result")
  /\ rpc' = IF globalStop THEN "ended" ELSE "recv"
  /\ UNCHANGED <<java, caller, sems, begun, tpc, remain, sizes, ends, open, to_server, svars>>

ROffer ==
  /\ rpc = "recv" /\ Heard("result") /\ Hear("result")
  /\ LET result == Head(to_client["result"]) IN
       \/ java /\ resultQueue' = Append(resultQueue, result) /\ rpc' = "signal"
               /\ UNCHANGED taken
       \/ ~java /\ taken' = Append(taken, result) /\ UNCHANGED <<resultQueue, rpc>>
  /\ UNCHANGED <<java, caller, sendStartSem, sendEndSem, resultSem, begun, tpc, remain,
                 sizes, ends, open, to_server, svars>>

RRelease ==
  /\ Runs /\ rpc = "signal" /\ resultSem' = resultSem + 1
  /\ rpc' = IF globalStop THEN "ended" ELSE "recv"
  /\ UNCHANGED <<java, caller, sendStartSem, sendEndSem, resultQueue, taken, begun, tpc,
                 remain, sizes, ends, net, svars>>

\* recv() or send() on a socket that end() has closed gives -1: System.exit(1),
\* whatever end() has still to do.
ExitOnError ==
  /\ Runs
  /\ \/ statusMap["transmit"] = "closed" /\ tpc \in {"login", "header", "ok"}
     \/ statusMap["result"] = "closed" /\ rpc \in {"login", "recv"}
  /\ program' = "exited"
  /\ UNCHANGED <<java, user, globalStop, lockstep, asked, imgSize, sems, cthreads, ends,
                 net, svars>>

-----------------------------------------------------------------------------
(* The caller of the Java client. *)

Idle == java /\ Runs /\ user = "idle"

SendImage ==
  /\ Idle /\ asked < MaxFrames /\ user' = "sending"
  /\ \E n \in Sizes : imgSize' = n
  /\ asked' = asked + 1 /\ sendStartSem' = sendStartSem + 1
  /\ lockstep' = (lockstep /\ Len(taken) = asked)
  /\ UNCHANGED <<java, program, globalStop, sendEndSem, resultSem, resultQueue, taken,
                 cthreads, ends, net, svars>>

SendImageReturns ==
  /\ Runs /\ user = "sending" /\ sendEndSem > 0
  /\ sendEndSem' = sendEndSem - 1 /\ user' = "idle"
  /\ UNCHANGED <<java, program, globalStop, lockstep, asked, imgSize, sendStartSem,
                 resultSem, resultQueue, taken, cthreads, ends, net, svars>>

GetResult ==
  /\ Idle /\ Len(taken) < asked /\ user' = "getting"
  /\ UNCHANGED <<java, program, globalStop, lockstep, asked, imgSize, sems, cthreads, ends,
                 net, svars>>

\* The result stays in the queue.
GetResultPeeks ==
  /\ Runs /\ user = "getting" /\ resultSem > 0 /\ user' = "idle"
  /\ resultSem' = resultSem - 1
  /\ taken' = Append(taken, Head(resultQueue)) /\ UNCHANGED resultQueue
  /\ UNCHANGED <<java, program, globalStop, lockstep, asked, imgSize, sendStartSem,
                 sendEndSem, cthreads, ends, net, svars>>

GetResultReturns ==
  /\ Runs /\ user = "getting" /\ resultSem > 0 /\ user' = "idle"
  /\ resultSem' = resultSem - 1
  /\ taken' = Append(taken, Head(resultQueue)) /\ resultQueue' = Tail(resultQueue)
  /\ UNCHANGED <<java, program, globalStop, lockstep, asked, imgSize, sendStartSem,
                 sendEndSem, cthreads, ends, net, svars>>

\* stop(): the transmit thread is woken, and end() takes the sockets it knows.
Stop ==
  /\ Idle /\ user' = "stopping" /\ globalStop' = TRUE
  /\ sendStartSem' = sendStartSem + 1
  /\ toClose' = {s \in Socks : statusMap[s] = "open"}
  /\ UNCHANGED <<java, program, lockstep, asked, imgSize, sendEndSem, resultSem,
                 resultQueue, taken, cthreads, statusMap, telling, net, svars>>

\* close(): first the client's own side, then the message to the server.
Close(s) ==
  /\ Runs /\ user = "stopping" /\ telling = {} /\ s \in toClose
  /\ statusMap' = [statusMap EXCEPT ![s] = "closed"]
  /\ toClose' = toClose \ {s} /\ telling' = {s}
  /\ UNCHANGED <<java, caller, sems, cthreads, net, svars>>

Tell(s) ==
  /\ Runs /\ s \in telling /\ telling' = {}
  /\ open' = [open EXCEPT ![s] = "closed"]
  /\ to_server' = [to_server EXCEPT ![s] = <<>>]
  /\ UNCHANGED <<java, caller, sems, cthreads, statusMap, toClose, to_client, svars>>

Exit ==
  /\ Runs /\ user = "stopping" /\ toClose = {} /\ telling = {} /\ program' = "exited"
  /\ UNCHANGED <<java, user, globalStop, lockstep, asked, imgSize, sems, cthreads, ends,
                 net, svars>>

\* display_thread starts a transmit_child for a frame.
LSpawn ==
  /\ ~java /\ Runs /\ tpc \notin {"connect", "login"} /\ asked < MaxFrames
  /\ asked' = asked + 1 /\ sendStartSem' = sendStartSem + 1
  /\ UNCHANGED <<java, program, user, globalStop, lockstep, imgSize, sendEndSem, resultSem,
                 resultQueue, taken, cthreads, ends, net, svars>>

\* The Linux client is killed or ends: no handler is installed that would tell
\* the server.
LExit ==
  /\ ~java /\ Runs /\ program' = "exited"
  /\ UNCHANGED <<java, user, globalStop, lockstep, asked, imgSize, sems, cthreads, ends,
                 net, svars>>

-----------------------------------------------------------------------------
(* The server's transmit thread: serverThread and server_transmit. *)

Arrived(s) == open[s] = "open" /\ to_server[s] # <<>>
Take(s) == to_server' = [to_server EXCEPT ![s] = Tail(@)]
Gone(s) == open[s] = "closed"                        \* recv() gives -1
Undefined == server' \in {"up", "crashed"}           \* a deleted object is used

SAccept ==
  /\ spc = "none" /\ Arrived("transmit") /\ Take("transmit")
  /\ user_map' = user_map + 1 /\ queue_live' = TRUE
  /\ Back("transmit", Ok) /\ spc' = "header"
  /\ UNCHANGED <<cvars, open, server, frame, file_size, received_size, sem_match, torn,
                 unsaved, sem, sem_live, queue, rsp, matching>>

\* The header of the login was closed away: a null pointer for the user ID.
NoLogin(s) ==
  /\ Gone(s) /\ IF s = "transmit" THEN spc = "none" ELSE rsp = "none"
  /\ server' = "crashed"
  /\ UNCHANGED <<cvars, net, user_map, transmit, heap, rsp, matching>>

\* What comes next is a header.  If it is a data message, strtok() gives a null
\* pointer or something that stood behind the message.
SHeader ==
  /\ spc = "header" /\ Arrived("transmit") /\ Take("transmit")
  /\ received_size' = 0
  /\ LET m == Head(to_server["transmit"]) IN
       \/ m.kind = "header" /\ frame' = m.frame /\ file_size' = m.size /\ UNCHANGED server
       \/ m.kind # "header" /\ server' = "crashed" /\ UNCHANGED <<frame, file_size>>
       \/ m.kind # "header" /\ frame' = Garbage /\ file_size' \in Sizes /\ UNCHANGED server
  /\ Back("transmit", Ok) /\ spc' = "data"
  /\ UNCHANGED <<cvars, open, user_map, sem_match, torn, unsaved, heap, rsp, matching>>

\* sem_post(sem_match): the pointer is null before the first frame.
Signal ==
  \/ ~sem_match /\ server' = "crashed" /\ UNCHANGED sem
  \/ sem_match /\ sem_live /\ sem' = sem + 1 /\ UNCHANGED server
  \/ sem_match /\ ~sem_live /\ Undefined /\ UNCHANGED sem

\* Without the post that ends the result thread.
SHeaderFailsSilently ==
  /\ spc = "header" /\ Gone("transmit") /\ spc' = "ended"
  /\ UNCHANGED <<cvars, net, server, user_map, frame, file_size, received_size, sem_match,
                 torn, unsaved, heap, rsp, matching>>

SHeaderFails ==
  /\ spc = "header" /\ Gone("transmit") /\ Signal /\ spc' = "ended"
  /\ UNCHANGED <<cvars, net, user_map, frame, file_size, received_size, sem_match, torn,
                 unsaved, sem_live, queue, queue_live, rsp, matching>>

\* The last message of the frame, or a full one.
Chunked ==
  IF file_size - received_size <= Chunk
  THEN spc' = "save" /\ UNCHANGED received_size
  ELSE spc' = "data" /\ received_size' = received_size + Chunk

SData ==
  /\ spc = "data" /\ Arrived("transmit") /\ Take("transmit") /\ Chunked
  /\ UNCHANGED <<cvars, open, to_client, server, user_map, frame, file_size, sem_match,
                 torn, unsaved, heap, rsp, matching>>

\* errorSocket returns in orbit mode: the loop goes on as if a message had come.
SDataFails ==
  /\ spc = "data" /\ Gone("transmit") /\ Signal /\ Chunked /\ torn' = TRUE
  /\ UNCHANGED <<cvars, net, user_map, frame, file_size, sem_match, unsaved, sem_live,
                 queue, queue_live, rsp, matching>>

SSave ==
  /\ spc = "save"
  /\ \/ /\ file' = [file EXCEPT ![Name(frame)] = IF torn THEN Garbage ELSE frame]
        /\ spc' = "push" /\ UNCHANGED <<unsaved, queue_live>>
     \/ \* the file cannot be opened: the loop ends and the queue is deleted
        /\ unsaved' = TRUE /\ spc' = "ended" /\ queue_live' = FALSE /\ UNCHANGED file
  /\ UNCHANGED <<cvars, net, server, user_map, frame, file_size, received_size, sem_match,
                 torn, sem, sem_live, queue, rsp, jobs, answers>>

SPush ==
  /\ spc = "push" /\ spc' = "post"
  /\ \/ queue_live /\ queue' = Append(queue, Name(frame)) /\ UNCHANGED server
     \/ ~queue_live /\ Undefined /\ UNCHANGED queue
  /\ UNCHANGED <<cvars, net, user_map, frame, file_size, received_size, sem_match, torn,
                 unsaved, sem, sem_live, queue_live, rsp, matching>>

\* The loop until the result thread's semaphore is in the map, and the post.
SPost ==
  /\ spc = "post" /\ (sem_match \/ sem_live)
  /\ sem_match' = TRUE /\ spc' = "header"
  /\ IF sem_live THEN sem' = sem + 1 /\ UNCHANGED server ELSE Undefined /\ UNCHANGED sem
  /\ UNCHANGED <<cvars, net, user_map, frame, file_size, received_size, torn, unsaved,
                 sem_live, queue, queue_live, rsp, matching>>

-----------------------------------------------------------------------------
(* The server's result thread and the matching threads. *)

RAccept ==
  /\ rsp = "none" /\ Arrived("result") /\ Take("result")
  /\ user_map' = user_map + 1 /\ sem_live' = TRUE
  /\ Back("result", Ok) /\ rsp' = "wait"
  /\ UNCHANGED <<cvars, open, server, transmit, sem, queue, queue_live, matching>>

\* An empty queue: the client has left.
RLeave ==
  /\ rsp = "wait" /\ sem > 0 /\ sem' = sem - 1
  /\ queue_live /\ queue = <<>> /\ rsp' = "ended"
  /\ user_map' = 0 /\ queue_live' = FALSE /\ sem_live' = FALSE
  /\ UNCHANGED <<cvars, net, server, transmit, queue, matching>>

RMatch ==
  /\ rsp = "wait" /\ sem > 0 /\ sem' = sem - 1
  /\ queue_live /\ queue # <<>>
  /\ jobs' = Append(jobs, Head(queue))
  /\ queue' = Tail(queue)
  /\ UNCHANGED <<cvars, net, server, user_map, transmit, sem_live, queue_live, rsp,
                 answers, file>>

\* The queue that server_transmit deleted when it could not write a file.
RDead ==
  /\ rsp = "wait" /\ sem > 0 /\ sem' = sem - 1 /\ ~queue_live
  /\ \/ server' = "crashed" /\ UNCHANGED <<rsp, user_map, sem_live>>
     \/ rsp' = "ended" /\ user_map' = 0 /\ sem_live' = FALSE /\ UNCHANGED server
  /\ UNCHANGED <<cvars, net, transmit, queue, queue_live, matching>>

\* result_child: the file as it is when it is read, and then the answer.
ChildMatch ==
  /\ \E j \in DOMAIN jobs :
       /\ jobs' = RemoveAt(jobs, j)
       /\ answers' = Append(answers, file[jobs[j]])
  /\ UNCHANGED <<cvars, net, server, user_map, transmit, heap, rsp, file>>

ChildSend ==
  /\ \E a \in DOMAIN answers :
       answers' = RemoveAt(answers, a) /\ Back("result", answers[a])
  /\ UNCHANGED <<cvars, open, to_server, server, user_map, transmit, heap, rsp, jobs, file>>

-----------------------------------------------------------------------------
TransmitThread ==
  \/ TConnect \/ TLogin \/ TAcquire \/ THeader \/ TOk \/ JChunk \/ LChunk \/ LUnlock
  \/ TRelease
ResultThread == RConnect \/ RLogin \/ ROffer \/ RRelease \/ ExitOnError
Returns == SendImageReturns \/ GetResultReturns
End == Exit \/ \E s \in Socks : Close(s) \/ Tell(s)
Environment == SendImage \/ GetResult \/ Stop \/ LSpawn \/ LExit

ServerTransmit ==
  \/ SAccept \/ SHeader \/ SHeaderFails \/ SData \/ SDataFails \/ SSave \/ SPush \/ SPost
  \/ NoLogin("transmit")
ServerResult == RAccept \/ RLeave \/ RMatch \/ RDead \/ NoLogin("result")
Child == ChildMatch \/ ChildSend

Up == server = "up"
Next ==
  \/ TransmitThread \/ ResultThread \/ Returns \/ End \/ Environment
  \/ Up /\ (ServerTransmit \/ ServerResult \/ Child)

Spec == Init /\ [][Next]_vars

\* Threads run while they can; nothing makes the caller call.
Fairness ==
  /\ WF_vars(TransmitThread) /\ WF_vars(ResultThread) /\ WF_vars(Returns) /\ WF_vars(End)
  /\ WF_vars(Up /\ ServerTransmit) /\ WF_vars(Up /\ ServerResult) /\ WF_vars(Up /\ Child)

FairSpec == Spec /\ Fairness
-----------------------------------------------------------------------------
(* Properties *)

\* Every variable has its type; frames begun were asked for, no permit of
\* sendEndSem is left over, and resultSem never counts more than the queue holds.
TypeOK ==
  /\ java \in BOOLEAN /\ program \in {"run", "exited"}
  /\ user \in {"idle", "sending", "getting", "stopping"}
  /\ globalStop \in BOOLEAN /\ lockstep \in BOOLEAN
  /\ asked \in 0 .. MaxFrames /\ begun \in 0 .. asked /\ imgSize \in Sizes \cup {0}
  /\ sendStartSem \in 0 .. MaxFrames + 1 /\ sendEndSem \in 0 .. 1
  /\ resultSem \in 0 .. Len(resultQueue)
  /\ resultQueue \in Seq(Names) /\ taken \in Seq(Names)
  /\ tpc \in {"connect", "login", "wait", "header", "ok", "chunks", "release", "ended"}
  /\ remain \in Nat /\ rpc \in {"connect", "login", "recv", "signal", "ended"}
  /\ statusMap \in [Socks -> {"none", "open", "closed"}]
  /\ toClose \subseteq Socks /\ telling \subseteq Socks
  /\ open \in [Socks -> {"none", "open", "closed"}]
  /\ to_server \in [Socks -> Seq(Messages)]
  /\ to_client \in [Socks -> Seq(Names \cup {Ok})]
  /\ server \in {"up", "crashed"} /\ user_map \in 0 .. 2
  /\ spc \in {"none", "header", "data", "save", "push", "post", "ended"}
  /\ frame \in Names /\ file_size \in Sizes \cup {0} /\ received_size \in Nat
  /\ sem_match \in BOOLEAN /\ torn \in BOOLEAN /\ unsaved \in BOOLEAN
  /\ sizes \subseteq Sizes
  /\ sem \in Nat /\ sem_live \in BOOLEAN /\ queue \in Seq(Names) /\ queue_live \in BOOLEAN
  /\ rsp \in {"none", "wait", "ended"}
  /\ jobs \in Seq(Names) /\ answers \in Seq(Names) /\ file \in [Names -> Names]

\* The Java client sent a frame of whole chunks: its last message, of no bytes,
\* is one that the server does not wait for.
WholeChunks == java /\ \E n \in sizes : n % Chunk = 0

\* The socket was closed before the login was read or the first frame queued.
EarlyClose == \/ open["transmit"] = "closed" /\ ~sem_match
              \/ open["result"] = "closed" /\ rsp = "none"

\* Sender and receiver agree on where a frame ends, and the two threads of a
\* session on what is still alive: the server crashes only after a Java frame of
\* whole chunks, a close before or within a frame, or a file that did not open.
CrashesOnly ==
  server = "crashed" => WholeChunks \/ EarlyClose \/ torn \/ unsaved

\* A caller who takes every result before it sends the next image, as TestClient
\* does, gets the result of that image, though all images share one file name.
OwnResult ==
  java /\ lockstep /\ ~WholeChunks => \A i \in DOMAIN taken : taken[i] = i

\* sendImage() "would return once the image is sent out", and getResult() when
\* its frame is matched: unless the server lost its place in the messages or
\* could not write the file, no caller waits for ever.
CallsReturn ==
  user \in {"sending", "getting"} ~> user = "idle" \/ WholeChunks \/ unsaved

\* A close that reaches the server ends the session wherever its threads are,
\* and the user may log in again.
CloseLogsOut ==
  open["transmit"] = "closed" ~>
    user_map = 0 \/ server = "crashed" \/ unsaved \/ rsp = "none"
=============================================================================
