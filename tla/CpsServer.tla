------------------------------ MODULE CpsServer ------------------------------
(***************************************************************************)
(* The image server of server/server-OpenCV.cpp in its TCP mode without    *)
(* Storm: serverThread logs a connection in, server_transmit receives the  *)
(* frames of a client and queues them, server_result hands each queued     *)
(* frame to a matching thread (result_child), which writes the result back.*)
(*                                                                         *)
(* A client process opens one connection of each kind, so every client has *)
(* one transmit thread and one result thread at the server.  Heap objects  *)
(* are named by the client whose thread allocated them: sem_map[u] = c is  *)
(* the address of the semaphore that c's result thread made, queue_map[u]  *)
(* = c the address of the queue that c's transmit thread made.             *)
(***************************************************************************)
EXTENDS Integers, Sequences, FiniteSets

CONSTANTS
  Clients,      \* client processes; a user who logs in again is a new one
  Users,        \* user IDs
  UserOf,       \* the user ID a client sends in its headers
  MaxFrames,    \* bound: frames one client sends
  MaxImage,     \* max_image, the -p option: permits of process_sem
  LateWrites,   \* what write() may do once the peer has closed its end
  DiskMayFail,  \* whether fopen() of the received file may return NULL
  None          \* the null pointer

ASSUME ClientsAssumption == IsFiniteSet(Clients) /\ None \notin Clients
ASSUME UserOfAssumption == UserOf \in [Clients -> Users]
ASSUME BoundsAssumption == MaxFrames \in Nat /\ MaxImage \in Nat \ {0}
ASSUME FaultsAssumption ==
  /\ LateWrites \subseteq {"sent", "reset", "sigpipe"} /\ "sent" \in LateWrites
  /\ DiskMayFail \in BOOLEAN

Frames == Clients \X (1 .. MaxFrames)   \* a frame, named by its file name
NoFrame == <<None, 0>>                  \* a trans_info never written

VARIABLES
  server,       \* the process: "up", or how it ended
  client,       \* client processes: "running", "stopping", "exited"
  tsock, rsock, \* the server's descriptors of the two connections
  user_map, sem_map, queue_map,      \* the shared maps
  tpc, sem_match, received,          \* the transmit thread and its locals
  rpc, imgQueue, trans_info,         \* the result thread and its locals
  queue, queue_live,                 \* the heap: queues of file names
  sem, sem_live,                     \* the heap: semaphores
  process_sem,                       \* limits the matching threads
  c_st, c_by, c_img                  \* matching threads, by the frame popped

proc == <<server, client>>
socks == <<tsock, rsock>>
maps == <<user_map, sem_map, queue_map>>
transmit == <<tpc, sem_match, received>>
result == <<rpc, imgQueue, trans_info>>
heap == <<queue, queue_live, sem, sem_live>>
children == <<process_sem, c_st, c_by, c_img>>
vars == <<proc, socks, maps, transmit, result, heap, children>>

TStates == {"idle", "header", "refused", "open", "read", "data", "push",
            "find", "post", "hangup", "done", "left"}
RStates == {"idle", "header", "refused", "open", "wait", "lookup", "gate",
            "spawn", "erase_sem", "erase_queue", "erase_user", "free", "done"}

Init ==
  /\ server = "up" /\ client = [c \in Clients |-> "running"]
  /\ tsock = [c \in Clients |-> "none"] /\ rsock = [c \in Clients |-> "none"]
  /\ user_map = [u \in Users |-> 0]
  /\ sem_map = [u \in Users |-> None] /\ queue_map = [u \in Users |-> None]
  /\ tpc = [c \in Clients |-> "idle"] /\ sem_match = [c \in Clients |-> None]
  /\ received = [c \in Clients |-> 0]
  /\ rpc = [c \in Clients |-> "idle"] /\ imgQueue = [c \in Clients |-> None]
  /\ trans_info = [c \in Clients |-> NoFrame]
  /\ queue = [c \in Clients |-> <<>>] /\ queue_live = [c \in Clients |-> FALSE]
  /\ sem = [c \in Clients |-> 0] /\ sem_live = [c \in Clients |-> FALSE]
  /\ process_sem = MaxImage
  /\ c_st = [f \in Frames |-> "none"] /\ c_by = [f \in Frames |-> None]
  /\ c_img = [f \in Frames |-> NoFrame]

-----------------------------------------------------------------------------
(* write() on a connected descriptor.  After the peer has closed, the first  *)
(* write can still succeed or fail; SIGPIPE needs an earlier one.  A         *)
(* descriptor errorSocket has closed gives EBADF.                            *)
WriteResults(fd, up) ==
  IF fd = "closed" THEN {"reset"}
  ELSE IF up THEN {"sent"}
  ELSE LateWrites \ (IF fd = "open" THEN {"sigpipe"} ELSE {})

AfterWrite(fd, up) == IF up \/ fd = "closed" THEN fd ELSE "late"

TransmitUp(c) == client[c] = "running"
ResultUp(c) == client[c] # "exited"

-----------------------------------------------------------------------------
(* The client processes. *)

ConnectTransmit(c) ==
  /\ client[c] = "running" /\ tpc[c] = "idle"
  /\ tpc' = [tpc EXCEPT ![c] = "header"] /\ tsock' = [tsock EXCEPT ![c] = "open"]
  /\ UNCHANGED <<proc, rsock, maps, sem_match, received, result, heap, children>>

ConnectResult(c) ==
  /\ client[c] = "running" /\ rpc[c] = "idle"
  /\ rpc' = [rpc EXCEPT ![c] = "header"] /\ rsock' = [rsock EXCEPT ![c] = "open"]
  /\ UNCHANGED <<proc, tsock, maps, transmit, imgQueue, trans_info, heap, children>>

\* The display thread closes the transmit connection and the process goes on.
ClientStops(c) ==
  /\ client[c] = "running" /\ client' = [client EXCEPT ![c] = "stopping"]
  /\ UNCHANGED <<server, socks, maps, transmit, result, heap, children>>

\* The process ends: both connections close.
ClientExits(c) ==
  /\ client[c] \in {"running", "stopping"}
  /\ client' = [client EXCEPT ![c] = "exited"]
  /\ UNCHANGED <<server, socks, maps, transmit, result, heap, children>>

\* A client that reads "failed" on either connection exits.
ClientRefused(c) ==
  /\ tpc[c] = "refused" \/ rpc[c] = "refused"
  /\ ClientExits(c)

-----------------------------------------------------------------------------
(* serverThread: the header, and the login under user_map_lock. *)

(* Mutants, here and below, are definitions changed the way a slip in the     *)
(* code would change them; no specification uses one.                         *)
AdmitsAThird(u) == user_map[u] < 3

Admitted(u) == user_map[u] < 2

LoginTransmit(c) ==
  /\ tpc[c] = "header"
  /\ IF Admitted(UserOf[c])
     THEN /\ user_map' = [user_map EXCEPT ![UserOf[c]] = @ + 1]
          /\ tpc' = [tpc EXCEPT ![c] = "open"] /\ UNCHANGED tsock
     ELSE /\ tpc' = [tpc EXCEPT ![c] = "refused"]
          /\ tsock' = [tsock EXCEPT ![c] = "closed"] /\ UNCHANGED user_map
  /\ UNCHANGED <<proc, rsock, sem_map, queue_map, sem_match, received, result,
                 heap, children>>

LoginResult(c) ==
  /\ rpc[c] = "header"
  /\ IF Admitted(UserOf[c])
     THEN /\ user_map' = [user_map EXCEPT ![UserOf[c]] = @ + 1]
          /\ rpc' = [rpc EXCEPT ![c] = "open"] /\ UNCHANGED rsock
     ELSE /\ rpc' = [rpc EXCEPT ![c] = "refused"]
          /\ rsock' = [rsock EXCEPT ![c] = "closed"] /\ UNCHANGED user_map
  /\ UNCHANGED <<proc, tsock, sem_map, queue_map, transmit, imgQueue, trans_info,
                 heap, children>>

\* The peer closed before it wrote its header: read() gives 0, strtok() gives
\* NULL, and the NULL is assigned to a string.
HeaderMissing(c) ==
  /\ \/ tpc[c] = "header" /\ ~TransmitUp(c)
     \/ rpc[c] = "header" /\ ~ResultUp(c)
  /\ server' = "crashed"
  /\ UNCHANGED <<client, socks, maps, transmit, result, heap, children>>

-----------------------------------------------------------------------------
(* server_transmit *)

TOpenUnmapped(c) ==
  /\ tpc[c] = "open"
  /\ queue_live' = [queue_live EXCEPT ![c] = TRUE]
  /\ tpc' = [tpc EXCEPT ![c] = "read"]
  /\ UNCHANGED <<proc, socks, maps, sem_match, received, result, queue, sem, sem_live,
                 children>>

TOpen(c) ==
  /\ tpc[c] = "open"
  /\ queue_live' = [queue_live EXCEPT ![c] = TRUE]
  /\ queue_map' = [queue_map EXCEPT ![UserOf[c]] = c]
  /\ \E w \in WriteResults(tsock[c], TransmitUp(c)) :
       IF w = "sent"
       THEN /\ tpc' = [tpc EXCEPT ![c] = "read"]
            /\ tsock' = [tsock EXCEPT ![c] = AfterWrite(@, TransmitUp(c))]
       ELSE /\ tpc' = [tpc EXCEPT ![c] = "left"]       \* errorSocket
            /\ tsock' = [tsock EXCEPT ![c] = "closed"]
  /\ UNCHANGED <<proc, rsock, user_map, sem_map, sem_match, received, result,
                 queue, sem, sem_live, children>>

\* A frame's header: "name,size".  Once a write has been late nothing more can
\* arrive, the client waits for that answer.
TReadHeader(c) ==
  /\ tpc[c] = "read" /\ received[c] < MaxFrames
  /\ TransmitUp(c) \/ tsock[c] = "open"
  /\ tsock' = [tsock EXCEPT ![c] = AfterWrite(@, TransmitUp(c))]
  /\ \E w \in WriteResults(tsock[c], TransmitUp(c)) :
       tpc' = [tpc EXCEPT ![c] = IF w = "sent" THEN "data" ELSE "hangup"]
  /\ UNCHANGED <<proc, rsock, maps, sem_match, received, result, heap, children>>

TReadEnd(c) ==
  /\ tpc[c] = "read" /\ ~TransmitUp(c)
  /\ tpc' = [tpc EXCEPT ![c] = "hangup"]
  /\ UNCHANGED <<proc, socks, maps, sem_match, received, result, heap, children>>

\* The data, whole or cut short by the peer's end; the answer, whose result is
\* not looked at; and the file.  The break after a failed fopen() frees the
\* queue and leaves queue_map as it is.
TData(c) ==
  /\ tpc[c] = "data"
  /\ \E w \in WriteResults(tsock[c], TransmitUp(c)) :
       \/ /\ w = "sigpipe" /\ server' = "killed"
          /\ UNCHANGED <<tsock, tpc, queue_live>>
       \/ /\ w # "sigpipe"
          /\ tsock' = [tsock EXCEPT ![c] = AfterWrite(@, TransmitUp(c))]
          /\ tpc' = [tpc EXCEPT ![c] = "push"]
          /\ UNCHANGED <<server, queue_live>>
       \/ /\ w # "sigpipe" /\ DiskMayFail
          /\ tsock' = [tsock EXCEPT ![c] = "closed"]
          /\ tpc' = [tpc EXCEPT ![c] = "left"]
          /\ queue_live' = [queue_live EXCEPT ![c] = FALSE]
          /\ UNCHANGED server
  /\ UNCHANGED <<client, rsock, maps, sem_match, received, result, queue, sem,
                 sem_live, children>>

TPush(c) ==
  /\ tpc[c] = "push"
  /\ received' = [received EXCEPT ![c] = @ + 1]
  /\ queue' = [queue EXCEPT ![c] = Append(@, <<c, received[c] + 1>>)]
  /\ tpc' = [tpc EXCEPT ![c] = IF sem_match[c] = None THEN "find" ELSE "post"]
  /\ UNCHANGED <<proc, socks, maps, sem_match, result, queue_live, sem, sem_live,
                 children>>

\* The loop that spins until the user's result thread has put its semaphore.
TFindSem(c) ==
  /\ tpc[c] = "find" /\ sem_map[UserOf[c]] # None
  /\ sem_match' = [sem_match EXCEPT ![c] = sem_map[UserOf[c]]]
  /\ tpc' = [tpc EXCEPT ![c] = "post"]
  /\ UNCHANGED <<proc, socks, maps, received, result, heap, children>>

\* Two posts for a frame.
TPostTwice(c) ==
  /\ tpc[c] = "post"
  /\ sem' = [sem EXCEPT ![sem_match[c]] = @ + 2]
  /\ tpc' = [tpc EXCEPT ![c] = "read"]
  /\ UNCHANGED <<proc, socks, maps, sem_match, received, result, queue, queue_live,
                 sem_live, children>>

TPost(c) ==
  /\ tpc[c] = "post"
  /\ sem' = [sem EXCEPT ![sem_match[c]] = @ + 1]
  /\ tpc' = [tpc EXCEPT ![c] = "read"]
  /\ UNCHANGED <<proc, socks, maps, sem_match, received, result, queue, queue_live,
                 sem_live, children>>

\* "signal the result thread to terminate", then errorSocket.  sem_match is
\* still the null pointer when no frame has been received.
THangup(c) ==
  /\ tpc[c] = "hangup"
  /\ IF sem_match[c] = None
     THEN server' = "crashed" /\ UNCHANGED <<sem, tpc, tsock>>
     ELSE /\ sem' = [sem EXCEPT ![sem_match[c]] = @ + 1]
          /\ tpc' = [tpc EXCEPT ![c] = "done"]
          /\ tsock' = [tsock EXCEPT ![c] = "closed"] /\ UNCHANGED server
  /\ UNCHANGED <<client, rsock, maps, sem_match, received, result, queue,
                 queue_live, sem_live, children>>

-----------------------------------------------------------------------------
(* server_result *)

\* A failed write ends the whole process: error() and not errorSocket().
ROpen(c) ==
  /\ rpc[c] = "open"
  /\ sem_live' = [sem_live EXCEPT ![c] = TRUE]
  /\ sem_map' = [sem_map EXCEPT ![UserOf[c]] = c]
  /\ \E w \in WriteResults(rsock[c], ResultUp(c)) :
       IF w = "sent"
       THEN /\ rpc' = [rpc EXCEPT ![c] = "wait"]
            /\ rsock' = [rsock EXCEPT ![c] = AfterWrite(@, ResultUp(c))]
            /\ UNCHANGED server
       ELSE server' = "exit" /\ UNCHANGED <<rpc, rsock>>
  /\ UNCHANGED <<client, tsock, user_map, queue_map, transmit, imgQueue, trans_info,
                 queue, queue_live, sem, children>>

\* sem_wait() interrupted by a signal, its result not looked at.
RWaitInterrupted(c) ==
  /\ rpc[c] = "wait"
  /\ sem' = [sem EXCEPT ![c] = IF @ > 0 THEN @ - 1 ELSE 0]
  /\ rpc' = [rpc EXCEPT ![c] = "lookup"]
  /\ UNCHANGED <<proc, socks, maps, transmit, imgQueue, trans_info, queue,
                 queue_live, sem_live, children>>

RWait(c) ==
  /\ rpc[c] = "wait" /\ sem[c] > 0
  /\ sem' = [sem EXCEPT ![c] = @ - 1]
  /\ rpc' = [rpc EXCEPT ![c] = "lookup"]
  /\ UNCHANGED <<proc, socks, maps, transmit, imgQueue, trans_info, queue,
                 queue_live, sem_live, children>>

\* The first queue in the map, whoever it is of.
QueueOfAnyone(c) ==
  LET some == {u \in Users : queue_map[u] # None}
  IN IF imgQueue[c] # None THEN imgQueue[c]
     ELSE IF some = {} THEN None ELSE queue_map[CHOOSE u \in some : TRUE]

\* The queue this wake-up is about: looked up once, then kept.
QueueOf(c) == IF imgQueue[c] # None THEN imgQueue[c] ELSE queue_map[UserOf[c]]

RLookup(c) ==
  /\ rpc[c] = "lookup" /\ QueueOf(c) # None
  /\ imgQueue' = [imgQueue EXCEPT ![c] = QueueOf(c)]
  /\ rpc' = [rpc EXCEPT ![c] = IF queue[QueueOf(c)] = <<>> THEN "erase_sem"
                                                           ELSE "gate"]
  /\ UNCHANGED <<proc, socks, maps, transmit, trans_info, heap, children>>

RGate(c) ==
  /\ rpc[c] = "gate" /\ process_sem > 0
  /\ process_sem' = process_sem - 1
  /\ rpc' = [rpc EXCEPT ![c] = "spawn"]
  /\ UNCHANGED <<proc, socks, maps, transmit, imgQueue, trans_info, heap, c_st,
                 c_by, c_img>>

\* The newest frame first.
RSpawnNewest(c) ==
  LET q == imgQueue[c]
      f == queue[q][Len(queue[q])]
  IN /\ rpc[c] = "spawn"
     /\ queue' = [queue EXCEPT ![q] = SubSeq(@, 1, Len(@) - 1)]
     /\ trans_info' = [trans_info EXCEPT ![c] = f]
     /\ c_st' = [c_st EXCEPT ![f] = "started"]
     /\ c_by' = [c_by EXCEPT ![f] = c]
     /\ rpc' = [rpc EXCEPT ![c] = "wait"]
     /\ UNCHANGED <<proc, socks, maps, transmit, imgQueue, queue_live, sem, sem_live,
                    process_sem, c_img>>

\* front, pop, trans_info, pthread_create.
RSpawn(c) ==
  LET q == imgQueue[c]
      f == Head(queue[q])
  IN /\ rpc[c] = "spawn"
     /\ queue' = [queue EXCEPT ![q] = Tail(@)]
     /\ trans_info' = [trans_info EXCEPT ![c] = f]
     /\ c_st' = [c_st EXCEPT ![f] = "started"]
     /\ c_by' = [c_by EXCEPT ![f] = c]
     /\ rpc' = [rpc EXCEPT ![c] = "wait"]
     /\ UNCHANGED <<proc, socks, maps, transmit, imgQueue, queue_live, sem, sem_live,
                    process_sem, c_img>>

\* The wake-up with an empty queue: three erasures by key, without the locks.
REraseSem(c) ==
  /\ rpc[c] = "erase_sem"
  /\ sem_map' = [sem_map EXCEPT ![UserOf[c]] = None]
  /\ rpc' = [rpc EXCEPT ![c] = "erase_queue"]
  /\ UNCHANGED <<proc, socks, user_map, queue_map, transmit, imgQueue, trans_info,
                 heap, children>>

REraseQueue(c) ==
  /\ rpc[c] = "erase_queue"
  /\ queue_map' = [queue_map EXCEPT ![UserOf[c]] = None]
  /\ rpc' = [rpc EXCEPT ![c] = "erase_user"]
  /\ UNCHANGED <<proc, socks, user_map, sem_map, transmit, imgQueue, trans_info,
                 heap, children>>

\* The counter goes down instead of the entry being erased.
REraseUserCounts(c) ==
  /\ rpc[c] = "erase_user"
  /\ user_map' = [user_map EXCEPT ![UserOf[c]] = @ - 1]
  /\ rpc' = [rpc EXCEPT ![c] = "free"]
  /\ UNCHANGED <<proc, socks, sem_map, queue_map, transmit, imgQueue, trans_info,
                 heap, children>>

REraseUser(c) ==
  /\ rpc[c] = "erase_user"
  /\ user_map' = [user_map EXCEPT ![UserOf[c]] = 0]
  /\ rpc' = [rpc EXCEPT ![c] = "free"]
  /\ UNCHANGED <<proc, socks, sem_map, queue_map, transmit, imgQueue, trans_info,
                 heap, children>>

\* The two deletes and the return, which leaves the descriptor open.
RFree(c) ==
  /\ rpc[c] = "free"
  /\ sem_live' = [sem_live EXCEPT ![c] = FALSE]
  /\ queue_live' = [queue_live EXCEPT ![imgQueue[c]] = FALSE]
  /\ rpc' = [rpc EXCEPT ![c] = "done"]
  /\ UNCHANGED <<proc, socks, maps, transmit, imgQueue, trans_info, queue, sem,
                 children>>

-----------------------------------------------------------------------------
(* result_child *)

\* The arguments are read through a pointer to the result thread's trans_info,
\* which that thread may have written again.
ChildRead(f) ==
  /\ c_st[f] = "started"
  /\ c_img' = [c_img EXCEPT ![f] = trans_info[c_by[f]]]
  /\ c_st' = [c_st EXCEPT ![f] = "matching"]
  /\ UNCHANGED <<proc, socks, maps, transmit, result, heap, process_sem, c_by>>

ChildReplyKeepsPermit(f) ==
  /\ c_st[f] = "matching"
  /\ c_st' = [c_st EXCEPT ![f] = "done"]
  /\ UNCHANGED <<proc, socks, maps, transmit, result, heap, process_sem, c_by, c_img>>

\* The result is written and the permit returned; a failed write goes to
\* errorSocket, whose pthread_exit skips the sem_post.
ChildReply(f) ==
  LET r == c_by[f] IN
  /\ c_st[f] = "matching"
  /\ \E w \in WriteResults(rsock[r], ResultUp(r)) :
       \/ /\ w = "sent"
          /\ rsock' = [rsock EXCEPT ![r] = AfterWrite(@, ResultUp(r))]
          /\ process_sem' = process_sem + 1
          /\ c_st' = [c_st EXCEPT ![f] = "done"] /\ UNCHANGED server
       \/ /\ w = "reset"
          /\ rsock' = [rsock EXCEPT ![r] = "closed"]
          /\ c_st' = [c_st EXCEPT ![f] = "lost"] /\ UNCHANGED <<server, process_sem>>
       \/ /\ w = "sigpipe" /\ server' = "killed"
          /\ UNCHANGED <<rsock, process_sem, c_st>>
  /\ UNCHANGED <<client, tsock, maps, transmit, result, heap, c_by, c_img>>

-----------------------------------------------------------------------------
(* A null or freed pointer is about to be followed. *)

DeadQueue(c) ==
  \/ rpc[c] = "lookup" /\ (QueueOf(c) = None \/ ~queue_live[QueueOf(c)])
  \/ rpc[c] \in {"gate", "spawn", "free"} /\ ~queue_live[imgQueue[c]]

DeadSem(c) == tpc[c] \in {"post", "hangup"} /\ sem_match[c] # None
              /\ ~sem_live[sem_match[c]]

DeadStack(f) == c_st[f] = "started" /\ rpc[c_by[f]] = "done"

\* Undefined behaviour: the process crashes here, or the freed memory still
\* holds what it held and the step above is taken.
BadAccess ==
  /\ \/ \E c \in Clients : DeadQueue(c) \/ DeadSem(c)
     \/ \E f \in Frames : DeadStack(f)
  /\ server' = "crashed"
  /\ UNCHANGED <<client, socks, maps, transmit, result, heap, children>>

-----------------------------------------------------------------------------
ClientStep(c) ==
  ConnectTransmit(c) \/ ConnectResult(c) \/ ClientStops(c) \/ ClientExits(c)

TransmitStep(c) ==
  \/ LoginTransmit(c) \/ TOpen(c) \/ TReadEnd(c) \/ TData(c) \/ TPush(c)
  \/ TFindSem(c) \/ TPost(c) \/ THangup(c)

ResultStep(c) ==
  \/ LoginResult(c) \/ ROpen(c) \/ RWait(c) \/ RLookup(c) \/ RGate(c) \/ RSpawn(c)
  \/ REraseSem(c) \/ REraseQueue(c) \/ REraseUser(c) \/ RFree(c)

ChildStep(f) == ChildRead(f) \/ ChildReply(f)

Next ==
  /\ server = "up"
  /\ \/ \E c \in Clients : \/ ClientStep(c) \/ TReadHeader(c)
                           \/ TransmitStep(c) \/ ResultStep(c) \/ HeaderMissing(c)
     \/ \E f \in Frames : ChildStep(f)
     \/ BadAccess

Spec == Init /\ [][Next]_vars

(* Scheduling: every server thread runs while it can, a client that is       *)
(* refused exits, and nothing else is promised of the clients.               *)
Fairness ==
  /\ \A c \in Clients : /\ WF_vars(server = "up" /\ TransmitStep(c))
                        /\ WF_vars(server = "up" /\ ResultStep(c))
                        /\ WF_vars(server = "up" /\ ClientRefused(c))
  /\ \A f \in Frames : WF_vars(server = "up" /\ ChildStep(f))

FairSpec == Spec /\ Fairness

-----------------------------------------------------------------------------
(* Properties *)

Ending == {"erase_sem", "erase_queue", "erase_user", "free"}

\* Every variable has its type.
TypeOK ==
  /\ server \in {"up", "crashed", "exit", "killed"}
  /\ client \in [Clients -> {"running", "stopping", "exited"}]
  /\ tsock \in [Clients -> {"none", "open", "late", "closed"}]
  /\ rsock \in [Clients -> {"none", "open", "late", "closed"}]
  /\ user_map \in [Users -> 0 .. 2]
  /\ sem_map \in [Users -> Clients \cup {None}]
  /\ queue_map \in [Users -> Clients \cup {None}]
  /\ tpc \in [Clients -> TStates]
  /\ sem_match \in [Clients -> Clients \cup {None}]
  /\ received \in [Clients -> 0 .. MaxFrames]
  /\ rpc \in [Clients -> RStates]
  /\ imgQueue \in [Clients -> Clients \cup {None}]
  /\ trans_info \in [Clients -> Frames \cup {NoFrame}]
  /\ queue \in [Clients -> Seq(Frames)] /\ queue_live \in [Clients -> BOOLEAN]
  /\ sem \in [Clients -> Nat] /\ sem_live \in [Clients -> BOOLEAN]
  /\ process_sem \in Nat
  /\ c_st \in [Frames -> {"none", "started", "matching", "done", "lost"}]
  /\ c_by \in [Frames -> Clients \cup {None}]
  /\ c_img \in [Frames -> Frames \cup {NoFrame}]

\* server_result takes a wake-up with an empty queue for the client's end: it
\* is right only if the wake-up came from the transmit thread's last sem_post
\* and every frame that thread queued has been handed out.
EmptyWakeMeansHangup ==
  \A c \in Clients : rpc[c] \in Ending =>
    \E q \in Clients : /\ imgQueue[c] = q /\ sem_match[q] = c
                       /\ tpc[q] = "done" /\ queue[q] = <<>>
                       /\ \A n \in 1 .. received[q] : c_st[<<q, n>>] # "none"

\* The erasures go by user ID: each must find the entry of the session that
\* ends, never the one of a session that logged in meanwhile.
ErasesItsOwnEntries ==
  \A c \in Clients :
    /\ rpc[c] = "erase_sem" => sem_map[UserOf[c]] = c
    /\ rpc[c] \in {"erase_sem", "erase_queue"} => queue_map[UserOf[c]] = imgQueue[c]
    /\ rpc[c] \in {"erase_sem", "erase_queue", "erase_user"} => user_map[UserOf[c]] = 2

\* The semaphore a transmit thread posts is never one server_result has deleted.
SemaphoresLive == \A c \in Clients : ~DeadSem(c)

\* The queue server_result works on has been made and not yet been deleted, unless
\* the transmit thread of its session has left because a file could not be opened.
QueuesLive ==
  \A c \in Clients : DeadQueue(c) =>
    DiskMayFail /\ \E q \in Clients : sem_match[q] = c /\ tpc[q] = "left"

\* "confirm that this user does not log in": two transmit threads of one user
\* are never both served, nor do two result threads serve one transmit thread.
OneSessionPerUser ==
  \A c, d \in Clients :
    c # d /\ UserOf[c] = UserOf[d] /\ tpc[c] # "done" /\ tpc[d] # "done"
      => sem_match[c] = None \/ sem_match[d] = None

\* process_sem limits the matching threads to max_image.
Matching == {f \in Frames : c_st[f] \in {"started", "matching"}}
ChildrenBounded == Cardinality(Matching) <= MaxImage

\* A result never goes to a connection of another user than the frame's, even
\* when the arguments have been overwritten before the thread read them.
ResultsStayWithUser ==
  \A f \in Frames : c_st[f] \in {"matching", "done"} =>
    /\ c_img[f] \in Frames
    /\ UserOf[c_img[f][1]] = UserOf[c_by[f]]

\* The frames of one client are handed out in the order they were received.
HandedOutInOrder ==
  \A q \in Clients : \A n \in 2 .. MaxFrames :
    c_st[<<q, n>>] # "none" => c_st[<<q, n - 1>>] # "none"

\* user_map forgets a user only when no thread of that user is left that could
\* still use the maps.
LogoutIsLast ==
  [][\A u \in Users : user_map[u] # 0 /\ user_map'[u] = 0 =>
       \A c \in Clients : UserOf[c] = u =>
         /\ tpc[c] \in {"idle", "header", "refused", "done"}
         /\ rpc'[c] \in {"idle", "header", "refused", "free", "done"}]_vars

\* A frame whose transmit thread knows the result thread's semaphore is matched
\* and answered, unless the server process ends.
FramesServed ==
  \A f \in Frames :
    sem_match[f[1]] # None /\ f[2] <= received[f[1]]
      ~> c_st[f] = "done" \/ server # "up"

\* Once the transmit thread has signalled the end, the user ID is given back.
HangupFreesUser ==
  \A c \in Clients :
    tpc[c] = "done" ~> user_map[UserOf[c]] = 0 \/ server # "up"

-----------------------------------------------------------------------------
(* What comments in the code say and the code does not do.                   *)

\* "signal the result thread to terminate", before sem_post(sem_match) in
\* server_transmit: there is a semaphore to post.
HangupSignalsResult ==
  \A c \in Clients : tpc[c] = "hangup" => sem_match[c] # None

\* "create thread and pass socket and file name to send file": the thread
\* created for a frame works on that frame.
ChildMatchesItsFrame ==
  \A f \in Frames : c_st[f] = "matching" => c_img[f] = f
=============================================================================
