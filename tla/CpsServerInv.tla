----------------------------- MODULE CpsServerInv -----------------------------
(* The inductive invariant of CpsServer, in named parts.                     *)
(*                                                                           *)
(* A user's two logins form a session: its members are counted by user_map,  *)
(* and the counter is what keeps a third thread from reaching the session's  *)
(* semaphore, queue and map entries until the result thread has erased them. *)
EXTENDS CpsServer

Outside == {"idle", "header", "refused"}     \* not logged in
Over(r) == rpc[r] \in {"free", "done"}       \* past the erasure of user_map

\* The threads that user_map[u] counts.  A transmit thread stays counted, even
\* after it has ended, until the result thread it signals erases the entry.
TMembers(u) == {c \in Clients : /\ UserOf[c] = u /\ tpc[c] \notin Outside
                                /\ sem_match[c] = None \/ ~Over(sem_match[c])}
RMembers(u) == {c \in Clients : UserOf[c] = u /\ rpc[c] \notin Outside /\ ~Over(c)}

LoginCount ==
  \A u \in Users : user_map[u] = Cardinality(TMembers(u)) + Cardinality(RMembers(u))

\* A transmit thread posts to a result thread of its user that has opened, and
\* no other transmit thread does.
Bound ==
  \A q \in Clients :
    /\ tpc[q] \in {"post", "done"} => sem_match[q] # None
    /\ sem_match[q] # None =>
         /\ UserOf[sem_match[q]] = UserOf[q]
         /\ rpc[sem_match[q]] \notin Outside \cup {"open"}
         /\ tpc[q] \notin Outside \cup {"open", "find"}
         /\ \A p \in Clients : sem_match[p] = sem_match[q] => p = q

\* A result thread nobody posts to sleeps in its first sem_wait.
Unbound ==
  \A r \in Clients : (\A q \in Clients : sem_match[q] # r) =>
    sem[r] = 0 /\ rpc[r] \in Outside \cup {"open", "wait"}

\* sem_map points into the running session of its user, and keeps pointing
\* there from the moment the transmit thread found it.
SemMapOwn ==
  /\ \A u \in Users : sem_map[u] # None =>
       /\ sem_map[u] \in RMembers(u)
       /\ rpc[sem_map[u]] \notin {"erase_queue", "erase_user"}
       /\ rpc[sem_map[u]] = "open" => server # "up"
  /\ \A q \in Clients :
       sem_match[q] # None /\ ~Over(sem_match[q])
         /\ rpc[sem_match[q]] \notin {"erase_queue", "erase_user"}
         => sem_map[UserOf[q]] = sem_match[q]

\* queue_map has the queue of a transmit thread that has opened, unless two of
\* the user's transmit threads are logged in or the session is being erased.
QueueMapOwn ==
  \A q \in Clients :
    /\ tpc[q] \notin Outside \cup {"open"}
    /\ sem_match[q] = None \/ (~Over(sem_match[q]) /\ rpc[sem_match[q]] # "erase_user")
    => \/ queue_map[UserOf[q]] = q
       \/ \E p \in TMembers(UserOf[q]) : p # q

\* The queue a result thread keeps is the one whose thread posts to it.
QueueKept ==
  \A r \in Clients :
    /\ imgQueue[r] # None => sem_match[imgQueue[r]] = r
    /\ rpc[r] \in {"gate", "spawn", "done"} \cup Ending => imgQueue[r] # None

SessionInv ==
  LoginCount /\ Bound /\ Unbound /\ SemMapOwn /\ QueueMapOwn /\ QueueKept

\* One post for every frame queued, and one more at the hangup.
Awake == {"lookup", "gate", "spawn", "done"} \cup Ending
Holding(r) == IF rpc[r] \in Awake THEN 1 ELSE 0
Unposted(q) == IF tpc[q] = "post" THEN 1 ELSE 0
Hangup(q) == IF tpc[q] = "done" THEN 1 ELSE 0

Balanced(q) ==
  /\ sem_match[q] # None =>
       sem[sem_match[q]] + Holding(sem_match[q])
         = Len(queue[q]) - Unposted(q) + Hangup(q)
  /\ sem_match[q] = None => Len(queue[q]) = IF tpc[q] = "find" THEN 1 ELSE 0

Tokens == \A q \in Clients : Balanced(q)

\* What the wake-up found decides where the result thread goes.
WakeUps ==
  \A r \in Clients :
    /\ rpc[r] \in {"gate", "spawn"} => queue[imgQueue[r]] # <<>>
    /\ rpc[r] \in Ending \cup {"done"} =>
         tpc[imgQueue[r]] = "done" /\ queue[imgQueue[r]] = <<>> /\ sem[r] = 0

\* A queue holds its client's latest frames, in order, and the frames before
\* them are those that have been handed out.
HandedOut(q) == received[q] - Len(queue[q])

InOrder ==
  \A q \in Clients :
    /\ tpc[q] \in {"data", "push"} => received[q] < MaxFrames
    /\ Len(queue[q]) <= received[q]
    /\ \A i \in 1 .. Len(queue[q]) : queue[q][i] = <<q, HandedOut(q) + i>>
    /\ \A n \in 1 .. MaxFrames : c_st[<<q, n>>] # "none" <=> n <= HandedOut(q)

TokenInv == Tokens /\ WakeUps /\ InOrder

\* What a matching thread reads comes from the queue of its own session.
Arguments ==
  /\ \A r \in Clients : trans_info[r] # NoFrame =>
       trans_info[r] \in Frames /\ sem_match[trans_info[r][1]] = r
  /\ \A f \in Frames :
       /\ c_st[f] # "none" => /\ c_by[f] \in Clients /\ trans_info[c_by[f]] # NoFrame
                              /\ sem_match[f[1]] = c_by[f]
       /\ c_st[f] \in {"matching", "done", "lost"} =>
            c_img[f] \in Frames /\ sem_match[c_img[f][1]] = c_by[f]

\* The heap objects that can still be reached have not been deleted.
HeapLive ==
  /\ \A r \in Clients : rpc[r] \notin Outside \cup {"open", "done"} => sem_live[r]
  /\ \A q \in Clients :
       /\ tpc[q] \notin Outside \cup {"open"}
       /\ sem_match[q] # None => rpc[sem_match[q]] # "done"
       => queue_live[q] \/ (DiskMayFail /\ tpc[q] = "left")

\* Every permit is free, taken for the next frame, with a matching thread, or
\* was lost with one.
Spawning == {c \in Clients : rpc[c] = "spawn"}
Holders == {f \in Frames : c_st[f] \in {"started", "matching", "lost"}}
Permits == process_sem + Cardinality(Spawning) + Cardinality(Holders) = MaxImage

IInv == TypeOK /\ SessionInv /\ TokenInv /\ Arguments /\ HeapLive /\ Permits
=============================================================================
