------------------------ MODULE CpsServerImplProofs ------------------------
(* The proof that CpsServer implements FrameService, on the inductive         *)
(* invariant of CpsServerInv: every step of a thread is one step of the       *)
(* service, or none.                                                          *)
EXTENDS CpsServerImpl, CpsServerProofs

(* The types the mapping needs. *)
LEMMA MappedTypes ==
  ASSUME TypeOK
  PROVE  /\ c_st \in [Frames -> {"none", "started", "matching", "done", "lost"}]
         /\ received \in [Clients -> 0 .. MaxFrames]
         /\ sem_match \in [Clients -> Clients \cup {None}]
         /\ imgQueue \in [Clients -> Clients \cup {None}]
         /\ rpc \in [Clients -> RStates] /\ tpc \in [Clients -> TStates]
         /\ queue \in [Clients -> Seq(Frames)]
         /\ \A f \in Frames : /\ f = <<f[1], f[2]>> /\ f[1] \in Clients
                              /\ f[2] \in 1 .. MaxFrames /\ f[2] \in Int
BY BoundsAssumption DEF TypeOK, Frames

(* A session that has ended is one whose result thread was told to.           *)
LEMMA PastEnded ==
  ASSUME IInv, NEW q \in past
  PROVE  q \in Clients /\ tpc[q] = "done"
BY SessionEnded DEF past, Over, Ending

(* The stage of a frame of a client, by its number.                           *)
LEMMA StageByNumber ==
  ASSUME IInv, NEW f \in Frames
  PROVE  /\ stage[f] = "absent" <=> f[2] > received[f[1]]
         /\ stage[f] \in {"absent", "queued"} <=> f[2] > HandedOut(f[1])
         /\ stage[f] \in {"absent", "queued"} <=> c_st[f] = "none"
<1>1. /\ f = <<f[1], f[2]>> /\ f[1] \in Clients /\ f[2] \in 1 .. MaxFrames /\ f[2] \in Int
      /\ c_st[f] \in {"none", "started", "matching", "done", "lost"}
      /\ received[f[1]] \in 0 .. MaxFrames /\ queue[f[1]] \in Seq(Frames)
  BY MappedTypes DEF IInv
<1>2. c_st[f] # "none" <=> f[2] <= HandedOut(f[1])
  BY <1>1 DEF IInv, TokenInv, InOrder
<1>3. HandedOut(f[1]) \in Int /\ HandedOut(f[1]) <= received[f[1]]
  BY <1>1, BoundsAssumption DEF HandedOut
<1>4. stage[f] = StageOf(f)
  BY DEF stage
<1>5. CASE c_st[f] = "none"
  BY <1>1, <1>2, <1>3, <1>4, <1>5, BoundsAssumption DEF StageOf
<1>6. CASE c_st[f] # "none"
  BY <1>1, <1>2, <1>3, <1>4, <1>6, BoundsAssumption DEF StageOf
<1> QED BY <1>5, <1>6

-----------------------------------------------------------------------------
(* What a step leaves of the mapped state. *)

OverKept == \A c \in Clients : rpc'[c] \in {"free", "done"} <=> rpc[c] \in {"free", "done"}

\* A step that binds nobody and ends no session leaves who is served and who is past.
LEMMA SessionsSame ==
  ASSUME TypeOK, OverKept, sem_match' = sem_match
  PROVE  served' = served /\ past' = past
<1>1. sem_match \in [Clients -> Clients \cup {None}]
  BY DEF TypeOK
<1> QED BY <1>1 DEF served, past, Over, OverKept

\* A step of no matching frame leaves the stages of the service's frames.
LEMMA StageSame ==
  ASSUME c_st' = c_st, received' = received
  PROVE  stage' = stage
BY DEF stage, StageOf

(* A step that moves one frame on. *)
LEMMA StageExcept ==
  ASSUME NEW f \in Frames, NEW s,
         \A g \in Frames : StageOf(g)' = IF g = f THEN s ELSE StageOf(g)
  PROVE  stage' = [stage EXCEPT ![f] = s]
BY DEF stage

(* Only the erasure of user_map takes a result thread past its session.       *)
LEMMA OverSame ==
  ASSUME TypeOK, Next, \A c \in Clients : ~REraseUser(c)
  PROVE  OverKept
<1>1. rpc \in [Clients -> RStates]
  BY DEF TypeOK
<1>2. CASE UNCHANGED rpc
  BY <1>2 DEF OverKept
<1>3. ASSUME NEW c \in Clients, ConnectResult(c) PROVE OverKept
  BY <1>1, <1>3 DEF ConnectResult, OverKept
<1>4. ASSUME NEW c \in Clients, LoginResult(c) PROVE OverKept
  BY <1>1, <1>4 DEF LoginResult, OverKept
<1>5. ASSUME NEW c \in Clients, ROpen(c) PROVE OverKept
  BY <1>1, <1>5 DEF ROpen, OverKept
<1>6. ASSUME NEW c \in Clients, RWait(c) PROVE OverKept
  BY <1>1, <1>6 DEF RWait, OverKept
<1>7. ASSUME NEW c \in Clients, RLookup(c) PROVE OverKept
  BY <1>1, <1>7 DEF RLookup, OverKept
<1>8. ASSUME NEW c \in Clients, RGate(c) PROVE OverKept
  BY <1>1, <1>8 DEF RGate, OverKept
<1>9. ASSUME NEW c \in Clients, RSpawn(c) PROVE OverKept
  BY <1>1, <1>9 DEF RSpawn, OverKept
<1>10. ASSUME NEW c \in Clients, REraseSem(c) PROVE OverKept
  BY <1>1, <1>10 DEF REraseSem, OverKept
<1>11. ASSUME NEW c \in Clients, REraseQueue(c) PROVE OverKept
  BY <1>1, <1>11 DEF REraseQueue, OverKept
<1>12. ASSUME NEW c \in Clients, RFree(c) PROVE OverKept
  BY <1>1, <1>12 DEF RFree, OverKept
<1> QED BY <1>2, <1>3, <1>4, <1>5, <1>6, <1>7, <1>8, <1>9, <1>10, <1>11, <1>12, Footprint

-----------------------------------------------------------------------------
(* The steps that show. *)

\* server_transmit queues a frame: the next one of its client, which has not
\* been dismissed.
LEMMA PushReceives ==
  ASSUME IInv, Next, NEW c \in Clients, TPush(c)
  PROVE  \E f \in Frames : Service!Receive(f)
<1> DEFINE f == <<c, received[c] + 1>>
<1>1. /\ tpc[c] = "push" /\ server' = server /\ sem_match' = sem_match /\ rpc' = rpc
      /\ c_st' = c_st /\ received' = [received EXCEPT ![c] = @ + 1]
  BY DEF TPush, proc, result, children
<1>2. server = "up"
  BY NextSteps
<1>3. received[c] \in Nat /\ received[c] < MaxFrames
  BY <1>1, MappedTypes, BoundsAssumption DEF IInv, TokenInv, InOrder
<1>4. f \in Frames /\ f[1] = c /\ f[2] = received[c] + 1
  BY <1>3, BoundsAssumption DEF Frames
<1>5. c \notin past
  BY <1>1, PastEnded
<1>6. stage[f] = "absent"
  BY <1>3, <1>4, StageByNumber
<1>7. ASSUME NEW g \in Frames, g[1] = c, g[2] < f[2] PROVE stage[g] # "absent"
  BY <1>3, <1>4, <1>7, StageByNumber, MappedTypes DEF IInv
<1>8. served' = served /\ past' = past
  BY <1>1, SessionsSame DEF IInv, OverKept
<1>9. ASSUME NEW g \in Frames
      PROVE  StageOf(g)' = IF g = f THEN "queued" ELSE StageOf(g)
  <2>1. /\ g = <<g[1], g[2]>> /\ g[1] \in Clients /\ g[2] \in Int
        /\ c_st'[g] = c_st[g] /\ received[g[1]] \in Int
    BY <1>1, MappedTypes, BoundsAssumption DEF IInv
  <2>2. received'[g[1]] = IF g[1] = c THEN received[c] + 1 ELSE received[g[1]]
    BY <1>1, <2>1, MappedTypes DEF IInv
  <2>3. CASE g = f
    <3>1. c_st[f] = "none"
      BY <1>4, <1>6, StageByNumber
    <3>2. c_st'[g] = "none" /\ g[2] <= received'[g[1]]
      BY <1>3, <1>4, <2>1, <2>2, <2>3, <3>1
    <3> QED BY <2>3, <3>2 DEF StageOf
  <2>4. CASE g # f
    <3>1. g[2] <= received'[g[1]] <=> g[2] <= received[g[1]]
      BY <1>3, <1>4, <2>1, <2>2, <2>4
    <3> QED BY <2>1, <2>4, <3>1 DEF StageOf
  <2> QED BY <2>3, <2>4
<1>10. stage' = [stage EXCEPT ![f] = "queued"]
  BY <1>4, <1>9, StageExcept
<1> HIDE DEF f
<1> QED BY <1>1, <1>2, <1>4, <1>5, <1>6, <1>7, <1>8, <1>10
        DEF Service!Receive, Service!Before, Service!Of, Service!Frames, Frames

\* server_transmit finds its user's semaphore: no other client of that user is
\* being served.
LEMMA FindBegins ==
  ASSUME IInv, Next, NEW c \in Clients, TFindSem(c)
  PROVE  Service!Begin(c)
<1>1. /\ tpc[c] = "find" /\ server' = server /\ rpc' = rpc /\ c_st' = c_st
      /\ received' = received /\ sem_map[UserOf[c]] # None
      /\ sem_match' = [sem_match EXCEPT ![c] = sem_map[UserOf[c]]]
  BY DEF TFindSem, proc, result, children
<1>2. server = "up" /\ UserOf[c] \in Users
  BY NextSteps, UserOfAssumption
<1>3. sem_match[c] = None /\ c \in TMembers(UserOf[c])
  BY <1>1 DEF IInv, SessionInv, Bound, TMembers, Outside
<1>4. PICK r \in Clients : r = sem_map[UserOf[c]] /\ ~Over(r)
  BY <1>1, <1>2 DEF IInv, SessionInv, SemMapOwn, RMembers
<1>5. ASSUME NEW d \in served, UserOf[d] = UserOf[c] PROVE FALSE
  <2>1. d \in Clients /\ sem_match[d] # None /\ ~Over(sem_match[d])
    BY DEF served
  <2>2. d \in TMembers(UserOf[c]) /\ sem_match[d] \in RMembers(UserOf[c])
    BY <1>5, <2>1, RunningSession
  <2> QED BY <1>2, <1>3, <2>1, <2>2, Crowd DEF IInv, SessionInv
<1>6. /\ c \notin past /\ served' = served \cup {c} /\ past' = past
  <2>1. sem_match \in [Clients -> Clients \cup {None}]
    BY MappedTypes DEF IInv
  <2>2. \A p \in Clients : sem_match'[p] = IF p = c THEN r ELSE sem_match[p]
    BY <1>1, <1>4, <2>1
  <2>3. \A p \in Clients : Over(p)' <=> Over(p)
    BY <1>1 DEF Over
  <2>4. r # None
    BY ClientsAssumption
  <2> QED BY <1>3, <1>4, <2>1, <2>2, <2>3, <2>4 DEF served, past
<1>7. stage' = stage
  BY <1>1, StageSame
<1> QED BY <1>1, <1>2, <1>5, <1>6, <1>7 DEF Service!Begin

\* server_result pops a frame and creates its thread: it is the oldest that
\* waits, and its permit has been taken.
LEMMA SpawnHandsOut ==
  ASSUME IInv, Next, NEW c \in Clients, RSpawn(c)
  PROVE  \E f \in Frames : Service!HandOut(f)
<1> DEFINE q == imgQueue[c]
           f == Head(queue[q])
<1>1. /\ rpc[c] = "spawn" /\ server' = server /\ sem_match' = sem_match
      /\ received' = received /\ c_st' = [c_st EXCEPT ![f] = "started"]
  BY DEF RSpawn, proc, transmit
<1>2. server = "up"
  BY NextSteps
<1>3. q \in Clients /\ queue[q] # <<>> /\ f \in Frames
  BY <1>1, SpawnFacts DEF IInv, SessionInv, TokenInv
<1>4. sem_match[q] = c /\ q \in served
  BY <1>1, <1>3, ClientsAssumption DEF IInv, SessionInv, QueueKept, served, Over
<1>5. f = <<q, HandedOut(q) + 1>>
  <2>1. queue[q] \in Seq(Frames) /\ 1 \in 1 .. Len(queue[q]) /\ f = queue[q][1]
    BY <1>3, MappedTypes DEF IInv
  <2> QED BY <1>3, <2>1 DEF IInv, TokenInv, InOrder
<1>6. HandedOut(q) \in Int /\ HandedOut(q) + 1 <= received[q]
  <2>1. Len(queue[q]) \in Nat /\ Len(queue[q]) >= 1 /\ received[q] \in Int
    BY <1>3, MappedTypes, BoundsAssumption, SMTT(60) DEF IInv
  <2> QED BY <2>1 DEF HandedOut
<1>7. f[1] = q /\ f[2] = HandedOut(q) + 1
  BY <1>5
<1>8. stage[f] = "queued" /\ c_st[f] = "none"
  BY <1>3, <1>6, <1>7, StageByNumber, MappedTypes, BoundsAssumption, SMTT(60) DEF IInv
<1>9. ASSUME NEW g \in Frames, g[1] = q, g[2] < f[2]
      PROVE  stage[g] \notin {"absent", "queued"}
  BY <1>6, <1>7, <1>9, StageByNumber, MappedTypes, SMTT(30) DEF IInv
<1>10. Service!Cardinality(Service!Matching) < MaxImage
  <2>1. Service!Matching \subseteq Holders /\ IsFiniteSet(Service!Matching)
    <3>1. ASSUME NEW g \in Frames, stage[g] = "matching" PROVE g \in Holders
      BY <3>1, MappedTypes DEF stage, StageOf, Holders, IInv
    <3>2. Service!Matching \subseteq Holders
      BY <3>1 DEF Service!Matching, Service!Frames, Frames
    <3> QED BY <3>2, FiniteCounts, FS_Subset
  <2>2. Cardinality(Service!Matching) <= Cardinality(Holders)
        /\ Cardinality(Service!Matching) \in Nat
    BY <2>1, FiniteCounts, FS_Subset, FS_CardinalityType
  <2>3. Cardinality(Spawning) >= 1
    BY <1>1, FiniteCounts, CardAtLeast DEF Spawning
  <2>4. process_sem + Cardinality(Spawning) + Cardinality(Holders) = MaxImage
        /\ process_sem \in Nat
    BY DEF IInv, Permits, TypeOK
  <2>5. Service!Cardinality(Service!Matching) = Cardinality(Service!Matching)
    BY DEF Cardinality, Service!Cardinality
  <2> QED BY <2>2, <2>3, <2>4, <2>5, FiniteCounts, BoundsAssumption
<1>11. served' = served /\ past' = past
  <2>1. OverKept
    <3>1. rpc' = [rpc EXCEPT ![c] = "wait"] /\ rpc \in [Clients -> RStates]
      BY MappedTypes DEF RSpawn, IInv
    <3> QED BY <1>1, <3>1 DEF OverKept
  <2> QED BY <1>1, <2>1, SessionsSame DEF IInv
<1>12. stage' = [stage EXCEPT ![f] = "matching"]
  <2>1. c_st \in [Frames -> {"none", "started", "matching", "done", "lost"}]
    BY MappedTypes DEF IInv
  <2> HIDE DEF f
  <2>2. ASSUME NEW g \in Frames
        PROVE  StageOf(g)' = IF g = f THEN "matching" ELSE StageOf(g)
    <3>1. c_st'[g] = IF g = f THEN "started" ELSE c_st[g]
      BY <1>1, <1>3, <2>1
    <3> QED BY <1>1, <3>1 DEF StageOf
  <2> QED BY <1>3, <2>2, StageExcept
<1> HIDE DEF f, q
<1> QED BY <1>1, <1>2, <1>3, <1>4, <1>7, <1>8, <1>9, <1>10, <1>11, <1>12
        DEF Service!HandOut, Service!Before, Service!Of, Service!Frames, Frames

\* server_result erases user_map: nothing of its client waits any more.
LEMMA EraseDismisses ==
  ASSUME IInv, Next, NEW r \in Clients, REraseUser(r)
  PROVE  \E q \in Clients : Service!Dismiss(q)
<1>1. /\ rpc[r] = "erase_user" /\ server' = server /\ sem_match' = sem_match
      /\ received' = received /\ c_st' = c_st /\ rpc' = [rpc EXCEPT ![r] = "free"]
  BY DEF REraseUser, proc, transmit, children
<1>2. server = "up"
  BY NextSteps
<1>3. PICK q \in Clients : q = imgQueue[r] /\ sem_match[q] = r /\ queue[q] = <<>>
  BY <1>1, MappedTypes DEF IInv, SessionInv, QueueKept, TokenInv, WakeUps, Ending
<1>4. \A p \in Clients : sem_match[p] = r => p = q
  BY <1>3, ClientsAssumption DEF IInv, SessionInv, Bound
<1>5. q \in served
  BY <1>1, <1>3, ClientsAssumption DEF served, Over
<1>6. ASSUME NEW f \in Frames, f[1] = q PROVE stage[f] # "queued"
  <2>1. HandedOut(q) = received[q] /\ received[q] \in Int
    BY <1>3, MappedTypes, BoundsAssumption DEF HandedOut, IInv
  <2> QED BY <1>6, <2>1, StageByNumber, MappedTypes DEF IInv
<1>7. served' = served \ {q} /\ past' = past \cup {q}
  <2>1. /\ sem_match \in [Clients -> Clients \cup {None}]
        /\ rpc \in [Clients -> RStates]
    BY MappedTypes DEF IInv
  <2>2. \A p \in Clients : Over(p)' <=> (p = r \/ Over(p))
    BY <1>1, <2>1 DEF Over
  <2>3. r # None /\ ~Over(r)
    BY <1>1, ClientsAssumption DEF Over
  <2>4. \A p \in Clients : p \in served' <=> (p \in served /\ p # q)
    BY <1>1, <1>3, <1>4, <2>1, <2>2, <2>3 DEF served
  <2>5. \A p \in Clients : p \in past' <=> (p \in past \/ p = q)
    BY <1>1, <1>3, <1>4, <2>1, <2>2, <2>3 DEF past
  <2>6. served \subseteq Clients /\ past \subseteq Clients
        /\ served' \subseteq Clients /\ past' \subseteq Clients
    BY DEF served, past
  <2> QED BY <2>4, <2>5, <2>6
<1>8. stage' = stage
  BY <1>1, StageSame
<1> QED BY <1>1, <1>2, <1>5, <1>6, <1>7, <1>8
        DEF Service!Dismiss, Service!Of, Service!Frames, Frames

\* result_child reads its arguments: nothing shows.
LEMMA ChildReadHidden ==
  ASSUME TypeOK, NEW f \in Frames, ChildRead(f)
  PROVE  UNCHANGED <<server, served, past, stage>>
<1>1. /\ server' = server /\ sem_match' = sem_match /\ rpc' = rpc
      /\ received' = received /\ c_st[f] = "started"
      /\ c_st' = [c_st EXCEPT ![f] = "matching"]
  BY DEF ChildRead, proc, transmit, result
<1>2. served' = served /\ past' = past
  BY <1>1, SessionsSame DEF OverKept
<1>3. ASSUME NEW g \in Frames PROVE StageOf(g)' = StageOf(g)
  <2>1. c_st'[g] = IF g = f THEN "matching" ELSE c_st[g]
    BY <1>1, MappedTypes
  <2> QED BY <1>1, <2>1 DEF StageOf
<1>4. stage' = stage
  BY <1>3 DEF stage
<1> QED BY <1>1, <1>2, <1>4

\* result_child writes the result and the frame is answered; or it fails and
\* the frame is lost; or the signal ends the process.
LEMMA ReplyAnswers ==
  ASSUME IInv, Next, NEW f \in Frames, ChildReply(f)
  PROVE  \/ Service!Answer(f) \/ Service!Lose(f)
         \/ server' # "up" /\ UNCHANGED <<served, past, stage>>
<1>1. /\ sem_match' = sem_match /\ rpc' = rpc /\ received' = received
      /\ c_st[f] = "matching"
      /\ \/ server' = server /\ c_st' = [c_st EXCEPT ![f] = "done"]
         \/ server' = server /\ c_st' = [c_st EXCEPT ![f] = "lost"]
         \/ server' = "killed" /\ c_st' = c_st
  BY DEF ChildReply, transmit, result
<1>2. server = "up" /\ c_st \in [Frames -> {"none", "started", "matching", "done", "lost"}]
  BY NextSteps, MappedTypes DEF IInv
<1>3. served' = served /\ past' = past
  BY <1>1, SessionsSame DEF IInv, OverKept
<1>4. stage[f] = "matching"
  BY <1>1 DEF stage, StageOf
<1>5. CASE server' = server /\ c_st' = [c_st EXCEPT ![f] = "done"]
  <2>1. ASSUME NEW g \in Frames
        PROVE  StageOf(g)' = IF g = f THEN "answered" ELSE StageOf(g)
    <3>1. c_st'[g] = IF g = f THEN "done" ELSE c_st[g]
      BY <1>2, <1>5
    <3> QED BY <1>1, <3>1 DEF StageOf
  <2>2. stage' = [stage EXCEPT ![f] = "answered"]
    BY <2>1, StageExcept
  <2> QED BY <1>2, <1>3, <1>4, <1>5, <2>2 DEF Service!Answer
<1>6. CASE server' = server /\ c_st' = [c_st EXCEPT ![f] = "lost"]
  <2>1. ASSUME NEW g \in Frames
        PROVE  StageOf(g)' = IF g = f THEN "lost" ELSE StageOf(g)
    <3>1. c_st'[g] = IF g = f THEN "lost" ELSE c_st[g]
      BY <1>2, <1>6
    <3> QED BY <1>1, <3>1 DEF StageOf
  <2>2. stage' = [stage EXCEPT ![f] = "lost"]
    BY <2>1, StageExcept
  <2> QED BY <1>2, <1>3, <1>4, <1>6, <2>2 DEF Service!Lose
<1>7. CASE server' = "killed" /\ c_st' = c_st
  BY <1>1, <1>3, <1>7, StageSame
<1> QED BY <1>1, <1>5, <1>6, <1>7

-----------------------------------------------------------------------------
(* Init maps to Init. *)
LEMMA InitMaps == Init => Service!Init
<1>1. SUFFICES ASSUME Init PROVE Service!Init
  OBVIOUS
<1>2. server = "up" /\ served = {} /\ past = {}
  BY <1>1 DEF Init, served, past
<1>3. ASSUME NEW f \in Frames PROVE stage[f] = "absent"
  <2>1. c_st[f] = "none" /\ received[f[1]] = 0 /\ f[2] \in Int /\ f[2] >= 1
    BY <1>1, BoundsAssumption DEF Init, Frames
  <2> QED BY <2>1 DEF stage, StageOf
<1>4. stage = [f \in Frames |-> "absent"]
  BY <1>3 DEF stage
<1> QED BY <1>2, <1>4 DEF Service!Init, Service!Frames, Frames

(* Every step maps to a step of the service or to none. *)
LEMMA StepMaps ==
  ASSUME IInv, Next
  PROVE  [Service!Next]_(Service!vars)
<1>1. TypeOK /\ server = "up"
  BY NextSteps DEF IInv
<1>2. ASSUME NEW c \in Clients, TPush(c) PROVE Service!Next
  BY <1>2, PushReceives DEF Service!Next, Service!Frames, Frames
<1>3. ASSUME NEW c \in Clients, TFindSem(c) PROVE Service!Next
  BY <1>3, FindBegins DEF Service!Next
<1>4. ASSUME NEW c \in Clients, RSpawn(c) PROVE Service!Next
  BY <1>4, SpawnHandsOut DEF Service!Next, Service!Frames, Frames
<1>5. ASSUME NEW c \in Clients, REraseUser(c) PROVE Service!Next
  BY <1>5, EraseDismisses DEF Service!Next
<1>6. ASSUME NEW f \in Frames, ChildRead(f) PROVE [Service!Next]_(Service!vars)
  BY <1>1, <1>6, ChildReadHidden DEF Service!vars
<1>7. ASSUME UNCHANGED <<served, past, stage>> PROVE [Service!Next]_(Service!vars)
  <2>1. CASE server' = "up"
    BY <1>1, <1>7, <2>1 DEF Service!vars
  <2>2. CASE server' # "up"
    BY <1>1, <1>7, <2>2 DEF Service!Next, Service!Down
  <2> QED BY <2>1, <2>2
<1>8. ASSUME NEW f \in Frames, ChildReply(f) PROVE [Service!Next]_(Service!vars)
  BY <1>7, <1>8, ReplyAnswers DEF Service!Next, Service!Frames, Frames
<1>9. CASE /\ \A c \in Clients : ~TPush(c) /\ ~TFindSem(c) /\ ~RSpawn(c) /\ ~REraseUser(c)
           /\ \A f \in Frames : ~ChildRead(f) /\ ~ChildReply(f)
  <2>1. UNCHANGED <<sem_match, received, c_st>>
    BY <1>9, Footprint
  <2>2. OverKept
    BY <1>1, <1>9, OverSame
  <2>3. UNCHANGED <<served, past, stage>>
    BY <1>1, <2>1, <2>2, SessionsSame, StageSame
  <2> QED BY <1>7, <2>3
<1> QED BY <1>2, <1>3, <1>4, <1>5, <1>6, <1>8, <1>9

\* A stutter of the server is one of the service.
LEMMA StutterMaps ==
  ASSUME UNCHANGED vars
  PROVE  UNCHANGED Service!vars
<1>1. UNCHANGED <<server, sem_match, received, c_st, rpc>>
  BY DEF vars, proc, transmit, result, children
<1>2. stage' = stage
  BY <1>1, StageSame
<1>3. served' = served /\ past' = past
  BY <1>1 DEF served, past, Over
<1> QED BY <1>1, <1>2, <1>3 DEF Service!vars

(* The server, with its threads, maps, queues and semaphores, implements the  *)
(* service: serverThread, server_transmit, server_result and result_child     *)
(* take, hand out and answer the frames of any clients as FrameService says.  *)
THEOREM Refinement == Spec => Implements
<1>1. Init => Service!Init
  BY InitMaps
<1>2. IInv /\ [Next]_vars => [Service!Next]_(Service!vars)
  BY StepMaps, StutterMaps
<1> QED BY <1>1, <1>2, Invariance, PTL DEF Spec, Implements, Service!Spec
=============================================================================
