--------------------------- MODULE CpsServerProofs ---------------------------
(* Proofs about CpsServer: IInv is inductive, and what follows from it.      *)
EXTENDS CpsServerInv, FiniteSetTheorems, TLAPS

(* Cardinalities of small sets. *)
LEMMA CardAtLeast ==
  ASSUME NEW S, IsFiniteSet(S)
  PROVE  /\ Cardinality(S) \in Nat
         /\ \A a \in S : Cardinality(S) >= 1
         /\ \A a, b \in S : a # b => Cardinality(S) >= 2
         /\ \A a \in S : Cardinality(S) = 1 => S = {a}
<1>1. Cardinality(S) \in Nat
  BY FS_CardinalityType
<1>2. ASSUME NEW a \in S
      PROVE  /\ IsFiniteSet(S \ {a}) /\ Cardinality(S \ {a}) \in Nat
             /\ Cardinality(S) = Cardinality(S \ {a}) + 1
  <2>1. IsFiniteSet(S \ {a}) /\ Cardinality(S \ {a}) = Cardinality(S) - 1
    BY FS_RemoveElement
  <2>2. Cardinality(S \ {a}) \in Nat
    BY <2>1, FS_CardinalityType
  <2> QED BY <2>1, <2>2, <1>1
<1>3. ASSUME NEW a \in S, NEW b \in S, a # b PROVE Cardinality(S) >= 2
  <2>1. b \in S \ {a}
    BY <1>3
  <2>2. IsFiniteSet(S \ {a}) /\ Cardinality(S \ {a}) \in Nat
    BY <1>2
  <2>3. /\ Cardinality((S \ {a}) \ {b}) \in Nat
        /\ Cardinality(S \ {a}) = Cardinality((S \ {a}) \ {b}) + 1
    <3>1. IsFiniteSet((S \ {a}) \ {b})
          /\ Cardinality((S \ {a}) \ {b}) = Cardinality(S \ {a}) - 1
      BY <2>1, <2>2, FS_RemoveElement
    <3>2. Cardinality((S \ {a}) \ {b}) \in Nat
      BY <3>1, FS_CardinalityType
    <3> QED BY <3>1, <3>2, <2>2
  <2> QED BY <1>1, <1>2, <2>2, <2>3
<1>4. ASSUME NEW a \in S PROVE Cardinality(S) >= 1
  <2>1. Cardinality(S \ {a}) \in Nat /\ Cardinality(S) = Cardinality(S \ {a}) + 1
    BY <1>2
  <2> QED BY <2>1
<1>5. ASSUME NEW a \in S, Cardinality(S) = 1 PROVE S = {a}
  <2>1. \A b \in S : b = a
    BY <1>1, <1>3, <1>5
  <2> QED BY <2>1
<1> QED BY <1>1, <1>3, <1>4, <1>5

-----------------------------------------------------------------------------
(* The steps of Next, one disjunct each. *)
LEMMA NextSteps ==
  ASSUME Next
  PROVE  /\ server = "up"
         /\ \/ \E c \in Clients :
                 \/ ConnectTransmit(c) \/ ConnectResult(c)
                 \/ ClientStops(c) \/ ClientExits(c)
                 \/ LoginTransmit(c) \/ TOpen(c) \/ TReadHeader(c) \/ TReadEnd(c)
                 \/ TData(c) \/ TPush(c) \/ TFindSem(c) \/ TPost(c) \/ THangup(c)
                 \/ LoginResult(c) \/ ROpen(c) \/ RWait(c) \/ RLookup(c) \/ RGate(c)
                 \/ RSpawn(c) \/ REraseSem(c) \/ REraseQueue(c) \/ REraseUser(c)
                 \/ RFree(c) \/ HeaderMissing(c)
            \/ \E f \in Frames : ChildRead(f) \/ ChildReply(f)
            \/ BadAccess
BY DEF Next, ClientStep, TransmitStep, ResultStep, ChildStep

(* Which steps write which variable. *)
LEMMA Footprint ==
  ASSUME Next
  PROVE  /\ BadAccess \/ UNCHANGED server \/ (\E f \in Frames : ChildReply(f))
              \/ \E c \in Clients : TData(c) \/ THangup(c) \/ ROpen(c) \/
              HeaderMissing(c)
         /\ UNCHANGED client \/ \E c \in Clients : ClientStops(c) \/
              ClientExits(c)
         /\ UNCHANGED tsock \/ \E c \in Clients : ConnectTransmit(c) \/
              LoginTransmit(c) \/ TOpen(c) \/ TReadHeader(c) \/ TData(c) \/
              THangup(c)
         /\ UNCHANGED rsock \/ (\E f \in Frames : ChildReply(f)) \/ \E c \in
              Clients : ConnectResult(c) \/ LoginResult(c) \/ ROpen(c)
         /\ UNCHANGED user_map \/ \E c \in Clients : LoginTransmit(c) \/
              LoginResult(c) \/ REraseUser(c)
         /\ UNCHANGED sem_map \/ \E c \in Clients : ROpen(c) \/ REraseSem(c)
         /\ UNCHANGED queue_map \/ \E c \in Clients : TOpen(c) \/
              REraseQueue(c)
         /\ UNCHANGED tpc \/ \E c \in Clients : ConnectTransmit(c) \/
              LoginTransmit(c) \/ TOpen(c) \/ TReadHeader(c) \/ TReadEnd(c) \/
              TData(c) \/ TPush(c) \/ TFindSem(c) \/ TPost(c) \/ THangup(c)
         /\ UNCHANGED sem_match \/ \E c \in Clients : TFindSem(c)
         /\ UNCHANGED received \/ \E c \in Clients : TPush(c)
         /\ UNCHANGED rpc \/ \E c \in Clients : ConnectResult(c) \/
              LoginResult(c) \/ ROpen(c) \/ RWait(c) \/ RLookup(c) \/ RGate(c)
              \/ RSpawn(c) \/ REraseSem(c) \/ REraseQueue(c) \/ REraseUser(c)
              \/ RFree(c)
         /\ UNCHANGED imgQueue \/ \E c \in Clients : RLookup(c)
         /\ UNCHANGED trans_info \/ \E c \in Clients : RSpawn(c)
         /\ UNCHANGED queue \/ \E c \in Clients : TPush(c) \/ RSpawn(c)
         /\ UNCHANGED queue_live \/ \E c \in Clients : TOpen(c) \/ TData(c) \/
              RFree(c)
         /\ UNCHANGED sem \/ \E c \in Clients : TPost(c) \/ THangup(c) \/
              RWait(c)
         /\ UNCHANGED sem_live \/ \E c \in Clients : ROpen(c) \/ RFree(c)
         /\ UNCHANGED process_sem \/ (\E f \in Frames : ChildReply(f)) \/ \E c
              \in Clients : RGate(c)
         /\ UNCHANGED c_st \/ (\E f \in Frames : ChildRead(f) \/ ChildReply(f))
              \/ \E c \in Clients : RSpawn(c)
         /\ UNCHANGED c_by \/ \E c \in Clients : RSpawn(c)
         /\ UNCHANGED c_img \/ (\E f \in Frames : ChildRead(f))
<1> USE DEF proc, socks, maps, transmit, result, heap, children
<1>1. ASSUME NEW c \in Clients, ConnectTransmit(c)
      PROVE UNCHANGED <<server, client, rsock, user_map, sem_map, queue_map,
                          sem_match, received, rpc, imgQueue, trans_info,
                          queue, queue_live, sem, sem_live, process_sem, c_st,
                          c_by, c_img>>
  BY <1>1 DEF ConnectTransmit
<1>2. ASSUME NEW c \in Clients, ConnectResult(c)
      PROVE UNCHANGED <<server, client, tsock, user_map, sem_map, queue_map,
                          tpc, sem_match, received, imgQueue, trans_info,
                          queue, queue_live, sem, sem_live, process_sem, c_st,
                          c_by, c_img>>
  BY <1>2 DEF ConnectResult
<1>3. ASSUME NEW c \in Clients, ClientStops(c)
      PROVE UNCHANGED <<server, tsock, rsock, user_map, sem_map, queue_map,
                          tpc, sem_match, received, rpc, imgQueue, trans_info,
                          queue, queue_live, sem, sem_live, process_sem, c_st,
                          c_by, c_img>>
  BY <1>3 DEF ClientStops
<1>4. ASSUME NEW c \in Clients, ClientExits(c)
      PROVE UNCHANGED <<server, tsock, rsock, user_map, sem_map, queue_map,
                          tpc, sem_match, received, rpc, imgQueue, trans_info,
                          queue, queue_live, sem, sem_live, process_sem, c_st,
                          c_by, c_img>>
  BY <1>4 DEF ClientExits
<1>5. ASSUME NEW c \in Clients, LoginTransmit(c)
      PROVE UNCHANGED <<server, client, rsock, sem_map, queue_map, sem_match,
                          received, rpc, imgQueue, trans_info, queue,
                          queue_live, sem, sem_live, process_sem, c_st, c_by,
                          c_img>>
  BY <1>5 DEF LoginTransmit
<1>6. ASSUME NEW c \in Clients, TOpen(c)
      PROVE UNCHANGED <<server, client, rsock, user_map, sem_map, sem_match,
                          received, rpc, imgQueue, trans_info, queue, sem,
                          sem_live, process_sem, c_st, c_by, c_img>>
  BY <1>6 DEF TOpen
<1>7. ASSUME NEW c \in Clients, TReadHeader(c)
      PROVE UNCHANGED <<server, client, rsock, user_map, sem_map, queue_map,
                          sem_match, received, rpc, imgQueue, trans_info,
                          queue, queue_live, sem, sem_live, process_sem, c_st,
                          c_by, c_img>>
  BY <1>7 DEF TReadHeader
<1>8. ASSUME NEW c \in Clients, TReadEnd(c)
      PROVE UNCHANGED <<server, client, tsock, rsock, user_map, sem_map,
                          queue_map, sem_match, received, rpc, imgQueue,
                          trans_info, queue, queue_live, sem, sem_live,
                          process_sem, c_st, c_by, c_img>>
  BY <1>8 DEF TReadEnd
<1>9. ASSUME NEW c \in Clients, TData(c)
      PROVE UNCHANGED <<client, rsock, user_map, sem_map, queue_map, sem_match,
                          received, rpc, imgQueue, trans_info, queue, sem,
                          sem_live, process_sem, c_st, c_by, c_img>>
  BY <1>9 DEF TData
<1>10. ASSUME NEW c \in Clients, TPush(c)
      PROVE UNCHANGED <<server, client, tsock, rsock, user_map, sem_map,
                          queue_map, sem_match, rpc, imgQueue, trans_info,
                          queue_live, sem, sem_live, process_sem, c_st, c_by,
                          c_img>>
  BY <1>10 DEF TPush
<1>11. ASSUME NEW c \in Clients, TFindSem(c)
      PROVE UNCHANGED <<server, client, tsock, rsock, user_map, sem_map,
                          queue_map, received, rpc, imgQueue, trans_info,
                          queue, queue_live, sem, sem_live, process_sem, c_st,
                          c_by, c_img>>
  BY <1>11 DEF TFindSem
<1>12. ASSUME NEW c \in Clients, TPost(c)
      PROVE UNCHANGED <<server, client, tsock, rsock, user_map, sem_map,
                          queue_map, sem_match, received, rpc, imgQueue,
                          trans_info, queue, queue_live, sem_live, process_sem,
                          c_st, c_by, c_img>>
  BY <1>12 DEF TPost
<1>13. ASSUME NEW c \in Clients, THangup(c)
      PROVE UNCHANGED <<client, rsock, user_map, sem_map, queue_map, sem_match,
                          received, rpc, imgQueue, trans_info, queue,
                          queue_live, sem_live, process_sem, c_st, c_by,
                          c_img>>
  BY <1>13 DEF THangup
<1>14. ASSUME NEW c \in Clients, LoginResult(c)
      PROVE UNCHANGED <<server, client, tsock, sem_map, queue_map, tpc,
                          sem_match, received, imgQueue, trans_info, queue,
                          queue_live, sem, sem_live, process_sem, c_st, c_by,
                          c_img>>
  BY <1>14 DEF LoginResult
<1>15. ASSUME NEW c \in Clients, ROpen(c)
      PROVE UNCHANGED <<client, tsock, user_map, queue_map, tpc, sem_match,
                          received, imgQueue, trans_info, queue, queue_live,
                          sem, process_sem, c_st, c_by, c_img>>
  BY <1>15 DEF ROpen
<1>16. ASSUME NEW c \in Clients, RWait(c)
      PROVE UNCHANGED <<server, client, tsock, rsock, user_map, sem_map,
                          queue_map, tpc, sem_match, received, imgQueue,
                          trans_info, queue, queue_live, sem_live, process_sem,
                          c_st, c_by, c_img>>
  BY <1>16 DEF RWait
<1>17. ASSUME NEW c \in Clients, RLookup(c)
      PROVE UNCHANGED <<server, client, tsock, rsock, user_map, sem_map,
                          queue_map, tpc, sem_match, received, trans_info,
                          queue, queue_live, sem, sem_live, process_sem, c_st,
                          c_by, c_img>>
  BY <1>17 DEF RLookup
<1>18. ASSUME NEW c \in Clients, RGate(c)
      PROVE UNCHANGED <<server, client, tsock, rsock, user_map, sem_map,
                          queue_map, tpc, sem_match, received, imgQueue,
                          trans_info, queue, queue_live, sem, sem_live, c_st,
                          c_by, c_img>>
  BY <1>18 DEF RGate
<1>19. ASSUME NEW c \in Clients, RSpawn(c)
      PROVE UNCHANGED <<server, client, tsock, rsock, user_map, sem_map,
                          queue_map, tpc, sem_match, received, imgQueue,
                          queue_live, sem, sem_live, process_sem, c_img>>
  BY <1>19 DEF RSpawn
<1>20. ASSUME NEW c \in Clients, REraseSem(c)
      PROVE UNCHANGED <<server, client, tsock, rsock, user_map, queue_map, tpc,
                          sem_match, received, imgQueue, trans_info, queue,
                          queue_live, sem, sem_live, process_sem, c_st, c_by,
                          c_img>>
  BY <1>20 DEF REraseSem
<1>21. ASSUME NEW c \in Clients, REraseQueue(c)
      PROVE UNCHANGED <<server, client, tsock, rsock, user_map, sem_map, tpc,
                          sem_match, received, imgQueue, trans_info, queue,
                          queue_live, sem, sem_live, process_sem, c_st, c_by,
                          c_img>>
  BY <1>21 DEF REraseQueue
<1>22. ASSUME NEW c \in Clients, REraseUser(c)
      PROVE UNCHANGED <<server, client, tsock, rsock, sem_map, queue_map, tpc,
                          sem_match, received, imgQueue, trans_info, queue,
                          queue_live, sem, sem_live, process_sem, c_st, c_by,
                          c_img>>
  BY <1>22 DEF REraseUser
<1>23. ASSUME NEW c \in Clients, RFree(c)
      PROVE UNCHANGED <<server, client, tsock, rsock, user_map, sem_map,
                          queue_map, tpc, sem_match, received, imgQueue,
                          trans_info, queue, sem, process_sem, c_st, c_by,
                          c_img>>
  BY <1>23 DEF RFree
<1>24. ASSUME NEW c \in Clients, HeaderMissing(c)
      PROVE UNCHANGED <<client, tsock, rsock, user_map, sem_map, queue_map,
                          tpc, sem_match, received, rpc, imgQueue, trans_info,
                          queue, queue_live, sem, sem_live, process_sem, c_st,
                          c_by, c_img>>
  BY <1>24 DEF HeaderMissing
<1>25. ASSUME NEW f \in Frames, ChildRead(f)
      PROVE UNCHANGED <<server, client, tsock, rsock, user_map, sem_map,
                          queue_map, tpc, sem_match, received, rpc, imgQueue,
                          trans_info, queue, queue_live, sem, sem_live,
                          process_sem, c_by>>
  BY <1>25 DEF ChildRead
<1>26. ASSUME NEW f \in Frames, ChildReply(f)
      PROVE UNCHANGED <<client, tsock, user_map, sem_map, queue_map, tpc,
                          sem_match, received, rpc, imgQueue, trans_info,
                          queue, queue_live, sem, sem_live, c_by, c_img>>
  BY <1>26 DEF ChildReply
<1>27. ASSUME BadAccess
      PROVE UNCHANGED <<client, tsock, rsock, user_map, sem_map, queue_map,
                          tpc, sem_match, received, rpc, imgQueue, trans_info,
                          queue, queue_live, sem, sem_live, process_sem, c_st,
                          c_by, c_img>>
  BY <1>27 DEF BadAccess
<1> QED
  BY NextSteps, <1>1, <1>2, <1>3, <1>4, <1>5, <1>6, <1>7, <1>8, <1>9, <1>10,
       <1>11, <1>12, <1>13, <1>14, <1>15, <1>16, <1>17, <1>18, <1>19, <1>20,
       <1>21, <1>22, <1>23, <1>24, <1>25, <1>26, <1>27

(* A result thread about to pop has a queue with a frame in it. *)
LEMMA SpawnFacts ==
  ASSUME TypeOK, WakeUps, QueueKept, NEW c \in Clients, rpc[c] = "spawn"
  PROVE  /\ imgQueue[c] \in Clients /\ queue[imgQueue[c]] # <<>>
         /\ Head(queue[imgQueue[c]]) \in Frames
         /\ Tail(queue[imgQueue[c]]) \in Seq(Frames)
         /\ Len(Tail(queue[imgQueue[c]])) = Len(queue[imgQueue[c]]) - 1
<1>1. imgQueue \in [Clients -> Clients \cup {None}] /\ queue \in [Clients -> Seq(Frames)]
  BY DEF TypeOK
<1>2. imgQueue[c] \in Clients
  BY <1>1 DEF QueueKept
<1>3. queue[imgQueue[c]] # <<>> /\ queue[imgQueue[c]] \in Seq(Frames)
  BY <1>1, <1>2 DEF WakeUps
<1> QED
  BY <1>2, <1>3

(* Types.  The rest of the invariant gives: a frame is pushed only below     *)
(* MaxFrames and popped only from a queue that is not empty, and a matching  *)
(* thread has a creator.                                                     *)
LEMMA TypeStep ==
  ASSUME TypeOK, WakeUps, InOrder, QueueKept, Arguments, Next
  PROVE  TypeOK'
<1>1. server' \in {"up", "crashed", "exit", "killed"}
  <2>1. server \in {"up", "crashed", "exit", "killed"}
    BY DEF TypeOK
  <2>2. CASE UNCHANGED server
    BY <2>1, <2>2
  <2>3. ASSUME NEW c \in Clients, TData(c) PROVE server' \in {"up", "crashed", "exit", "killed"}
    BY <2>1, <2>3 DEF TData
  <2>4. ASSUME NEW c \in Clients, THangup(c) PROVE server' \in {"up", "crashed", "exit", "killed"}
    BY <2>1, <2>4 DEF THangup
  <2>5. ASSUME NEW c \in Clients, ROpen(c) PROVE server' \in {"up", "crashed", "exit", "killed"}
    BY <2>1, <2>5 DEF ROpen
  <2>6. ASSUME NEW c \in Clients, HeaderMissing(c) PROVE server' \in {"up", "crashed", "exit", "killed"}
    BY <2>1, <2>6 DEF HeaderMissing
  <2>7. ASSUME NEW f \in Frames, ChildReply(f) PROVE server' \in {"up", "crashed", "exit", "killed"}
    BY <2>1, <2>7 DEF ChildReply
  <2>8. ASSUME BadAccess PROVE server' \in {"up", "crashed", "exit", "killed"}
    BY <2>1, <2>8 DEF BadAccess
  <2> QED BY Footprint, <2>2, <2>3, <2>4, <2>5, <2>6, <2>7, <2>8
<1>2. client' \in [Clients -> {"running", "stopping", "exited"}]
  <2>1. client \in [Clients -> {"running", "stopping", "exited"}]
    BY DEF TypeOK
  <2>2. CASE UNCHANGED client
    BY <2>1, <2>2
  <2>3. ASSUME NEW c \in Clients, ClientStops(c) PROVE client' \in [Clients -> {"running", "stopping", "exited"}]
    BY <2>1, <2>3 DEF ClientStops
  <2>4. ASSUME NEW c \in Clients, ClientExits(c) PROVE client' \in [Clients -> {"running", "stopping", "exited"}]
    BY <2>1, <2>4 DEF ClientExits
  <2> QED BY Footprint, <2>2, <2>3, <2>4
<1>3. tsock' \in [Clients -> {"none", "open", "late", "closed"}]
  <2>1. tsock \in [Clients -> {"none", "open", "late", "closed"}]
    BY DEF TypeOK
  <2>2. CASE UNCHANGED tsock
    BY <2>1, <2>2
  <2>3. ASSUME NEW c \in Clients, ConnectTransmit(c) PROVE tsock' \in [Clients -> {"none", "open", "late", "closed"}]
    BY <2>1, <2>3 DEF ConnectTransmit, AfterWrite
  <2>4. ASSUME NEW c \in Clients, LoginTransmit(c) PROVE tsock' \in [Clients -> {"none", "open", "late", "closed"}]
    BY <2>1, <2>4 DEF LoginTransmit, AfterWrite
  <2>5. ASSUME NEW c \in Clients, TOpen(c) PROVE tsock' \in [Clients -> {"none", "open", "late", "closed"}]
    BY <2>1, <2>5 DEF TOpen, AfterWrite
  <2>6. ASSUME NEW c \in Clients, TReadHeader(c) PROVE tsock' \in [Clients -> {"none", "open", "late", "closed"}]
    BY <2>1, <2>6 DEF TReadHeader, AfterWrite
  <2>7. ASSUME NEW c \in Clients, TData(c) PROVE tsock' \in [Clients -> {"none", "open", "late", "closed"}]
    BY <2>1, <2>7 DEF TData, AfterWrite
  <2>8. ASSUME NEW c \in Clients, THangup(c) PROVE tsock' \in [Clients -> {"none", "open", "late", "closed"}]
    BY <2>1, <2>8 DEF THangup, AfterWrite
  <2> QED BY Footprint, <2>2, <2>3, <2>4, <2>5, <2>6, <2>7, <2>8
<1>4. rsock' \in [Clients -> {"none", "open", "late", "closed"}]
  <2>1. rsock \in [Clients -> {"none", "open", "late", "closed"}]
    BY DEF TypeOK
  <2>2. CASE UNCHANGED rsock
    BY <2>1, <2>2
  <2>3. ASSUME NEW c \in Clients, ConnectResult(c) PROVE rsock' \in [Clients -> {"none", "open", "late", "closed"}]
    BY <2>1, <2>3 DEF ConnectResult, AfterWrite
  <2>4. ASSUME NEW c \in Clients, LoginResult(c) PROVE rsock' \in [Clients -> {"none", "open", "late", "closed"}]
    BY <2>1, <2>4 DEF LoginResult, AfterWrite
  <2>5. ASSUME NEW c \in Clients, ROpen(c) PROVE rsock' \in [Clients -> {"none", "open", "late", "closed"}]
    BY <2>1, <2>5 DEF ROpen, AfterWrite
  <2>6. ASSUME NEW f \in Frames, ChildReply(f) PROVE rsock' \in [Clients -> {"none", "open", "late", "closed"}]
    BY <2>1, <2>6 DEF ChildReply, AfterWrite
  <2> QED BY Footprint, <2>2, <2>3, <2>4, <2>5, <2>6
<1>5. user_map' \in [Users -> 0 .. 2]
  <2>1. user_map \in [Users -> 0 .. 2]
    BY DEF TypeOK
  <2>2. CASE UNCHANGED user_map
    BY <2>1, <2>2
  <2>3. ASSUME NEW c \in Clients, LoginTransmit(c) PROVE user_map' \in [Users -> 0 .. 2]
    BY <2>1, <2>3, UserOfAssumption DEF LoginTransmit, Admitted
  <2>4. ASSUME NEW c \in Clients, LoginResult(c) PROVE user_map' \in [Users -> 0 .. 2]
    BY <2>1, <2>4, UserOfAssumption DEF LoginResult, Admitted
  <2>5. ASSUME NEW c \in Clients, REraseUser(c) PROVE user_map' \in [Users -> 0 .. 2]
    BY <2>1, <2>5, UserOfAssumption DEF REraseUser
  <2> QED BY Footprint, <2>2, <2>3, <2>4, <2>5
<1>6. sem_map' \in [Users -> Clients \cup {None}]
  <2>1. sem_map \in [Users -> Clients \cup {None}]
    BY DEF TypeOK
  <2>2. CASE UNCHANGED sem_map
    BY <2>1, <2>2
  <2>3. ASSUME NEW c \in Clients, ROpen(c) PROVE sem_map' \in [Users -> Clients \cup {None}]
    BY <2>1, <2>3 DEF ROpen
  <2>4. ASSUME NEW c \in Clients, REraseSem(c) PROVE sem_map' \in [Users -> Clients \cup {None}]
    BY <2>1, <2>4 DEF REraseSem
  <2> QED BY Footprint, <2>2, <2>3, <2>4
<1>7. queue_map' \in [Users -> Clients \cup {None}]
  <2>1. queue_map \in [Users -> Clients \cup {None}]
    BY DEF TypeOK
  <2>2. CASE UNCHANGED queue_map
    BY <2>1, <2>2
  <2>3. ASSUME NEW c \in Clients, TOpen(c) PROVE queue_map' \in [Users -> Clients \cup {None}]
    BY <2>1, <2>3 DEF TOpen
  <2>4. ASSUME NEW c \in Clients, REraseQueue(c) PROVE queue_map' \in [Users -> Clients \cup {None}]
    BY <2>1, <2>4 DEF REraseQueue
  <2> QED BY Footprint, <2>2, <2>3, <2>4
<1>8. tpc' \in [Clients -> TStates]
  <2>1. tpc \in [Clients -> TStates]
    BY DEF TypeOK
  <2>2. CASE UNCHANGED tpc
    BY <2>1, <2>2
  <2>3. ASSUME NEW c \in Clients, ConnectTransmit(c) PROVE tpc' \in [Clients -> TStates]
    BY <2>1, <2>3 DEF ConnectTransmit, TStates
  <2>4. ASSUME NEW c \in Clients, LoginTransmit(c) PROVE tpc' \in [Clients -> TStates]
    BY <2>1, <2>4 DEF LoginTransmit, TStates
  <2>5. ASSUME NEW c \in Clients, TOpen(c) PROVE tpc' \in [Clients -> TStates]
    BY <2>1, <2>5 DEF TOpen, TStates
  <2>6. ASSUME NEW c \in Clients, TReadHeader(c) PROVE tpc' \in [Clients -> TStates]
    BY <2>1, <2>6 DEF TReadHeader, TStates
  <2>7. ASSUME NEW c \in Clients, TReadEnd(c) PROVE tpc' \in [Clients -> TStates]
    BY <2>1, <2>7 DEF TReadEnd, TStates
  <2>8. ASSUME NEW c \in Clients, TData(c) PROVE tpc' \in [Clients -> TStates]
    BY <2>1, <2>8 DEF TData, TStates
  <2>9. ASSUME NEW c \in Clients, TPush(c) PROVE tpc' \in [Clients -> TStates]
    BY <2>1, <2>9 DEF TPush, TStates
  <2>10. ASSUME NEW c \in Clients, TFindSem(c) PROVE tpc' \in [Clients -> TStates]
    BY <2>1, <2>10 DEF TFindSem, TStates
  <2>11. ASSUME NEW c \in Clients, TPost(c) PROVE tpc' \in [Clients -> TStates]
    BY <2>1, <2>11 DEF TPost, TStates
  <2>12. ASSUME NEW c \in Clients, THangup(c) PROVE tpc' \in [Clients -> TStates]
    BY <2>1, <2>12 DEF THangup, TStates
  <2> QED BY Footprint, <2>2, <2>3, <2>4, <2>5, <2>6, <2>7, <2>8, <2>9, <2>10,
               <2>11, <2>12
<1>9. sem_match' \in [Clients -> Clients \cup {None}]
  <2>1. /\ sem_match \in [Clients -> Clients \cup {None}]
        /\ sem_map \in [Users -> Clients \cup {None}]
    BY DEF TypeOK
  <2>2. CASE UNCHANGED sem_match
    BY <2>1, <2>2
  <2>3. ASSUME NEW c \in Clients, TFindSem(c) PROVE sem_match' \in [Clients -> Clients \cup {None}]
    BY <2>1, <2>3, UserOfAssumption DEF TFindSem
  <2> QED BY Footprint, <2>2, <2>3
<1>10. received' \in [Clients -> 0 .. MaxFrames]
  <2>1. received \in [Clients -> 0 .. MaxFrames]
    BY DEF TypeOK
  <2>2. CASE UNCHANGED received
    BY <2>1, <2>2
  <2>3. ASSUME NEW c \in Clients, TPush(c) PROVE received' \in [Clients -> 0 .. MaxFrames]
    BY <2>1, <2>3, BoundsAssumption DEF TPush, InOrder
  <2> QED BY Footprint, <2>2, <2>3
<1>11. rpc' \in [Clients -> RStates]
  <2>1. rpc \in [Clients -> RStates]
    BY DEF TypeOK
  <2>2. CASE UNCHANGED rpc
    BY <2>1, <2>2
  <2>3. ASSUME NEW c \in Clients, ConnectResult(c) PROVE rpc' \in [Clients -> RStates]
    BY <2>1, <2>3 DEF ConnectResult, RStates
  <2>4. ASSUME NEW c \in Clients, LoginResult(c) PROVE rpc' \in [Clients -> RStates]
    BY <2>1, <2>4 DEF LoginResult, RStates
  <2>5. ASSUME NEW c \in Clients, ROpen(c) PROVE rpc' \in [Clients -> RStates]
    BY <2>1, <2>5 DEF ROpen, RStates
  <2>6. ASSUME NEW c \in Clients, RWait(c) PROVE rpc' \in [Clients -> RStates]
    BY <2>1, <2>6 DEF RWait, RStates
  <2>7. ASSUME NEW c \in Clients, RLookup(c) PROVE rpc' \in [Clients -> RStates]
    BY <2>1, <2>7 DEF RLookup, RStates
  <2>8. ASSUME NEW c \in Clients, RGate(c) PROVE rpc' \in [Clients -> RStates]
    BY <2>1, <2>8 DEF RGate, RStates
  <2>9. ASSUME NEW c \in Clients, RSpawn(c) PROVE rpc' \in [Clients -> RStates]
    BY <2>1, <2>9 DEF RSpawn, RStates
  <2>10. ASSUME NEW c \in Clients, REraseSem(c) PROVE rpc' \in [Clients -> RStates]
    BY <2>1, <2>10 DEF REraseSem, RStates
  <2>11. ASSUME NEW c \in Clients, REraseQueue(c) PROVE rpc' \in [Clients -> RStates]
    BY <2>1, <2>11 DEF REraseQueue, RStates
  <2>12. ASSUME NEW c \in Clients, REraseUser(c) PROVE rpc' \in [Clients -> RStates]
    BY <2>1, <2>12 DEF REraseUser, RStates
  <2>13. ASSUME NEW c \in Clients, RFree(c) PROVE rpc' \in [Clients -> RStates]
    BY <2>1, <2>13 DEF RFree, RStates
  <2> QED BY Footprint, <2>2, <2>3, <2>4, <2>5, <2>6, <2>7, <2>8, <2>9, <2>10,
               <2>11, <2>12, <2>13
<1>12. imgQueue' \in [Clients -> Clients \cup {None}]
  <2>1. /\ imgQueue \in [Clients -> Clients \cup {None}]
        /\ queue_map \in [Users -> Clients \cup {None}]
    BY DEF TypeOK
  <2>2. CASE UNCHANGED imgQueue
    BY <2>1, <2>2
  <2>3. ASSUME NEW c \in Clients, RLookup(c) PROVE imgQueue' \in [Clients -> Clients \cup {None}]
    BY <2>1, <2>3, UserOfAssumption DEF RLookup, QueueOf
  <2> QED BY Footprint, <2>2, <2>3
<1>13. trans_info' \in [Clients -> Frames \cup {NoFrame}]
  <2>1. trans_info \in [Clients -> Frames \cup {NoFrame}]
    BY DEF TypeOK
  <2>2. CASE UNCHANGED trans_info
    BY <2>1, <2>2
  <2>3. ASSUME NEW c \in Clients, RSpawn(c) PROVE trans_info' \in [Clients -> Frames \cup {NoFrame}]
    <3>1. rpc[c] = "spawn"
      BY <2>3 DEF RSpawn
    <3> QED BY <2>1, <2>3, <3>1, SpawnFacts DEF RSpawn
  <2> QED BY Footprint, <2>2, <2>3
<1>14. queue' \in [Clients -> Seq(Frames)]
  <2>1. /\ queue \in [Clients -> Seq(Frames)]
        /\ received \in [Clients -> 0 .. MaxFrames]
    BY DEF TypeOK
  <2>2. CASE UNCHANGED queue
    BY <2>1, <2>2
  <2>3. ASSUME NEW c \in Clients, TPush(c) PROVE queue' \in [Clients -> Seq(Frames)]
    BY <2>1, <2>3, BoundsAssumption DEF TPush, InOrder, Frames
  <2>4. ASSUME NEW c \in Clients, RSpawn(c) PROVE queue' \in [Clients -> Seq(Frames)]
    <3>1. rpc[c] = "spawn"
      BY <2>4 DEF RSpawn
    <3> QED BY <2>1, <2>4, <3>1, SpawnFacts DEF RSpawn
  <2> QED BY Footprint, <2>2, <2>3, <2>4
<1>15. queue_live' \in [Clients -> BOOLEAN]
  <2>1. queue_live \in [Clients -> BOOLEAN]
    BY DEF TypeOK
  <2>2. CASE UNCHANGED queue_live
    BY <2>1, <2>2
  <2>3. ASSUME NEW c \in Clients, TOpen(c) PROVE queue_live' \in [Clients -> BOOLEAN]
    BY <2>1, <2>3 DEF TOpen
  <2>4. ASSUME NEW c \in Clients, TData(c) PROVE queue_live' \in [Clients -> BOOLEAN]
    BY <2>1, <2>4 DEF TData
  <2>5. ASSUME NEW c \in Clients, RFree(c) PROVE queue_live' \in [Clients -> BOOLEAN]
    BY <2>1, <2>5 DEF RFree
  <2> QED BY Footprint, <2>2, <2>3, <2>4, <2>5
<1>16. sem' \in [Clients -> Nat]
  <2>1. sem \in [Clients -> Nat]
    BY DEF TypeOK
  <2>2. CASE UNCHANGED sem
    BY <2>1, <2>2
  <2>3. ASSUME NEW c \in Clients, TPost(c) PROVE sem' \in [Clients -> Nat]
    <3>1. CASE sem_match[c] \in Clients
      BY <2>1, <2>3, <3>1 DEF TPost
    <3>2. CASE sem_match[c] \notin Clients
      BY <2>1, <2>3, <3>2 DEF TPost
    <3> QED BY <3>1, <3>2
  <2>4. ASSUME NEW c \in Clients, THangup(c) PROVE sem' \in [Clients -> Nat]
    BY <2>1, <2>4 DEF THangup
  <2>5. ASSUME NEW c \in Clients, RWait(c) PROVE sem' \in [Clients -> Nat]
    BY <2>1, <2>5 DEF RWait
  <2> QED BY Footprint, <2>2, <2>3, <2>4, <2>5
<1>17. sem_live' \in [Clients -> BOOLEAN]
  <2>1. sem_live \in [Clients -> BOOLEAN]
    BY DEF TypeOK
  <2>2. CASE UNCHANGED sem_live
    BY <2>1, <2>2
  <2>3. ASSUME NEW c \in Clients, ROpen(c) PROVE sem_live' \in [Clients -> BOOLEAN]
    BY <2>1, <2>3 DEF ROpen
  <2>4. ASSUME NEW c \in Clients, RFree(c) PROVE sem_live' \in [Clients -> BOOLEAN]
    BY <2>1, <2>4 DEF RFree
  <2> QED BY Footprint, <2>2, <2>3, <2>4
<1>18. process_sem' \in Nat
  <2>1. process_sem \in Nat
    BY DEF TypeOK
  <2>2. CASE UNCHANGED process_sem
    BY <2>1, <2>2
  <2>3. ASSUME NEW c \in Clients, RGate(c) PROVE process_sem' \in Nat
    BY <2>1, <2>3 DEF RGate
  <2>4. ASSUME NEW f \in Frames, ChildReply(f) PROVE process_sem' \in Nat
    BY <2>1, <2>4 DEF ChildReply
  <2> QED BY Footprint, <2>2, <2>3, <2>4
<1>19. c_st' \in [Frames -> {"none", "started", "matching", "done", "lost"}]
  <2>1. c_st \in [Frames -> {"none", "started", "matching", "done", "lost"}]
    BY DEF TypeOK
  <2>2. CASE UNCHANGED c_st
    BY <2>1, <2>2
  <2>3. ASSUME NEW c \in Clients, RSpawn(c) PROVE c_st' \in [Frames -> {"none", "started", "matching", "done", "lost"}]
    <3>1. rpc[c] = "spawn"
      BY <2>3 DEF RSpawn
    <3> QED BY <2>1, <2>3, <3>1, SpawnFacts DEF RSpawn
  <2>4. ASSUME NEW f \in Frames, ChildRead(f) PROVE c_st' \in [Frames -> {"none", "started", "matching", "done", "lost"}]
    BY <2>1, <2>4 DEF ChildRead
  <2>5. ASSUME NEW f \in Frames, ChildReply(f) PROVE c_st' \in [Frames -> {"none", "started", "matching", "done", "lost"}]
    BY <2>1, <2>5 DEF ChildReply
  <2> QED BY Footprint, <2>2, <2>3, <2>4, <2>5
<1>20. c_by' \in [Frames -> Clients \cup {None}]
  <2>1. c_by \in [Frames -> Clients \cup {None}]
    BY DEF TypeOK
  <2>2. CASE UNCHANGED c_by
    BY <2>1, <2>2
  <2>3. ASSUME NEW c \in Clients, RSpawn(c) PROVE c_by' \in [Frames -> Clients \cup {None}]
    <3>1. rpc[c] = "spawn"
      BY <2>3 DEF RSpawn
    <3> QED BY <2>1, <2>3, <3>1, SpawnFacts DEF RSpawn
  <2> QED BY Footprint, <2>2, <2>3
<1>21. c_img' \in [Frames -> Frames \cup {NoFrame}]
  <2>1. /\ c_img \in [Frames -> Frames \cup {NoFrame}]
        /\ trans_info \in [Clients -> Frames \cup {NoFrame}]
        /\ c_by \in [Frames -> Clients \cup {None}]
    BY DEF TypeOK
  <2>2. CASE UNCHANGED c_img
    BY <2>1, <2>2
  <2>3. ASSUME NEW f \in Frames, ChildRead(f) PROVE c_img' \in [Frames -> Frames \cup {NoFrame}]
    BY <2>1, <2>3 DEF ChildRead, Arguments
  <2> QED BY Footprint, <2>2, <2>3
<1> QED
  BY <1>1, <1>2, <1>3, <1>4, <1>5, <1>6, <1>7, <1>8, <1>9, <1>10, <1>11, <1>12,
       <1>13, <1>14, <1>15, <1>16, <1>17, <1>18, <1>19, <1>20, <1>21 DEF TypeOK

-----------------------------------------------------------------------------
(* A user has at most two counted threads, so one transmit thread and one     *)
(* result thread leave no room for a third.                                   *)
LEMMA Crowd ==
  ASSUME TypeOK, LoginCount, NEW u \in Users
  PROVE  /\ IsFiniteSet(TMembers(u)) /\ Cardinality(TMembers(u)) \in Nat
         /\ IsFiniteSet(RMembers(u)) /\ Cardinality(RMembers(u)) \in Nat
         /\ \A p, q \in TMembers(u), r \in RMembers(u) : p = q
         /\ \A q \in TMembers(u), r, s \in RMembers(u) : r = s
         /\ \A q \in TMembers(u), r \in RMembers(u) :
              user_map[u] = 2 /\ TMembers(u) = {q} /\ RMembers(u) = {r}
<1>1. /\ IsFiniteSet(TMembers(u)) /\ Cardinality(TMembers(u)) \in Nat
      /\ IsFiniteSet(RMembers(u)) /\ Cardinality(RMembers(u)) \in Nat
  <2>1. TMembers(u) \subseteq Clients /\ RMembers(u) \subseteq Clients
    BY DEF TMembers, RMembers
  <2>2. IsFiniteSet(TMembers(u)) /\ IsFiniteSet(RMembers(u))
    BY <2>1, ClientsAssumption, FS_Subset
  <2> QED BY <2>2, FS_CardinalityType
<1>2. /\ user_map[u] \in 0 .. 2
      /\ user_map[u] = Cardinality(TMembers(u)) + Cardinality(RMembers(u))
  BY DEF TypeOK, LoginCount
<1>3. /\ \A q \in TMembers(u) : Cardinality(TMembers(u)) >= 1
      /\ \A p, q \in TMembers(u) : p # q => Cardinality(TMembers(u)) >= 2
  BY <1>1, CardAtLeast
<1>4. /\ \A r \in RMembers(u) : Cardinality(RMembers(u)) >= 1
      /\ \A r, s \in RMembers(u) : r # s => Cardinality(RMembers(u)) >= 2
  BY <1>1, CardAtLeast
<1>5. ASSUME NEW q \in TMembers(u), NEW r \in RMembers(u)
      PROVE  /\ user_map[u] = 2
             /\ \A p \in TMembers(u) : p = q
             /\ \A s \in RMembers(u) : s = r
  <2>1. Cardinality(TMembers(u)) = 1 /\ Cardinality(RMembers(u)) = 1
    BY <1>1, <1>2, <1>3, <1>4
  <2>2. user_map[u] = 2
    BY <1>2, <2>1
  <2> QED BY <1>3, <1>4, <2>1, <2>2
<1>6. \A q \in TMembers(u), r \in RMembers(u) :
        user_map[u] = 2 /\ TMembers(u) = {q} /\ RMembers(u) = {r}
  BY <1>5
<1> QED BY <1>1, <1>5, <1>6

(* Steps that log nobody in or out leave the members as they are. *)
SameStatus ==
  /\ user_map' = user_map /\ sem_match' = sem_match
  /\ \A c \in Clients :
       /\ tpc'[c] \in Outside <=> tpc[c] \in Outside
       /\ rpc'[c] \in Outside <=> rpc[c] \in Outside
       /\ rpc'[c] \in {"free", "done"} <=> rpc[c] \in {"free", "done"}

Kept ==
  /\ user_map' = user_map
  /\ \A u \in Users : TMembers(u)' = TMembers(u) /\ RMembers(u)' = RMembers(u)

\* A step that leaves the threads' places leaves what is counted of them.
LEMMA MembersSame ==
  ASSUME TypeOK, SameStatus
  PROVE  Kept
<1>1. sem_match \in [Clients -> Clients \cup {None}]
  BY DEF TypeOK
<1>2. ASSUME NEW u \in Users PROVE TMembers(u)' = TMembers(u)
  BY <1>1 DEF TMembers, SameStatus, Over
<1>3. ASSUME NEW u \in Users PROVE RMembers(u)' = RMembers(u)
  BY DEF RMembers, SameStatus, Over
<1> QED BY <1>2, <1>3 DEF Kept, SameStatus

(* Every other step leaves the members as they are: TFindSem because the       *)
(* semaphore it finds is one of a session still running.                       *)
LEMMA MembersKept ==
  ASSUME TypeOK, Bound, SemMapOwn, Next
  PROVE  Kept \/ \E c \in Clients : LoginTransmit(c) \/ LoginResult(c) \/ REraseUser(c)
<1>1. /\ tpc \in [Clients -> TStates] /\ rpc \in [Clients -> RStates]
      /\ user_map \in [Users -> 0 .. 2]
      /\ sem_match \in [Clients -> Clients \cup {None}]
  BY DEF TypeOK
<1>2. CASE UNCHANGED <<user_map, tpc, sem_match, rpc>>
  BY <1>2, MembersSame DEF SameStatus, Over
<1>3. ASSUME NEW c \in Clients, ConnectTransmit(c) PROVE Kept
  <2>1. SameStatus
    BY <1>1, <1>3 DEF SameStatus, ConnectTransmit, Outside, Over, proc, socks, maps, transmit, result, heap, children
  <2> QED BY <2>1, MembersSame
<1>4. ASSUME NEW c \in Clients, ConnectResult(c) PROVE Kept
  <2>1. SameStatus
    BY <1>1, <1>4 DEF SameStatus, ConnectResult, Outside, Over, proc, socks, maps, transmit, result, heap, children
  <2> QED BY <2>1, MembersSame
<1>5. ASSUME NEW c \in Clients, TOpen(c) PROVE Kept
  <2>1. SameStatus
    BY <1>1, <1>5 DEF SameStatus, TOpen, Outside, Over, proc, socks, maps, transmit, result, heap, children
  <2> QED BY <2>1, MembersSame
<1>6. ASSUME NEW c \in Clients, TReadHeader(c) PROVE Kept
  <2>1. SameStatus
    BY <1>1, <1>6 DEF SameStatus, TReadHeader, Outside, Over, proc, socks, maps, transmit, result, heap, children
  <2> QED BY <2>1, MembersSame
<1>7. ASSUME NEW c \in Clients, TReadEnd(c) PROVE Kept
  <2>1. SameStatus
    BY <1>1, <1>7 DEF SameStatus, TReadEnd, Outside, Over, proc, socks, maps, transmit, result, heap, children
  <2> QED BY <2>1, MembersSame
<1>8. ASSUME NEW c \in Clients, TData(c) PROVE Kept
  <2>1. SameStatus
    BY <1>1, <1>8 DEF SameStatus, TData, Outside, Over, proc, socks, maps, transmit, result, heap, children
  <2> QED BY <2>1, MembersSame
<1>9. ASSUME NEW c \in Clients, TPush(c) PROVE Kept
  <2>1. SameStatus
    BY <1>1, <1>9 DEF SameStatus, TPush, Outside, Over, proc, socks, maps, transmit, result, heap, children
  <2> QED BY <2>1, MembersSame
<1>10. ASSUME NEW c \in Clients, TPost(c) PROVE Kept
  <2>1. SameStatus
    BY <1>1, <1>10 DEF SameStatus, TPost, Outside, Over, proc, socks, maps, transmit, result, heap, children
  <2> QED BY <2>1, MembersSame
<1>11. ASSUME NEW c \in Clients, THangup(c) PROVE Kept
  <2>1. SameStatus
    BY <1>1, <1>11 DEF SameStatus, THangup, Outside, Over, proc, socks, maps, transmit, result, heap, children
  <2> QED BY <2>1, MembersSame
<1>12. ASSUME NEW c \in Clients, ROpen(c) PROVE Kept
  <2>1. SameStatus
    BY <1>1, <1>12 DEF SameStatus, ROpen, Outside, Over, proc, socks, maps, transmit, result, heap, children
  <2> QED BY <2>1, MembersSame
<1>13. ASSUME NEW c \in Clients, RWait(c) PROVE Kept
  <2>1. SameStatus
    BY <1>1, <1>13 DEF SameStatus, RWait, Outside, Over, proc, socks, maps, transmit, result, heap, children
  <2> QED BY <2>1, MembersSame
<1>14. ASSUME NEW c \in Clients, RLookup(c) PROVE Kept
  <2>1. SameStatus
    BY <1>1, <1>14 DEF SameStatus, RLookup, Outside, Over, proc, socks, maps, transmit, result, heap, children
  <2> QED BY <2>1, MembersSame
<1>15. ASSUME NEW c \in Clients, RGate(c) PROVE Kept
  <2>1. SameStatus
    BY <1>1, <1>15 DEF SameStatus, RGate, Outside, Over, proc, socks, maps, transmit, result, heap, children
  <2> QED BY <2>1, MembersSame
<1>16. ASSUME NEW c \in Clients, RSpawn(c) PROVE Kept
  <2>1. SameStatus
    BY <1>1, <1>16 DEF SameStatus, RSpawn, Outside, Over, proc, socks, maps, transmit, result, heap, children
  <2> QED BY <2>1, MembersSame
<1>17. ASSUME NEW c \in Clients, REraseSem(c) PROVE Kept
  <2>1. SameStatus
    BY <1>1, <1>17 DEF SameStatus, REraseSem, Outside, Over, proc, socks, maps, transmit, result, heap, children
  <2> QED BY <2>1, MembersSame
<1>18. ASSUME NEW c \in Clients, REraseQueue(c) PROVE Kept
  <2>1. SameStatus
    BY <1>1, <1>18 DEF SameStatus, REraseQueue, Outside, Over, proc, socks, maps, transmit, result, heap, children
  <2> QED BY <2>1, MembersSame
<1>19. ASSUME NEW c \in Clients, RFree(c) PROVE Kept
  <2>1. SameStatus
    BY <1>1, <1>19 DEF SameStatus, RFree, Outside, Over, proc, socks, maps, transmit, result, heap, children
  <2> QED BY <2>1, MembersSame
<1>20. ASSUME NEW c \in Clients, TFindSem(c) PROVE Kept
  <2> DEFINE r == sem_map[UserOf[c]]
  <2>1. /\ r \in Clients /\ ~Over(r) /\ sem_match[c] = None
        /\ tpc[c] \notin Outside
    <3>1. UserOf[c] \in Users /\ r # None /\ tpc[c] = "find"
      BY <1>20, UserOfAssumption DEF TFindSem
    <3>2. r \in RMembers(UserOf[c])
      BY <3>1 DEF SemMapOwn
    <3>3. sem_match[c] = None /\ tpc[c] \notin Outside
      BY <3>1 DEF Bound, Outside
    <3> QED BY <3>2, <3>3 DEF RMembers
  <2>2. /\ sem_match' = [sem_match EXCEPT ![c] = r]
        /\ tpc' = [tpc EXCEPT ![c] = "post"]
        /\ rpc' = rpc /\ user_map' = user_map
    BY <1>20 DEF TFindSem, proc, socks, maps, transmit, result, heap, children
  <2>3. \A w \in Users : TMembers(w)' = TMembers(w)
    BY <1>1, <2>1, <2>2 DEF TMembers, Outside, Over
  <2>4. \A w \in Users : RMembers(w)' = RMembers(w)
    BY <2>2 DEF RMembers, Over
  <2> QED BY <2>2, <2>3, <2>4 DEF Kept
<1> QED
  BY Footprint, <1>2, <1>3, <1>4, <1>5, <1>6, <1>7, <1>8, <1>9, <1>10, <1>11,
       <1>12, <1>13, <1>14, <1>15, <1>16, <1>17, <1>18, <1>19, <1>20

(* user_map[u] is the number of counted threads. *)
LEMMA LoginCountStep ==
  ASSUME TypeOK, LoginCount, Bound, SemMapOwn, QueueKept, Next
  PROVE  LoginCount'
<1>1. /\ tpc \in [Clients -> TStates] /\ rpc \in [Clients -> RStates]
      /\ user_map \in [Users -> 0 .. 2]
      /\ sem_match \in [Clients -> Clients \cup {None}]
  BY DEF TypeOK
<1>2. CASE Kept
  BY <1>2 DEF LoginCount, Kept
<1>3. ASSUME NEW c \in Clients, LoginTransmit(c) PROVE LoginCount'
  <2>1. CASE ~Admitted(UserOf[c])
    <3>1. SameStatus
      BY <1>1, <1>3, <2>1 DEF SameStatus, LoginTransmit, Outside, Over, proc, socks, maps, transmit, result, heap, children
    <3> QED BY <1>2, <3>1, MembersSame
  <2>2. CASE Admitted(UserOf[c])
    <3> DEFINE u == UserOf[c]
    <3>1. u \in Users /\ sem_match[c] = None /\ c \notin TMembers(u)
      BY <1>3, UserOfAssumption DEF LoginTransmit, Bound, Outside, TMembers
    <3>2. /\ user_map' = [user_map EXCEPT ![u] = @ + 1]
          /\ tpc' = [tpc EXCEPT ![c] = "open"]
          /\ rpc' = rpc /\ sem_match' = sem_match
      BY <1>3, <2>2 DEF LoginTransmit, proc, socks, maps, transmit, result, heap, children
    <3>3. /\ TMembers(u)' = TMembers(u) \cup {c}
          /\ \A w \in Users : w # u => TMembers(w)' = TMembers(w)
          /\ \A w \in Users : RMembers(w)' = RMembers(w)
      <4>1. TMembers(u)' = TMembers(u) \cup {c}
        BY <1>1, <3>1, <3>2 DEF TMembers, Outside, Over
      <4>2. \A w \in Users : w # u => TMembers(w)' = TMembers(w)
        BY <1>1, <3>1, <3>2 DEF TMembers, Outside, Over
      <4>3. \A w \in Users : RMembers(w)' = RMembers(w)
        BY <3>2 DEF RMembers, Outside, Over
      <4> QED BY <4>1, <4>2, <4>3
    <3>4. Cardinality(TMembers(u) \cup {c}) = Cardinality(TMembers(u)) + 1
      BY <3>1, Crowd, FS_AddElement
    <3>5. user_map'[u] = Cardinality(TMembers(u)') + Cardinality(RMembers(u)')
      <4>1. user_map'[u] = user_map[u] + 1
        BY <1>1, <3>1, <3>2
      <4>2. user_map[u] = Cardinality(TMembers(u)) + Cardinality(RMembers(u))
        BY <3>1 DEF LoginCount
      <4>3. Cardinality(TMembers(u)) \in Nat /\ Cardinality(RMembers(u)) \in Nat
        BY <3>1, Crowd
      <4>4. TMembers(u)' = TMembers(u) \cup {c} /\ RMembers(u)' = RMembers(u)
        BY <3>1, <3>3
      <4> QED BY <3>4, <4>1, <4>2, <4>3, <4>4
    <3>6. ASSUME NEW w \in Users, w # u
          PROVE user_map'[w] = Cardinality(TMembers(w)') + Cardinality(RMembers(w)')
      BY <1>1, <3>2, <3>3, <3>6 DEF LoginCount
    <3> QED BY <3>5, <3>6 DEF LoginCount
  <2> QED BY <2>1, <2>2
<1>4. ASSUME NEW c \in Clients, LoginResult(c) PROVE LoginCount'
  <2>1. CASE ~Admitted(UserOf[c])
    <3>1. SameStatus
      BY <1>1, <1>4, <2>1 DEF SameStatus, LoginResult, Outside, Over, proc, socks, maps, transmit, result, heap, children
    <3> QED BY <1>2, <3>1, MembersSame
  <2>2. CASE Admitted(UserOf[c])
    <3> DEFINE u == UserOf[c]
    <3>1. u \in Users /\ c \notin RMembers(u)
      BY <1>4, UserOfAssumption DEF LoginResult, Outside, RMembers
    <3>2. /\ user_map' = [user_map EXCEPT ![u] = @ + 1]
          /\ rpc' = [rpc EXCEPT ![c] = "open"]
          /\ tpc' = tpc /\ sem_match' = sem_match
          /\ rpc[c] = "header"
      BY <1>4, <2>2 DEF LoginResult, proc, socks, maps, transmit, result, heap, children
    <3>3. /\ RMembers(u)' = RMembers(u) \cup {c}
          /\ \A w \in Users : w # u => RMembers(w)' = RMembers(w)
          /\ \A w \in Users : TMembers(w)' = TMembers(w)
      <4>1. RMembers(u)' = RMembers(u) \cup {c}
        BY <1>1, <3>2 DEF RMembers, Outside, Over
      <4>2. \A w \in Users : w # u => RMembers(w)' = RMembers(w)
        BY <1>1, <3>2 DEF RMembers, Outside, Over
      <4>3. \A d \in Clients : Over(d)' <=> Over(d)
        BY <1>1, <3>2 DEF Over
      <4>4. \A w \in Users : TMembers(w)' = TMembers(w)
        BY <1>1, <3>2, <4>3 DEF TMembers
      <4> QED BY <4>1, <4>2, <4>4
    <3>4. Cardinality(RMembers(u) \cup {c}) = Cardinality(RMembers(u)) + 1
      BY <3>1, Crowd, FS_AddElement
    <3>5. user_map'[u] = Cardinality(TMembers(u)') + Cardinality(RMembers(u)')
      <4>1. user_map'[u] = user_map[u] + 1
        BY <1>1, <3>1, <3>2
      <4>2. user_map[u] = Cardinality(TMembers(u)) + Cardinality(RMembers(u))
        BY <3>1 DEF LoginCount
      <4>3. Cardinality(TMembers(u)) \in Nat /\ Cardinality(RMembers(u)) \in Nat
        BY <3>1, Crowd
      <4>4. RMembers(u)' = RMembers(u) \cup {c} /\ TMembers(u)' = TMembers(u)
        BY <3>1, <3>3
      <4> QED BY <3>4, <4>1, <4>2, <4>3, <4>4
    <3>6. ASSUME NEW w \in Users, w # u
          PROVE user_map'[w] = Cardinality(TMembers(w)') + Cardinality(RMembers(w)')
      BY <1>1, <3>2, <3>3, <3>6 DEF LoginCount
    <3> QED BY <3>5, <3>6 DEF LoginCount
  <2> QED BY <2>1, <2>2
<1>5. ASSUME NEW r \in Clients, REraseUser(r) PROVE LoginCount'
  <2> DEFINE u == UserOf[r]
             q == imgQueue[r]
  <2>1. /\ user_map' = [user_map EXCEPT ![u] = 0]
        /\ rpc' = [rpc EXCEPT ![r] = "free"]
        /\ tpc' = tpc /\ sem_match' = sem_match /\ rpc[r] = "erase_user"
    BY <1>5 DEF REraseUser, proc, socks, maps, transmit, result, heap, children
  <2>2. u \in Users /\ q \in Clients /\ sem_match[q] = r
    <3>1. q # None /\ imgQueue \in [Clients -> Clients \cup {None}]
      BY <2>1 DEF QueueKept, Ending, TypeOK
    <3> QED BY <3>1, UserOfAssumption DEF QueueKept
  <2>3. TMembers(u) = {q} /\ RMembers(u) = {r}
    <3>1. q \in TMembers(u) /\ r \in RMembers(u)
      BY <2>1, <2>2, ClientsAssumption DEF TMembers, RMembers, Bound, Outside, Over
    <3> QED BY <2>2, <3>1, Crowd
  <2>4. TMembers(u)' = {} /\ RMembers(u)' = {}
    <3>1. TMembers(u)' \subseteq TMembers(u) \ {q}
      BY <1>1, <2>1, <2>2, ClientsAssumption DEF TMembers, Over
    <3>2. RMembers(u)' \subseteq RMembers(u) \ {r}
      BY <1>1, <2>1 DEF RMembers, Outside, Over
    <3> QED BY <2>3, <3>1, <3>2
  <2>5. ASSUME NEW w \in Users, w # u
        PROVE TMembers(w)' = TMembers(w) /\ RMembers(w)' = RMembers(w)
    <3>1. \A d \in Clients : d # r => (Over(d)' <=> Over(d))
      BY <1>1, <2>1 DEF Over
    <3>2. \A d \in Clients : UserOf[d] = w => sem_match[d] # r
      BY <2>5, ClientsAssumption DEF Bound
    <3>3. TMembers(w)' = TMembers(w)
      BY <1>1, <2>1, <3>1, <3>2 DEF TMembers
    <3>4. RMembers(w)' = RMembers(w)
      BY <1>1, <2>1, <2>5, <3>1 DEF RMembers, Outside
    <3> QED BY <3>3, <3>4
  <2>6. user_map'[u] = Cardinality(TMembers(u)') + Cardinality(RMembers(u)')
    BY <1>1, <2>1, <2>2, <2>4, FS_EmptySet
  <2>7. ASSUME NEW w \in Users, w # u
        PROVE user_map'[w] = Cardinality(TMembers(w)') + Cardinality(RMembers(w)')
    BY <1>1, <2>1, <2>5, <2>7 DEF LoginCount
  <2> QED BY <2>6, <2>7 DEF LoginCount
<1> QED
  BY MembersKept, <1>2, <1>3, <1>4, <1>5

(* No two transmit threads post to one semaphore: a second one, found in     *)
(* sem_map, would be a third member.                                          *)
LEMMA BoundStep ==
  ASSUME TypeOK, LoginCount, Bound, SemMapOwn, Next
  PROVE  Bound'
<1>1. /\ tpc \in [Clients -> TStates]
      /\ rpc \in [Clients -> RStates]
      /\ sem_match \in [Clients -> Clients \cup {None}]
  BY DEF TypeOK
<1>2. CASE UNCHANGED <<tpc, rpc, sem_match>>
  BY <1>2 DEF Bound
<1>3. ASSUME NEW c \in Clients, ConnectTransmit(c) PROVE Bound'
  BY <1>1, <1>3 DEF Bound, ConnectTransmit, Outside, proc, socks, maps,
       transmit, result, heap, children
<1>4. ASSUME NEW c \in Clients, ConnectResult(c) PROVE Bound'
  BY <1>1, <1>4 DEF Bound, ConnectResult, Outside, proc, socks, maps, transmit,
       result, heap, children
<1>5. ASSUME NEW c \in Clients, LoginTransmit(c) PROVE Bound'
  BY <1>1, <1>5 DEF Bound, LoginTransmit, Outside, proc, socks, maps, transmit,
       result, heap, children
<1>6. ASSUME NEW c \in Clients, TOpen(c) PROVE Bound'
  BY <1>1, <1>6 DEF Bound, TOpen, Outside, proc, socks, maps, transmit, result,
       heap, children
<1>7. ASSUME NEW c \in Clients, TReadHeader(c) PROVE Bound'
  BY <1>1, <1>7 DEF Bound, TReadHeader, Outside, proc, socks, maps, transmit,
       result, heap, children
<1>8. ASSUME NEW c \in Clients, TReadEnd(c) PROVE Bound'
  BY <1>1, <1>8 DEF Bound, TReadEnd, Outside, proc, socks, maps, transmit,
       result, heap, children
<1>9. ASSUME NEW c \in Clients, TData(c) PROVE Bound'
  BY <1>1, <1>9 DEF Bound, TData, Outside, proc, socks, maps, transmit, result,
       heap, children
<1>10. ASSUME NEW c \in Clients, TPush(c) PROVE Bound'
  BY <1>1, <1>10 DEF Bound, TPush, Outside, proc, socks, maps, transmit,
       result, heap, children
<1>11. ASSUME NEW c \in Clients, TFindSem(c) PROVE Bound'
  <2> DEFINE u == UserOf[c]
             r == sem_map[u]
  <2>1. /\ u \in Users /\ r \in Clients /\ r # None /\ UserOf[r] = u
        /\ rpc[r] \notin Outside \cup {"open"}
        /\ sem_match[c] = None /\ c \in TMembers(u) /\ r \in RMembers(u)
    <3>1. u \in Users /\ r # None /\ tpc[c] = "find"
      BY <1>11, UserOfAssumption DEF TFindSem
    <3>2. r \in RMembers(u) /\ rpc[r] # "open"
      BY <3>1, NextSteps DEF SemMapOwn
    <3>3. sem_match[c] = None /\ tpc[c] \notin Outside
      BY <3>1 DEF Bound, Outside
    <3> QED BY <3>1, <3>2, <3>3 DEF RMembers, TMembers
  <2>2. /\ sem_match' = [sem_match EXCEPT ![c] = r]
        /\ tpc' = [tpc EXCEPT ![c] = "post"] /\ rpc' = rpc
    BY <1>11 DEF TFindSem, result
  <2>3. \A p \in Clients : sem_match[p] = r => p = c
    <3>1. ASSUME NEW p \in Clients, sem_match[p] = r PROVE p \in TMembers(u)
      BY <2>1, <3>1 DEF Bound, TMembers, RMembers, Outside
    <3> QED BY <2>1, <3>1, Crowd
  <2> QED BY <1>1, <2>1, <2>2, <2>3 DEF Bound, Outside
<1>12. ASSUME NEW c \in Clients, TPost(c) PROVE Bound'
  BY <1>1, <1>12 DEF Bound, TPost, Outside, proc, socks, maps, transmit,
       result, heap, children
<1>13. ASSUME NEW c \in Clients, THangup(c) PROVE Bound'
  BY <1>1, <1>13 DEF Bound, THangup, Outside, proc, socks, maps, transmit,
       result, heap, children
<1>14. ASSUME NEW c \in Clients, LoginResult(c) PROVE Bound'
  BY <1>1, <1>14 DEF Bound, LoginResult, Outside, proc, socks, maps, transmit,
       result, heap, children
<1>15. ASSUME NEW c \in Clients, ROpen(c) PROVE Bound'
  BY <1>1, <1>15 DEF Bound, ROpen, Outside, proc, socks, maps, transmit,
       result, heap, children
<1>16. ASSUME NEW c \in Clients, RWait(c) PROVE Bound'
  BY <1>1, <1>16 DEF Bound, RWait, Outside, proc, socks, maps, transmit,
       result, heap, children
<1>17. ASSUME NEW c \in Clients, RLookup(c) PROVE Bound'
  BY <1>1, <1>17 DEF Bound, RLookup, Outside, proc, socks, maps, transmit,
       result, heap, children
<1>18. ASSUME NEW c \in Clients, RGate(c) PROVE Bound'
  BY <1>1, <1>18 DEF Bound, RGate, Outside, proc, socks, maps, transmit,
       result, heap, children
<1>19. ASSUME NEW c \in Clients, RSpawn(c) PROVE Bound'
  BY <1>1, <1>19 DEF Bound, RSpawn, Outside, proc, socks, maps, transmit,
       result, heap, children
<1>20. ASSUME NEW c \in Clients, REraseSem(c) PROVE Bound'
  BY <1>1, <1>20 DEF Bound, REraseSem, Outside, proc, socks, maps, transmit,
       result, heap, children
<1>21. ASSUME NEW c \in Clients, REraseQueue(c) PROVE Bound'
  BY <1>1, <1>21 DEF Bound, REraseQueue, Outside, proc, socks, maps, transmit,
       result, heap, children
<1>22. ASSUME NEW c \in Clients, REraseUser(c) PROVE Bound'
  BY <1>1, <1>22 DEF Bound, REraseUser, Outside, proc, socks, maps, transmit,
       result, heap, children
<1>23. ASSUME NEW c \in Clients, RFree(c) PROVE Bound'
  BY <1>1, <1>23 DEF Bound, RFree, Outside, proc, socks, maps, transmit,
       result, heap, children
<1> QED
  BY Footprint, <1>2, <1>3, <1>4, <1>5, <1>6, <1>7, <1>8, <1>9, <1>10, <1>11,
       <1>12, <1>13, <1>14, <1>15, <1>16, <1>17, <1>18, <1>19, <1>20, <1>21,
       <1>22, <1>23

(* Without a poster a result thread stays in its first sem_wait. *)
LEMMA UnboundStep ==
  ASSUME TypeOK, Bound, Unbound, Next
  PROVE  Unbound'
<1>1. /\ sem \in [Clients -> Nat]
      /\ rpc \in [Clients -> RStates]
      /\ sem_match \in [Clients -> Clients \cup {None}]
  BY DEF TypeOK
<1>2. CASE UNCHANGED <<sem, rpc, sem_match>>
  BY <1>2 DEF Unbound
<1>3. ASSUME NEW c \in Clients, ConnectResult(c) PROVE Unbound'
  BY <1>1, <1>3 DEF Unbound, ConnectResult, Outside, proc, socks, maps,
       transmit, result, heap, children
<1>4. ASSUME NEW c \in Clients, TFindSem(c) PROVE Unbound'
  <2>1. /\ sem_match[c] = None /\ rpc' = rpc /\ sem' = sem /\ imgQueue' = imgQueue
        /\ sem_match' = [sem_match EXCEPT ![c] = sem_map[UserOf[c]]]
        /\ sem_map[UserOf[c]] # None
    BY <1>4 DEF TFindSem, Bound, Outside, result, heap
  <2> QED BY <1>1, <2>1, ClientsAssumption DEF Unbound
<1>5. ASSUME NEW c \in Clients, TPost(c) PROVE Unbound'
  BY <1>1, <1>5 DEF Unbound, TPost, Outside, proc, socks, maps, transmit,
       result, heap, children
<1>6. ASSUME NEW c \in Clients, THangup(c) PROVE Unbound'
  BY <1>1, <1>6 DEF Unbound, THangup, Outside, proc, socks, maps, transmit,
       result, heap, children
<1>7. ASSUME NEW c \in Clients, LoginResult(c) PROVE Unbound'
  BY <1>1, <1>7 DEF Unbound, LoginResult, Outside, proc, socks, maps, transmit,
       result, heap, children
<1>8. ASSUME NEW c \in Clients, ROpen(c) PROVE Unbound'
  BY <1>1, <1>8 DEF Unbound, ROpen, Outside, proc, socks, maps, transmit,
       result, heap, children
<1>9. ASSUME NEW c \in Clients, RWait(c) PROVE Unbound'
  BY <1>1, <1>9 DEF Unbound, RWait, Outside, proc, socks, maps, transmit,
       result, heap, children
<1>10. ASSUME NEW c \in Clients, RLookup(c) PROVE Unbound'
  BY <1>1, <1>10 DEF Unbound, RLookup, Outside, proc, socks, maps, transmit,
       result, heap, children
<1>11. ASSUME NEW c \in Clients, RGate(c) PROVE Unbound'
  BY <1>1, <1>11 DEF Unbound, RGate, Outside, proc, socks, maps, transmit,
       result, heap, children
<1>12. ASSUME NEW c \in Clients, RSpawn(c) PROVE Unbound'
  BY <1>1, <1>12 DEF Unbound, RSpawn, Outside, proc, socks, maps, transmit,
       result, heap, children
<1>13. ASSUME NEW c \in Clients, REraseSem(c) PROVE Unbound'
  BY <1>1, <1>13 DEF Unbound, REraseSem, Outside, proc, socks, maps, transmit,
       result, heap, children
<1>14. ASSUME NEW c \in Clients, REraseQueue(c) PROVE Unbound'
  BY <1>1, <1>14 DEF Unbound, REraseQueue, Outside, proc, socks, maps,
       transmit, result, heap, children
<1>15. ASSUME NEW c \in Clients, REraseUser(c) PROVE Unbound'
  BY <1>1, <1>15 DEF Unbound, REraseUser, Outside, proc, socks, maps, transmit,
       result, heap, children
<1>16. ASSUME NEW c \in Clients, RFree(c) PROVE Unbound'
  BY <1>1, <1>16 DEF Unbound, RFree, Outside, proc, socks, maps, transmit,
       result, heap, children
<1> QED
  BY Footprint, <1>2, <1>3, <1>4, <1>5, <1>6, <1>7, <1>8, <1>9, <1>10, <1>11,
       <1>12, <1>13, <1>14, <1>15, <1>16

(* The queue looked up by user ID is the one of the thread that posted. *)
LEMMA QueueKeptStep ==
  ASSUME TypeOK, LoginCount, Bound, Unbound, QueueMapOwn, QueueKept, Next
  PROVE  QueueKept'
<1>1. /\ imgQueue \in [Clients -> Clients \cup {None}]
      /\ rpc \in [Clients -> RStates]
      /\ sem_match \in [Clients -> Clients \cup {None}]
  BY DEF TypeOK
<1>2. CASE UNCHANGED <<imgQueue, rpc, sem_match>>
  BY <1>2 DEF QueueKept
<1>3. ASSUME NEW c \in Clients, ConnectResult(c) PROVE QueueKept'
  BY <1>1, <1>3 DEF QueueKept, ConnectResult, Ending, proc, socks, maps,
       transmit, result, heap, children
<1>4. ASSUME NEW c \in Clients, TFindSem(c) PROVE QueueKept'
  <2>1. /\ sem_match[c] = None /\ rpc' = rpc /\ sem' = sem /\ imgQueue' = imgQueue
        /\ sem_match' = [sem_match EXCEPT ![c] = sem_map[UserOf[c]]]
        /\ sem_map[UserOf[c]] # None
    BY <1>4 DEF TFindSem, Bound, Outside, result, heap
  <2> QED BY <1>1, <2>1, ClientsAssumption DEF QueueKept
<1>5. ASSUME NEW c \in Clients, LoginResult(c) PROVE QueueKept'
  BY <1>1, <1>5 DEF QueueKept, LoginResult, Ending, proc, socks, maps,
       transmit, result, heap, children
<1>6. ASSUME NEW c \in Clients, ROpen(c) PROVE QueueKept'
  BY <1>1, <1>6 DEF QueueKept, ROpen, Ending, proc, socks, maps, transmit,
       result, heap, children
<1>7. ASSUME NEW c \in Clients, RWait(c) PROVE QueueKept'
  BY <1>1, <1>7 DEF QueueKept, RWait, Ending, proc, socks, maps, transmit,
       result, heap, children
<1>8. ASSUME NEW c \in Clients, RLookup(c) PROVE QueueKept'
  <2>1. /\ rpc[c] = "lookup" /\ QueueOf(c) # None /\ sem_match' = sem_match
        /\ imgQueue' = [imgQueue EXCEPT ![c] = QueueOf(c)]
        /\ \A d \in Clients : d # c => rpc'[d] = rpc[d]
    BY <1>1, <1>8 DEF RLookup, transmit
  <2>2. sem_match[QueueOf(c)] = c
    <3>1. CASE imgQueue[c] # None
      BY <3>1 DEF QueueOf, QueueKept
    <3>2. CASE imgQueue[c] = None
      <4>1. PICK q \in Clients : sem_match[q] = c
        BY <2>1 DEF Unbound, Outside
      <4>2. UserOf[c] \in Users /\ UserOf[q] = UserOf[c] /\ tpc[q] \notin Outside \cup {"open"}
        BY <4>1, ClientsAssumption, UserOfAssumption DEF Bound
      <4>3. q \in TMembers(UserOf[c]) /\ c \in RMembers(UserOf[c])
        BY <2>1, <4>1, <4>2 DEF TMembers, RMembers, Over, Outside
      <4>4. queue_map[UserOf[c]] = q
        <5>1. queue_map[UserOf[q]] = q \/ \E p \in TMembers(UserOf[q]) : p # q
          BY <2>1, <4>1, <4>2 DEF QueueMapOwn, Over
        <5> QED BY <4>2, <4>3, <5>1, Crowd
      <4> QED BY <3>2, <4>1, <4>4 DEF QueueOf
    <3> QED BY <3>1, <3>2
  <2> QED BY <1>1, <2>1, <2>2 DEF QueueKept
<1>9. ASSUME NEW c \in Clients, RGate(c) PROVE QueueKept'
  BY <1>1, <1>9 DEF QueueKept, RGate, Ending, proc, socks, maps, transmit,
       result, heap, children
<1>10. ASSUME NEW c \in Clients, RSpawn(c) PROVE QueueKept'
  BY <1>1, <1>10 DEF QueueKept, RSpawn, Ending, proc, socks, maps, transmit,
       result, heap, children
<1>11. ASSUME NEW c \in Clients, REraseSem(c) PROVE QueueKept'
  BY <1>1, <1>11 DEF QueueKept, REraseSem, Ending, proc, socks, maps, transmit,
       result, heap, children
<1>12. ASSUME NEW c \in Clients, REraseQueue(c) PROVE QueueKept'
  BY <1>1, <1>12 DEF QueueKept, REraseQueue, Ending, proc, socks, maps,
       transmit, result, heap, children
<1>13. ASSUME NEW c \in Clients, REraseUser(c) PROVE QueueKept'
  BY <1>1, <1>13 DEF QueueKept, REraseUser, Ending, proc, socks, maps,
       transmit, result, heap, children
<1>14. ASSUME NEW c \in Clients, RFree(c) PROVE QueueKept'
  BY <1>1, <1>14 DEF QueueKept, RFree, Ending, proc, socks, maps, transmit,
       result, heap, children
<1> QED
  BY Footprint, <1>2, <1>3, <1>4, <1>5, <1>6, <1>7, <1>8, <1>9, <1>10, <1>11,
       <1>12, <1>13, <1>14

(* A second result thread of a running session could only be a third member:   *)
(* sem_map is neither overwritten nor erased under the session's feet.         *)
LEMMA SemMapOwnStep ==
  ASSUME TypeOK, LoginCount, Bound, SemMapOwn, Next
  PROVE  SemMapOwn'
<1>1. /\ sem_map \in [Users -> Clients \cup {None}]
      /\ rpc \in [Clients -> RStates]
      /\ sem_match \in [Clients -> Clients \cup {None}]
      /\ server \in {"up", "crashed", "exit", "killed"}
  BY DEF TypeOK
<1>0. server = "up"
  BY NextSteps
<1>2. CASE UNCHANGED <<sem_map, rpc, sem_match, server>>
  BY <1>0, <1>2 DEF SemMapOwn, RMembers, Outside, Over
<1>3. ASSUME NEW c \in Clients, ConnectResult(c) PROVE SemMapOwn'
  BY <1>0, <1>1, <1>3 DEF SemMapOwn, RMembers, Outside, Over, ConnectResult, Outside,
       Over, RMembers, proc, socks, maps, transmit, result, heap, children,
       Bound
<1>4. ASSUME NEW c \in Clients, TData(c) PROVE SemMapOwn'
  BY <1>0, <1>1, <1>4 DEF SemMapOwn, RMembers, Outside, Over, TData, Outside, Over,
       RMembers, proc, socks, maps, transmit, result, heap, children, Bound
<1>5. ASSUME NEW c \in Clients, TFindSem(c) PROVE SemMapOwn'
  BY <1>0, <1>1, <1>5 DEF SemMapOwn, RMembers, Outside, Over, TFindSem, Outside,
       Over, RMembers, proc, socks, maps, transmit, result, heap, children,
       Bound
<1>6. ASSUME NEW c \in Clients, THangup(c) PROVE SemMapOwn'
  BY <1>0, <1>1, <1>6 DEF SemMapOwn, RMembers, Outside, Over, THangup, Outside, Over,
       RMembers, proc, socks, maps, transmit, result, heap, children, Bound
<1>7. ASSUME NEW c \in Clients, LoginResult(c) PROVE SemMapOwn'
  BY <1>0, <1>1, <1>7 DEF SemMapOwn, RMembers, Outside, Over, LoginResult, Outside,
       Over, RMembers, proc, socks, maps, transmit, result, heap, children,
       Bound
<1>8. ASSUME NEW c \in Clients, ROpen(c) PROVE SemMapOwn'
  <2> DEFINE u == UserOf[c]
  <2>1. /\ u \in Users /\ c \in RMembers(u) /\ rpc[c] = "open"
        /\ sem_map' = [sem_map EXCEPT ![u] = c] /\ sem_match' = sem_match
        /\ (rpc' = [rpc EXCEPT ![c] = "wait"]) \/ (rpc' = rpc /\ server' = "exit")
    BY <1>8, UserOfAssumption DEF ROpen, RMembers, Outside, Over, transmit
  <2>2. ASSUME NEW q \in Clients, sem_match[q] # None, ~Over(sem_match[q])
        PROVE  UserOf[q] # u /\ sem_match[q] # c
    <3>1. /\ sem_match[q] # c /\ UserOf[sem_match[q]] = UserOf[q]
          /\ rpc[sem_match[q]] \notin Outside /\ tpc[q] \notin Outside
          /\ sem_match[q] \in Clients
      BY <1>1, <2>1, <2>2 DEF Bound
    <3>2. CASE UserOf[q] = u
      <4>1. q \in TMembers(u) /\ sem_match[q] \in RMembers(u)
        BY <2>2, <3>1, <3>2 DEF TMembers, RMembers
      <4> QED BY <2>1, <3>1, <4>1, Crowd
    <3> QED BY <3>1, <3>2
  <2>3. ASSUME NEW w \in Users, sem_map'[w] # None
        PROVE  /\ sem_map'[w] \in RMembers(w)'
               /\ rpc'[sem_map'[w]] \notin {"erase_queue", "erase_user"}
               /\ rpc'[sem_map'[w]] = "open" => server' # "up"
    <3>1. CASE w = u
      BY <1>1, <2>1, <3>1 DEF RMembers, Outside, Over
    <3>2. CASE w # u
      <4>1. /\ sem_map'[w] = sem_map[w] /\ sem_map[w] # c
            /\ sem_map[w] \in Clients /\ rpc[sem_map[w]] # "open"
        BY <1>1, <2>1, <2>3, <3>2, NextSteps DEF SemMapOwn, RMembers
      <4>2. rpc'[sem_map[w]] = rpc[sem_map[w]]
        BY <1>1, <2>1, <4>1
      <4> QED BY <2>3, <4>1, <4>2 DEF SemMapOwn, RMembers, Over, Outside
    <3> QED BY <3>1, <3>2
  <2>4. ASSUME NEW q \in Clients, sem_match'[q] # None, rpc'[sem_match'[q]] \notin {"free", "done"},
               rpc'[sem_match'[q]] \notin {"erase_queue", "erase_user"}
        PROVE  sem_map'[UserOf[q]] = sem_match'[q]
    <3>1. sem_match'[q] = sem_match[q] /\ sem_match[q] \in Clients
      BY <1>1, <2>1, <2>4
    <3>2. ~Over(sem_match[q])
      BY <1>1, <2>1, <2>4, <3>1 DEF Over
    <3>3. UserOf[q] # u /\ sem_match[q] # c
      BY <2>2, <2>4, <3>1, <3>2
    <3>4. rpc'[sem_match[q]] = rpc[sem_match[q]]
      BY <1>1, <2>1, <3>1, <3>3
    <3>5. sem_map[UserOf[q]] = sem_match[q]
      BY <2>4, <3>1, <3>2, <3>4 DEF SemMapOwn
    <3>6. UserOf[q] \in Users
      BY UserOfAssumption
    <3> QED BY <1>1, <2>1, <3>1, <3>3, <3>5, <3>6
  <2> QED BY <2>3, <2>4 DEF SemMapOwn, Over
<1>9. ASSUME NEW c \in Clients, RWait(c) PROVE SemMapOwn'
  BY <1>0, <1>1, <1>9 DEF SemMapOwn, RMembers, Outside, Over, RWait, Outside, Over,
       RMembers, proc, socks, maps, transmit, result, heap, children, Bound
<1>10. ASSUME NEW c \in Clients, RLookup(c) PROVE SemMapOwn'
  BY <1>0, <1>1, <1>10 DEF SemMapOwn, RMembers, Outside, Over, RLookup, Outside,
       Over, RMembers, proc, socks, maps, transmit, result, heap, children,
       Bound
<1>11. ASSUME NEW c \in Clients, RGate(c) PROVE SemMapOwn'
  BY <1>0, <1>1, <1>11 DEF SemMapOwn, RMembers, Outside, Over, RGate, Outside, Over,
       RMembers, proc, socks, maps, transmit, result, heap, children, Bound
<1>12. ASSUME NEW c \in Clients, RSpawn(c) PROVE SemMapOwn'
  BY <1>0, <1>1, <1>12 DEF SemMapOwn, RMembers, Outside, Over, RSpawn, Outside, Over,
       RMembers, proc, socks, maps, transmit, result, heap, children, Bound
<1>13. ASSUME NEW c \in Clients, REraseSem(c) PROVE SemMapOwn'
  <2> DEFINE u == UserOf[c]
  <2>1. /\ u \in Users /\ c \in RMembers(u) /\ rpc[c] = "erase_sem"
        /\ sem_map' = [sem_map EXCEPT ![u] = None] /\ sem_match' = sem_match
        /\ rpc' = [rpc EXCEPT ![c] = "erase_queue"] /\ server' = server
    BY <1>13, UserOfAssumption DEF REraseSem, RMembers, Outside, Over, transmit, proc
  <2>2. ASSUME NEW q \in Clients, sem_match[q] # None, ~Over(sem_match[q]),
               sem_match[q] # c
        PROVE  UserOf[q] # u
    <3>1. /\ UserOf[sem_match[q]] = UserOf[q] /\ sem_match[q] \in Clients
          /\ rpc[sem_match[q]] \notin Outside /\ tpc[q] \notin Outside
      BY <1>1, <2>1, <2>2 DEF Bound
    <3>2. CASE UserOf[q] = u
      <4>1. q \in TMembers(u) /\ sem_match[q] \in RMembers(u)
        BY <2>2, <3>1, <3>2 DEF TMembers, RMembers
      <4> QED BY <2>1, <2>2, <4>1, Crowd
    <3> QED BY <3>1, <3>2
  <2>3. ASSUME NEW w \in Users, sem_map'[w] # None
        PROVE  /\ sem_map'[w] \in RMembers(w)'
               /\ rpc'[sem_map'[w]] \notin {"erase_queue", "erase_user"}
               /\ rpc'[sem_map'[w]] = "open" => server' # "up"
    <3>1. w # u /\ sem_map'[w] = sem_map[w]
      BY <1>1, <2>1, <2>3
    <3>2. sem_map[w] # c /\ sem_map[w] \in Clients
      BY <2>3, <3>1 DEF SemMapOwn, RMembers
    <3>3. rpc'[sem_map[w]] = rpc[sem_map[w]]
      BY <1>1, <2>1, <3>2
    <3> QED BY <2>1, <2>3, <3>1, <3>3 DEF SemMapOwn, RMembers, Over, Outside
  <2>4. ASSUME NEW q \in Clients, sem_match'[q] # None, rpc'[sem_match'[q]] \notin {"free", "done"},
               rpc'[sem_match'[q]] \notin {"erase_queue", "erase_user"}
        PROVE  sem_map'[UserOf[q]] = sem_match'[q]
    <3>1. sem_match'[q] = sem_match[q] /\ sem_match[q] \in Clients /\ sem_match[q] # c
      BY <1>1, <2>1, <2>4
    <3>2. rpc'[sem_match[q]] = rpc[sem_match[q]]
      BY <1>1, <2>1, <3>1
    <3>3. ~Over(sem_match[q])
      BY <2>4, <3>1, <3>2 DEF Over
    <3>4. UserOf[q] # u /\ UserOf[q] \in Users
      BY <2>2, <2>4, <3>1, <3>3, UserOfAssumption
    <3>5. sem_map[UserOf[q]] = sem_match[q]
      BY <2>4, <3>1, <3>2, <3>3 DEF SemMapOwn
    <3> QED BY <1>1, <2>1, <3>1, <3>4, <3>5
  <2> QED BY <2>3, <2>4 DEF SemMapOwn, Over
<1>14. ASSUME NEW c \in Clients, REraseQueue(c) PROVE SemMapOwn'
  BY <1>0, <1>1, <1>14 DEF SemMapOwn, RMembers, Outside, Over, REraseQueue, Outside,
       Over, RMembers, proc, socks, maps, transmit, result, heap, children,
       Bound
<1>15. ASSUME NEW c \in Clients, REraseUser(c) PROVE SemMapOwn'
  BY <1>0, <1>1, <1>15 DEF SemMapOwn, RMembers, Outside, Over, REraseUser, Outside,
       Over, RMembers, proc, socks, maps, transmit, result, heap, children,
       Bound
<1>16. ASSUME NEW c \in Clients, RFree(c) PROVE SemMapOwn'
  BY <1>0, <1>1, <1>16 DEF SemMapOwn, RMembers, Outside, Over, RFree, Outside, Over,
       RMembers, proc, socks, maps, transmit, result, heap, children, Bound
<1>17. ASSUME NEW c \in Clients, HeaderMissing(c) PROVE SemMapOwn'
  BY <1>0, <1>1, <1>17 DEF SemMapOwn, RMembers, Outside, Over, HeaderMissing,
       Outside, Over, RMembers, proc, socks, maps, transmit, result, heap,
       children, Bound
<1>18. ASSUME NEW f \in Frames, ChildReply(f) PROVE SemMapOwn'
  BY <1>0, <1>1, <1>18 DEF SemMapOwn, RMembers, Outside, Over, ChildReply, Outside,
       Over, RMembers, proc, socks, maps, transmit, result, heap, children,
       Bound
<1>19. ASSUME BadAccess PROVE SemMapOwn'
  BY <1>0, <1>1, <1>19 DEF SemMapOwn, RMembers, Outside, Over, BadAccess, Outside,
       Over, RMembers, proc, socks, maps, transmit, result, heap, children,
       Bound
<1> QED
  BY Footprint, <1>2, <1>3, <1>4, <1>5, <1>6, <1>7, <1>8, <1>9, <1>10, <1>11,
       <1>12, <1>13, <1>14, <1>15, <1>16, <1>17, <1>18, <1>19

(* A transmit thread's entry in queue_map is overwritten by another transmit    *)
(* thread of the user, or erased with the session, and not otherwise.           *)
LEMMA QueueMapOwnStep ==
  ASSUME TypeOK, LoginCount, Bound, SemMapOwn, QueueKept, QueueMapOwn, Next
  PROVE  QueueMapOwn'
<1>1. /\ queue_map \in [Users -> Clients \cup {None}]
      /\ tpc \in [Clients -> TStates]
      /\ rpc \in [Clients -> RStates]
      /\ sem_match \in [Clients -> Clients \cup {None}]
  BY DEF TypeOK
<1>2. CASE UNCHANGED <<queue_map, tpc, rpc, sem_match>>
  BY <1>2 DEF QueueMapOwn, TMembers, Outside, Over
<1>3. ASSUME NEW c \in Clients, ConnectTransmit(c) PROVE QueueMapOwn'
  BY <1>1, <1>3 DEF QueueMapOwn, TMembers, Outside, Over, ConnectTransmit,
       Outside, Over, TMembers, proc, socks, maps, transmit, result, heap,
       children, Bound
<1>4. ASSUME NEW c \in Clients, ConnectResult(c) PROVE QueueMapOwn'
  BY <1>1, <1>4 DEF QueueMapOwn, TMembers, Outside, Over, ConnectResult,
       Outside, Over, TMembers, proc, socks, maps, transmit, result, heap,
       children, Bound
<1>5. ASSUME NEW c \in Clients, LoginTransmit(c) PROVE QueueMapOwn'
  BY <1>1, <1>5 DEF QueueMapOwn, TMembers, Outside, Over, LoginTransmit,
       Outside, Over, TMembers, proc, socks, maps, transmit, result, heap,
       children, Bound
<1>6. ASSUME NEW c \in Clients, TOpen(c) PROVE QueueMapOwn'
  <2> DEFINE u == UserOf[c]
  <2>1. /\ u \in Users /\ c \in TMembers(u) /\ tpc[c] = "open"
        /\ queue_map' = [queue_map EXCEPT ![u] = c]
        /\ \A d \in Clients : d # c => tpc'[d] = tpc[d]
        /\ tpc'[c] \in {"read", "left"} /\ rpc' = rpc /\ sem_match' = sem_match
    BY <1>1, <1>6, UserOfAssumption DEF TOpen, TMembers, Outside, Bound, transmit, result
  <2>2. queue_map'[u] = c /\ c \in TMembers(u)'
    BY <1>1, <2>1 DEF TMembers, Outside, Over
  <2>3. \A w \in Users : w # u => queue_map'[w] = queue_map[w]
    BY <1>1, <2>1
  <2>4. \A w \in Users : w # u => TMembers(w)' = TMembers(w)
    BY <1>1, <2>1 DEF TMembers, Outside, Over
  <2>5. ASSUME NEW q \in Clients, UserOf[q] # u, tpc'[q] \notin Outside \cup {"open"},
               \/ sem_match'[q] = None
               \/ rpc'[sem_match'[q]] \notin {"free", "done", "erase_user"}
        PROVE  \/ queue_map'[UserOf[q]] = q
               \/ \E p \in TMembers(UserOf[q])' : p # q
    <3>1. UserOf[q] \in Users
      BY UserOfAssumption
    <3>2. tpc[q] \notin Outside \cup {"open"}
      BY <2>1, <2>5
    <3>3. \/ queue_map[UserOf[q]] = q
          \/ \E p \in TMembers(UserOf[q]) : p # q
      BY <2>1, <2>5, <3>2 DEF QueueMapOwn, Over
    <3> QED BY <2>3, <2>4, <2>5, <3>1, <3>3
  <2> QED BY <2>2, <2>5 DEF QueueMapOwn, Over
<1>7. ASSUME NEW c \in Clients, TReadHeader(c) PROVE QueueMapOwn'
  BY <1>1, <1>7 DEF QueueMapOwn, TMembers, Outside, Over, TReadHeader, Outside,
       Over, TMembers, proc, socks, maps, transmit, result, heap, children,
       Bound
<1>8. ASSUME NEW c \in Clients, TReadEnd(c) PROVE QueueMapOwn'
  BY <1>1, <1>8 DEF QueueMapOwn, TMembers, Outside, Over, TReadEnd, Outside,
       Over, TMembers, proc, socks, maps, transmit, result, heap, children,
       Bound
<1>9. ASSUME NEW c \in Clients, TData(c) PROVE QueueMapOwn'
  BY <1>1, <1>9 DEF QueueMapOwn, TMembers, Outside, Over, TData, Outside, Over,
       TMembers, proc, socks, maps, transmit, result, heap, children, Bound
<1>10. ASSUME NEW c \in Clients, TPush(c) PROVE QueueMapOwn'
  BY <1>1, <1>10 DEF QueueMapOwn, TMembers, Outside, Over, TPush, Outside,
       Over, TMembers, proc, socks, maps, transmit, result, heap, children,
       Bound
<1>11. ASSUME NEW c \in Clients, TFindSem(c) PROVE QueueMapOwn'
  <2> DEFINE r == sem_map[UserOf[c]]
  <2>1. /\ tpc[c] = "find" /\ r # None /\ rpc' = rpc /\ queue_map' = queue_map
        /\ sem_match' = [sem_match EXCEPT ![c] = r]
        /\ tpc' = [tpc EXCEPT ![c] = "post"] /\ UserOf[c] \in Users
    BY <1>11, UserOfAssumption DEF TFindSem, maps, result
  <2>2. r \in Clients /\ ~Over(r) /\ sem_match[c] = None
    BY <2>1 DEF SemMapOwn, RMembers, Bound
  <2>3. \A w \in Users : TMembers(w)' = TMembers(w)
    BY <1>1, <2>1, <2>2 DEF TMembers, Outside, Over
  <2>4. ASSUME NEW q \in Clients, tpc'[q] \notin Outside \cup {"open"},
               \/ sem_match'[q] = None
               \/ rpc'[sem_match'[q]] \notin {"free", "done", "erase_user"}
        PROVE  \/ queue_map[UserOf[q]] = q
               \/ \E p \in TMembers(UserOf[q]) : p # q
    BY <1>1, <2>1, <2>2, <2>4 DEF QueueMapOwn, Over, Outside
  <2> QED BY <2>1, <2>3, <2>4, UserOfAssumption DEF QueueMapOwn, Over
<1>12. ASSUME NEW c \in Clients, TPost(c) PROVE QueueMapOwn'
  BY <1>1, <1>12 DEF QueueMapOwn, TMembers, Outside, Over, TPost, Outside,
       Over, TMembers, proc, socks, maps, transmit, result, heap, children,
       Bound
<1>13. ASSUME NEW c \in Clients, THangup(c) PROVE QueueMapOwn'
  BY <1>1, <1>13 DEF QueueMapOwn, TMembers, Outside, Over, THangup, Outside,
       Over, TMembers, proc, socks, maps, transmit, result, heap, children,
       Bound
<1>14. ASSUME NEW c \in Clients, LoginResult(c) PROVE QueueMapOwn'
  BY <1>1, <1>14 DEF QueueMapOwn, TMembers, Outside, Over, LoginResult,
       Outside, Over, TMembers, proc, socks, maps, transmit, result, heap,
       children, Bound
<1>15. ASSUME NEW c \in Clients, ROpen(c) PROVE QueueMapOwn'
  BY <1>1, <1>15 DEF QueueMapOwn, TMembers, Outside, Over, ROpen, Outside,
       Over, TMembers, proc, socks, maps, transmit, result, heap, children,
       Bound
<1>16. ASSUME NEW c \in Clients, RWait(c) PROVE QueueMapOwn'
  BY <1>1, <1>16 DEF QueueMapOwn, TMembers, Outside, Over, RWait, Outside,
       Over, TMembers, proc, socks, maps, transmit, result, heap, children,
       Bound
<1>17. ASSUME NEW c \in Clients, RLookup(c) PROVE QueueMapOwn'
  BY <1>1, <1>17 DEF QueueMapOwn, TMembers, Outside, Over, RLookup, Outside,
       Over, TMembers, proc, socks, maps, transmit, result, heap, children,
       Bound
<1>18. ASSUME NEW c \in Clients, RGate(c) PROVE QueueMapOwn'
  BY <1>1, <1>18 DEF QueueMapOwn, TMembers, Outside, Over, RGate, Outside,
       Over, TMembers, proc, socks, maps, transmit, result, heap, children,
       Bound
<1>19. ASSUME NEW c \in Clients, RSpawn(c) PROVE QueueMapOwn'
  BY <1>1, <1>19 DEF QueueMapOwn, TMembers, Outside, Over, RSpawn, Outside,
       Over, TMembers, proc, socks, maps, transmit, result, heap, children,
       Bound
<1>20. ASSUME NEW c \in Clients, REraseSem(c) PROVE QueueMapOwn'
  BY <1>1, <1>20 DEF QueueMapOwn, TMembers, Outside, Over, REraseSem, Outside,
       Over, TMembers, proc, socks, maps, transmit, result, heap, children,
       Bound
<1>21. ASSUME NEW c \in Clients, REraseQueue(c) PROVE QueueMapOwn'
  <2> DEFINE u == UserOf[c]
             o == imgQueue[c]
  <2>1. /\ u \in Users /\ rpc[c] = "erase_queue"
        /\ queue_map' = [queue_map EXCEPT ![u] = None]
        /\ rpc' = [rpc EXCEPT ![c] = "erase_user"]
        /\ tpc' = tpc /\ sem_match' = sem_match
    BY <1>21, UserOfAssumption DEF REraseQueue, transmit
  <2>2. o \in Clients /\ sem_match[o] = c /\ UserOf[o] = u /\ o \in TMembers(u)'
    <3>1. o # None /\ o \in Clients /\ sem_match[o] = c
      BY <1>1, <2>1 DEF QueueKept, Ending, TypeOK
    <3>2. UserOf[o] = u /\ tpc[o] \notin Outside
      BY <3>1, ClientsAssumption DEF Bound
    <3> QED BY <1>1, <2>1, <3>1, <3>2 DEF TMembers, Over
  <2>3. \A w \in Users : TMembers(w)' = TMembers(w)
    BY <1>1, <2>1 DEF TMembers, Over
  <2>4. ASSUME NEW q \in Clients, tpc'[q] \notin Outside \cup {"open"},
               \/ sem_match'[q] = None
               \/ rpc'[sem_match'[q]] \notin {"free", "done", "erase_user"}
        PROVE  \/ queue_map'[UserOf[q]] = q
               \/ \E p \in TMembers(UserOf[q])' : p # q
    <3>1. sem_match[q] # c
      BY <1>1, <2>1, <2>4, ClientsAssumption
    <3>2. CASE UserOf[q] = u
      BY <2>2, <3>1, <3>2
    <3>3. CASE UserOf[q] # u
      <4>1. UserOf[q] \in Users /\ queue_map'[UserOf[q]] = queue_map[UserOf[q]]
        BY <1>1, <2>1, <3>3, UserOfAssumption
      <4>2. \/ queue_map[UserOf[q]] = q
            \/ \E p \in TMembers(UserOf[q]) : p # q
        BY <1>1, <2>1, <2>4, <3>1 DEF QueueMapOwn, Over
      <4> QED BY <2>3, <4>1, <4>2
    <3> QED BY <3>2, <3>3
  <2> QED BY <2>4 DEF QueueMapOwn, Over
<1>22. ASSUME NEW c \in Clients, REraseUser(c) PROVE QueueMapOwn'
  <2> DEFINE u == UserOf[c]
             o == imgQueue[c]
  <2>1. /\ u \in Users /\ rpc[c] = "erase_user" /\ queue_map' = queue_map
        /\ rpc' = [rpc EXCEPT ![c] = "free"]
        /\ tpc' = tpc /\ sem_match' = sem_match
    BY <1>22, UserOfAssumption DEF REraseUser, transmit
  <2>2. o \in TMembers(u) /\ c \in RMembers(u) /\ sem_match[o] = c
    <3>1. o # None /\ o \in Clients /\ sem_match[o] = c
      BY <1>1, <2>1 DEF QueueKept, Ending, TypeOK
    <3>2. UserOf[o] = u /\ tpc[o] \notin Outside
      BY <3>1, ClientsAssumption DEF Bound
    <3> QED BY <1>1, <2>1, <3>1, <3>2 DEF TMembers, RMembers, Over, Outside
  <2>3. ASSUME NEW q \in Clients, tpc'[q] \notin Outside \cup {"open"},
               \/ sem_match'[q] = None
               \/ rpc'[sem_match'[q]] \notin {"free", "done", "erase_user"}
        PROVE  \/ queue_map'[UserOf[q]] = q
               \/ \E p \in TMembers(UserOf[q])' : p # q
    <3>1. /\ sem_match[q] # c /\ tpc[q] \notin Outside \cup {"open"}
          /\ \/ sem_match[q] = None
             \/ ~Over(sem_match[q]) /\ rpc[sem_match[q]] # "erase_user"
      BY <1>1, <2>1, <2>3, ClientsAssumption DEF Over
    <3>2. UserOf[q] # u
      <4>1. CASE UserOf[q] = u
        <5>1. q \in TMembers(u)
          BY <3>1, <4>1 DEF TMembers
        <5> QED BY <2>1, <2>2, <3>1, <5>1, Crowd
      <4> QED BY <4>1
    <3>3. TMembers(UserOf[q])' = TMembers(UserOf[q])
      <4>1. \A p \in Clients : UserOf[p] = UserOf[q] => sem_match[p] # c
        BY <3>2, ClientsAssumption DEF Bound
      <4> QED BY <1>1, <2>1, <4>1 DEF TMembers, Over
    <3>4. queue_map[UserOf[q]] = q \/ \E p \in TMembers(UserOf[q]) : p # q
      BY <3>1 DEF QueueMapOwn
    <3> QED BY <2>1, <3>3, <3>4
  <2> QED BY <2>3 DEF QueueMapOwn, Over
<1>23. ASSUME NEW c \in Clients, RFree(c) PROVE QueueMapOwn'
  BY <1>1, <1>23 DEF QueueMapOwn, TMembers, Outside, Over, RFree, Outside,
       Over, TMembers, proc, socks, maps, transmit, result, heap, children,
       Bound
<1> QED
  BY Footprint, <1>2, <1>3, <1>4, <1>5, <1>6, <1>7, <1>8, <1>9, <1>10, <1>11,
       <1>12, <1>13, <1>14, <1>15, <1>16, <1>17, <1>18, <1>19, <1>20, <1>21,
       <1>22, <1>23

(* Posts and wake-ups balance: one post for each frame, one for the hangup.     *)
LEMMA TokensStep ==
  ASSUME TypeOK, Bound, Unbound, QueueKept, WakeUps, Tokens, Bound', Next
  PROVE  Tokens'
<1>1. /\ sem \in [Clients -> Nat]
      /\ rpc \in [Clients -> RStates]
      /\ queue \in [Clients -> Seq(Frames)]
      /\ tpc \in [Clients -> TStates]
      /\ sem_match \in [Clients -> Clients \cup {None}]
  BY DEF TypeOK
<1>2. CASE UNCHANGED <<sem, rpc, queue, tpc, sem_match>>
  BY <1>2 DEF Tokens, Balanced, Holding, Unposted, Hangup
<1>3. ASSUME NEW c \in Clients, ConnectTransmit(c) PROVE Tokens'
  BY <1>1, <1>3 DEF Tokens, Balanced, Holding, Unposted, Hangup,
       ConnectTransmit, Awake, Ending, proc, socks, maps, transmit, result,
       heap, children
<1>4. ASSUME NEW c \in Clients, ConnectResult(c) PROVE Tokens'
  <2>1. UNCHANGED <<tpc, sem_match, queue, sem>>
    BY <1>4 DEF ConnectResult, proc, socks, maps, transmit, result, heap, children
  <2>2. \A r \in Clients : rpc'[r] \in Awake <=> rpc[r] \in Awake
    BY <1>1, <1>4 DEF Awake, Ending, ConnectResult
  <2> QED BY <1>1, <2>1, <2>2 DEF Tokens, Balanced, Holding, Unposted, Hangup
<1>5. ASSUME NEW c \in Clients, LoginTransmit(c) PROVE Tokens'
  BY <1>1, <1>5, ZenonT(60) DEF Tokens, Balanced, Holding, Unposted, Hangup, LoginTransmit,
       Awake, Ending, proc, socks, maps, transmit, result, heap, children
<1>6. ASSUME NEW c \in Clients, TOpen(c) PROVE Tokens'
  BY <1>1, <1>6, ZenonT(60) DEF Tokens, Balanced, Holding, Unposted, Hangup, TOpen, Awake,
       Ending, proc, socks, maps, transmit, result, heap, children
<1>7. ASSUME NEW c \in Clients, TReadHeader(c) PROVE Tokens'
  BY <1>1, <1>7, ZenonT(60) DEF Tokens, Balanced, Holding, Unposted, Hangup, TReadHeader,
       Awake, Ending, proc, socks, maps, transmit, result, heap, children
<1>8. ASSUME NEW c \in Clients, TReadEnd(c) PROVE Tokens'
  BY <1>1, <1>8, ZenonT(60) DEF Tokens, Balanced, Holding, Unposted, Hangup, TReadEnd,
       Awake, Ending, proc, socks, maps, transmit, result, heap, children
<1>9. ASSUME NEW c \in Clients, TData(c) PROVE Tokens'
  BY <1>1, <1>9, ZenonT(60) DEF Tokens, Balanced, Holding, Unposted, Hangup, TData, Awake,
       Ending, proc, socks, maps, transmit, result, heap, children
<1>10. ASSUME NEW c \in Clients, TPush(c) PROVE Tokens'
  <2>1. /\ tpc[c] = "push" /\ sem_match' = sem_match /\ sem' = sem /\ rpc' = rpc
        /\ queue' = [queue EXCEPT ![c] = Append(@, <<c, received[c] + 1>>)]
        /\ tpc' = [tpc EXCEPT ![c] = IF sem_match[c] = None THEN "find" ELSE "post"]
    BY <1>10 DEF TPush, result
  <2>2. Len(queue'[c]) = Len(queue[c]) + 1
    BY <1>1, <2>1
  <2>3. \A q \in Clients : q # c => queue'[q] = queue[q] /\ tpc'[q] = tpc[q]
    BY <1>1, <2>1
  <2>4. tpc'[c] = IF sem_match[c] = None THEN "find" ELSE "post"
    BY <1>1, <2>1
  <2>5. ASSUME NEW q \in Clients, q # c PROVE Balanced(q)'
    <3>1. Balanced(q)
      BY DEF Tokens
    <3>2. UNCHANGED <<rpc, sem, sem_match>>
      BY <2>1
    <3> QED BY <2>3, <2>5, <3>1, <3>2 DEF Balanced, Holding, Unposted, Hangup
  <2>6. Balanced(c)'
    <3>1. Balanced(c) /\ Len(queue[c]) \in Nat
      BY <1>1 DEF Tokens
    <3>2. UNCHANGED <<rpc, sem, sem_match>> /\ tpc[c] = "push"
      BY <2>1
    <3>3. sem_match[c] # None => sem[sem_match[c]] \in Nat
      BY <1>1
    <3>4. CASE sem_match[c] = None
      BY <2>2, <2>4, <3>1, <3>2, <3>4 DEF Balanced
    <3>5. CASE sem_match[c] # None
      <4>1. Holding(sem_match[c])' = Holding(sem_match[c]) /\ Holding(sem_match[c]) \in Nat
        BY <3>2 DEF Holding
      <4>2. Unposted(c) = 0 /\ Hangup(c) = 0 /\ Unposted(c)' = 1 /\ Hangup(c)' = 0
        BY <2>4, <3>2, <3>5 DEF Unposted, Hangup
      <4> QED BY <2>2, <3>1, <3>2, <3>3, <3>5, <4>1, <4>2 DEF Balanced
    <3> QED BY <3>4, <3>5
  <2> QED BY <2>5, <2>6 DEF Tokens
<1>11. ASSUME NEW c \in Clients, TFindSem(c) PROVE Tokens'
  <2> DEFINE r == sem_map[UserOf[c]]
  <2>1. /\ tpc[c] = "find" /\ r # None /\ rpc' = rpc /\ queue' = queue /\ sem' = sem
        /\ sem_match' = [sem_match EXCEPT ![c] = r]
        /\ tpc' = [tpc EXCEPT ![c] = "post"]
    BY <1>11 DEF TFindSem, heap, result
  <2>2. r \in Clients /\ sem_match[c] = None
    <3>1. sem_map \in [Users -> Clients \cup {None}] /\ UserOf[c] \in Users
      BY UserOfAssumption DEF TypeOK
    <3> QED BY <2>1, <3>1 DEF Bound
  <2>3. \A q \in Clients : sem_match[q] # r
    <3>1. sem_match'[c] = r /\ \A q \in Clients : q # c => sem_match'[q] = sem_match[q]
      BY <1>1, <2>1
    <3>2. \A q \in Clients : sem_match'[q] = r => q = c
      BY <2>1, <3>1 DEF Bound
    <3> QED BY <2>1, <2>2, <3>1, <3>2
  <2>4. sem[r] = 0 /\ rpc[r] \notin Awake
    BY <2>2, <2>3 DEF Unbound, Awake, Outside, Ending
  <2>6. Len(queue[c]) = 1
    BY <2>1, <2>2 DEF Tokens, Balanced
  <2>7. tpc'[c] = "post" /\ sem_match'[c] = r
    BY <1>1, <2>1
  <2>8. \A q \in Clients : q # c => sem_match'[q] = sem_match[q] /\ tpc'[q] = tpc[q]
    BY <1>1, <2>1
  <2>9. ASSUME NEW q \in Clients, q # c PROVE Balanced(q)'
    <3>1. Balanced(q)
      BY DEF Tokens
    <3> QED BY <2>1, <2>8, <2>9, <3>1, ZenonT(60) DEF Balanced, Holding, Unposted, Hangup
  <2>10. Balanced(c)'
    BY <2>1, <2>2, <2>4, <2>6, <2>7, ClientsAssumption
       DEF Balanced, Holding, Unposted, Hangup
  <2> QED BY <2>9, <2>10 DEF Tokens
<1>12. ASSUME NEW c \in Clients, TPost(c) PROVE Tokens'
  <2>1. /\ sem_match[c] \in Clients /\ tpc[c] = "post" /\ rpc' = rpc /\ queue' = queue
        /\ sem' = [sem EXCEPT ![sem_match[c]] = @ + 1]
        /\ tpc' = [tpc EXCEPT ![c] = "read"] /\ sem_match' = sem_match
    BY <1>1, <1>12 DEF TPost, Bound, result
  <2>2. \A q \in Clients : sem_match[q] = sem_match[c] => q = c
    BY <2>1, ClientsAssumption DEF Bound
  <2>3. sem'[sem_match[c]] = sem[sem_match[c]] + 1 /\ sem[sem_match[c]] \in Nat
    BY <1>1, <2>1
  <2>4. \A q \in Clients : sem_match[q] # None /\ q # c =>
          sem'[sem_match[q]] = sem[sem_match[q]] /\ tpc'[q] = tpc[q]
    BY <1>1, <2>1, <2>2
  <2>5. tpc'[c] = "read" /\ Len(queue[c]) \in Nat 
    BY <1>1, <2>1
  <2>6. \A q \in Clients : q # c => tpc'[q] = tpc[q]
    BY <1>1, <2>1
  <2>7. ASSUME NEW q \in Clients, q # c PROVE Balanced(q)'
    <3>1. Balanced(q)
      BY DEF Tokens
    <3> QED BY <2>1, <2>4, <2>6, <2>7, <3>1, ZenonT(60) DEF Balanced, Holding, Unposted, Hangup
  <2>8. Balanced(c)'
    <3>1. Balanced(c) /\ sem_match[c] # None
      BY <2>1, ClientsAssumption DEF Tokens
    <3>2. UNCHANGED <<rpc, queue, sem_match>> /\ tpc[c] = "post"
      BY <2>1
    <3> QED BY <2>3, <2>5, <3>1, <3>2 DEF Balanced, Holding, Unposted, Hangup
  <2> QED BY <2>7, <2>8 DEF Tokens
<1>13. ASSUME NEW c \in Clients, THangup(c) PROVE Tokens'
  <2>1. CASE sem_match[c] = None
    BY <1>13, <2>1 DEF THangup, transmit, result, heap, Tokens, Balanced, Holding,
       Unposted, Hangup
  <2>2. CASE sem_match[c] # None
    <3>1. /\ sem_match[c] \in Clients /\ tpc[c] = "hangup" /\ rpc' = rpc /\ queue' = queue
          /\ sem' = [sem EXCEPT ![sem_match[c]] = @ + 1]
          /\ tpc' = [tpc EXCEPT ![c] = "done"] /\ sem_match' = sem_match
      BY <1>1, <1>13, <2>2 DEF THangup, Bound, result
    <3>2. \A q \in Clients : sem_match[q] = sem_match[c] => q = c
      BY <3>1, ClientsAssumption DEF Bound
    <3>3. sem'[sem_match[c]] = sem[sem_match[c]] + 1 /\ sem[sem_match[c]] \in Nat
      BY <1>1, <3>1
    <3>4. \A q \in Clients : sem_match[q] # None /\ q # c =>
            sem'[sem_match[q]] = sem[sem_match[q]] /\ tpc'[q] = tpc[q]
      BY <1>1, <3>1, <3>2
    <3>5. tpc'[c] = "done" /\ Len(queue[c]) \in Nat 
      BY <1>1, <3>1
    <3>6. \A q \in Clients : q # c => tpc'[q] = tpc[q]
      BY <1>1, <3>1
    <3>7. ASSUME NEW q \in Clients, q # c PROVE Balanced(q)'
      <4>1. Balanced(q)
        BY DEF Tokens
      <4> QED BY <3>1, <3>4, <3>6, <3>7, <4>1, ZenonT(60) DEF Balanced, Holding, Unposted, Hangup
    <3>8. Balanced(c)'
      <4>1. Balanced(c) /\ sem_match[c] # None
        BY <3>1, ClientsAssumption DEF Tokens
      <4>2. UNCHANGED <<rpc, queue, sem_match>> /\ tpc[c] = "hangup"
        BY <3>1
      <4> QED BY <3>3, <3>5, <4>1, <4>2 DEF Balanced, Holding, Unposted, Hangup
    <3> QED BY <3>7, <3>8 DEF Tokens
  <2> QED BY <2>1, <2>2
<1>14. ASSUME NEW c \in Clients, LoginResult(c) PROVE Tokens'
  <2>1. UNCHANGED <<tpc, sem_match, queue, sem>>
    BY <1>14 DEF LoginResult, proc, socks, maps, transmit, result, heap, children
  <2>2. \A r \in Clients : rpc'[r] \in Awake <=> rpc[r] \in Awake
    BY <1>1, <1>14 DEF Awake, Ending, LoginResult
  <2> QED BY <1>1, <2>1, <2>2 DEF Tokens, Balanced, Holding, Unposted, Hangup
<1>15. ASSUME NEW c \in Clients, ROpen(c) PROVE Tokens'
  <2>1. UNCHANGED <<tpc, sem_match, queue, sem>>
    BY <1>15 DEF ROpen, proc, socks, maps, transmit, result, heap, children
  <2>2. \A r \in Clients : rpc'[r] \in Awake <=> rpc[r] \in Awake
    BY <1>1, <1>15 DEF Awake, Ending, ROpen
  <2> QED BY <1>1, <2>1, <2>2 DEF Tokens, Balanced, Holding, Unposted, Hangup
<1>16. ASSUME NEW c \in Clients, RWait(c) PROVE Tokens'
  <2>1. /\ rpc[c] = "wait" /\ sem[c] > 0 /\ tpc' = tpc /\ sem_match' = sem_match
        /\ queue' = queue /\ sem' = [sem EXCEPT ![c] = @ - 1]
        /\ rpc' = [rpc EXCEPT ![c] = "lookup"]
    BY <1>16 DEF RWait, transmit
  <2>2. sem'[c] + 1 = sem[c] /\ rpc[c] \notin Awake /\ rpc'[c] \in Awake
    BY <1>1, <2>1 DEF Awake, Ending
  <2>3. \A r \in Clients : r # c => sem'[r] = sem[r] /\ rpc'[r] = rpc[r]
    BY <1>1, <2>1
  <2>4. ASSUME NEW q \in Clients PROVE Balanced(q)'
    <3>1. Balanced(q)
      BY DEF Tokens
    <3>2. UNCHANGED <<tpc, sem_match, queue>>
      BY <2>1
    <3>3. CASE sem_match[q] = c
      <4>1. c # None /\ sem[c] \in Nat /\ sem'[c] \in Nat /\ Len(queue[q]) \in Nat
        BY <1>1, <2>1, ClientsAssumption
      <4>2. /\ Unposted(q)' = Unposted(q) /\ Unposted(q) \in Nat
            /\ Hangup(q)' = Hangup(q) /\ Hangup(q) \in Nat
        BY <3>2 DEF Unposted, Hangup
      <4>3. sem[c] + 0 = Len(queue[q]) - Unposted(q) + Hangup(q)
        BY <2>2, <3>1, <3>3, <4>1 DEF Balanced, Holding
      <4>4. sem'[c] + 1 = Len(queue[q]) - Unposted(q) + Hangup(q)
        BY <2>2, <4>1, <4>2, <4>3
      <4>5. Holding(sem_match[q])' = 1
        BY <2>2, <3>2, <3>3 DEF Holding
      <4> QED BY <3>2, <3>3, <4>1, <4>2, <4>4, <4>5 DEF Balanced
    <3>4. CASE sem_match[q] # c
      <4>1. sem_match[q] # None => sem_match[q] \in Clients
        BY <1>1
      <4> QED BY <2>3, <3>1, <3>2, <3>4, <4>1 DEF Balanced, Holding, Unposted, Hangup
    <3> QED BY <3>3, <3>4
  <2> QED BY <2>4 DEF Tokens
<1>17. ASSUME NEW c \in Clients, RLookup(c) PROVE Tokens'
  <2>1. UNCHANGED <<tpc, sem_match, queue, sem>>
    BY <1>17 DEF RLookup, proc, socks, maps, transmit, result, heap, children
  <2>2. \A r \in Clients : rpc'[r] \in Awake <=> rpc[r] \in Awake
    BY <1>1, <1>17 DEF Awake, Ending, RLookup
  <2> QED BY <1>1, <2>1, <2>2 DEF Tokens, Balanced, Holding, Unposted, Hangup
<1>18. ASSUME NEW c \in Clients, RGate(c) PROVE Tokens'
  <2>1. UNCHANGED <<tpc, sem_match, queue, sem>>
    BY <1>18 DEF RGate, proc, socks, maps, transmit, result, heap, children
  <2>2. \A r \in Clients : rpc'[r] \in Awake <=> rpc[r] \in Awake
    BY <1>1, <1>18 DEF Awake, Ending, RGate
  <2> QED BY <1>1, <2>1, <2>2 DEF Tokens, Balanced, Holding, Unposted, Hangup
<1>19. ASSUME NEW c \in Clients, RSpawn(c) PROVE Tokens'
  <2>1. rpc[c] = "spawn"
    BY <1>19 DEF RSpawn
  <2>2. PICK q \in Clients : q = imgQueue[c] /\ sem_match[q] = c
    BY <2>1 DEF QueueKept, TypeOK
  <2>3. /\ UNCHANGED <<tpc, sem_match, sem>>
        /\ queue' = [queue EXCEPT ![q] = Tail(@)]
        /\ rpc' = [rpc EXCEPT ![c] = "wait"]
    BY <2>2, <1>19 DEF RSpawn, transmit
  <2>4. Len(queue'[q]) = Len(queue[q]) - 1 /\ Len(queue[q]) \in Nat
    <3>1. queue[q] # <<>> /\ queue[q] \in Seq(Frames)
      BY <1>1, <2>1, <2>2 DEF WakeUps
    <3>2. queue'[q] = Tail(queue[q])
      BY <1>1, <2>3, <2>2
    <3> QED BY <3>1, <3>2
  <2>5. \A p \in Clients : p # q => queue'[p] = queue[p] /\ sem_match[p] # c
    <3>1. \A p \in Clients : p # q => queue'[p] = queue[p]
      BY <1>1, <2>3
    <3> QED BY <2>2, <3>1, ClientsAssumption DEF Bound
  <2>6. rpc[c] \in Awake /\ rpc'[c] \notin Awake
    BY <1>1, <2>3, <2>1 DEF Awake, Ending
  <2>7. \A p \in Clients : p # q /\ sem_match[p] # None =>
          rpc'[sem_match[p]] = rpc[sem_match[p]]
    BY <1>1, <2>3, <2>5
  <2>8. ASSUME NEW p \in Clients, p # q PROVE Balanced(p)'
    <3>1. Balanced(p)
      BY DEF Tokens
    <3> QED BY <2>3, <2>5, <2>7, <2>8, <3>1 DEF Balanced, Holding, Unposted, Hangup
  <2>9. Balanced(q)'
    <3>1. sem[c] + 1 = Len(queue[q]) - Unposted(q) + Hangup(q) /\ sem[c] \in Nat
      BY <1>1, <2>2, <2>6, ClientsAssumption DEF Tokens, Balanced, Holding
    <3>2. sem_match'[q] = c /\ c # None /\ sem'[c] = sem[c] /\ rpc'[c] \notin Awake
      BY <2>3, <2>2, <2>6, ClientsAssumption
    <3>3. tpc'[q] = tpc[q]
      BY <2>3
    <3>4. /\ Unposted(q)' = Unposted(q) /\ Unposted(q) \in Nat
          /\ Hangup(q)' = Hangup(q) /\ Hangup(q) \in Nat
      BY <3>3 DEF Unposted, Hangup
    <3>5. Holding(sem_match[q])' = 0
      BY <3>2 DEF Holding
    <3>6. sem[c] = Len(queue'[q]) - Unposted(q) + Hangup(q)
      BY <2>4, <3>1, <3>4, SMTT(60)
    <3> QED BY <3>1, <3>2, <3>4, <3>5, <3>6 DEF Balanced
  <2> QED BY <2>2, <2>8, <2>9 DEF Tokens
<1>20. ASSUME NEW c \in Clients, REraseSem(c) PROVE Tokens'
  <2>1. UNCHANGED <<tpc, sem_match, queue, sem>>
    BY <1>20 DEF REraseSem, proc, socks, maps, transmit, result, heap, children
  <2>2. \A r \in Clients : rpc'[r] \in Awake <=> rpc[r] \in Awake
    BY <1>1, <1>20 DEF Awake, Ending, REraseSem
  <2> QED BY <1>1, <2>1, <2>2 DEF Tokens, Balanced, Holding, Unposted, Hangup
<1>21. ASSUME NEW c \in Clients, REraseQueue(c) PROVE Tokens'
  <2>1. UNCHANGED <<tpc, sem_match, queue, sem>>
    BY <1>21 DEF REraseQueue, proc, socks, maps, transmit, result, heap, children
  <2>2. \A r \in Clients : rpc'[r] \in Awake <=> rpc[r] \in Awake
    BY <1>1, <1>21 DEF Awake, Ending, REraseQueue
  <2> QED BY <1>1, <2>1, <2>2 DEF Tokens, Balanced, Holding, Unposted, Hangup
<1>22. ASSUME NEW c \in Clients, REraseUser(c) PROVE Tokens'
  <2>1. UNCHANGED <<tpc, sem_match, queue, sem>>
    BY <1>22 DEF REraseUser, proc, socks, maps, transmit, result, heap, children
  <2>2. \A r \in Clients : rpc'[r] \in Awake <=> rpc[r] \in Awake
    BY <1>1, <1>22 DEF Awake, Ending, REraseUser
  <2> QED BY <1>1, <2>1, <2>2 DEF Tokens, Balanced, Holding, Unposted, Hangup
<1>23. ASSUME NEW c \in Clients, RFree(c) PROVE Tokens'
  <2>1. UNCHANGED <<tpc, sem_match, queue, sem>>
    BY <1>23 DEF RFree, proc, socks, maps, transmit, result, heap, children
  <2>2. \A r \in Clients : rpc'[r] \in Awake <=> rpc[r] \in Awake
    BY <1>1, <1>23 DEF Awake, Ending, RFree
  <2> QED BY <1>1, <2>1, <2>2 DEF Tokens, Balanced, Holding, Unposted, Hangup
<1> QED
  BY Footprint, <1>2, <1>3, <1>4, <1>5, <1>6, <1>7, <1>8, <1>9, <1>10, <1>11,
       <1>12, <1>13, <1>14, <1>15, <1>16, <1>17, <1>18, <1>19, <1>20, <1>21,
       <1>22, <1>23

(* An empty queue at a wake-up means that the last post was the hangup's.        *)
LEMMA WakeUpsStep ==
  ASSUME TypeOK, Bound, Tokens, WakeUps, QueueKept, QueueKept', Next
  PROVE  WakeUps'
<1>1. /\ rpc \in [Clients -> RStates]
      /\ imgQueue \in [Clients -> Clients \cup {None}]
      /\ queue \in [Clients -> Seq(Frames)]
      /\ tpc \in [Clients -> TStates]
      /\ sem \in [Clients -> Nat]
      /\ sem_match \in [Clients -> Clients \cup {None}]
  BY DEF TypeOK
<1>2. CASE UNCHANGED <<rpc, imgQueue, queue, tpc, sem>>
  BY <1>2 DEF WakeUps
<1>3. ASSUME NEW c \in Clients, ConnectTransmit(c) PROVE WakeUps'
  <2>1. UNCHANGED <<rpc, imgQueue, queue, sem>>
        /\ \A q \in Clients : tpc[q] = "done" => tpc'[q] = "done"
    BY <1>1, <1>3 DEF ConnectTransmit, proc, socks, maps, transmit, result, heap, children
  <2>2. \A r \in Clients : rpc[r] \in {"gate", "spawn", "done"} \cup Ending =>
          imgQueue[r] \in Clients
    BY <1>1 DEF QueueKept
  <2> QED BY <2>1, <2>2 DEF WakeUps
<1>4. ASSUME NEW c \in Clients, ConnectResult(c) PROVE WakeUps'
  BY <1>1, <1>4 DEF WakeUps, ConnectResult, Ending, proc, socks, maps,
       transmit, result, heap, children
<1>5. ASSUME NEW c \in Clients, LoginTransmit(c) PROVE WakeUps'
  <2>1. UNCHANGED <<rpc, imgQueue, queue, sem>>
        /\ \A q \in Clients : tpc[q] = "done" => tpc'[q] = "done"
    BY <1>1, <1>5 DEF LoginTransmit, proc, socks, maps, transmit, result, heap, children
  <2>2. \A r \in Clients : rpc[r] \in {"gate", "spawn", "done"} \cup Ending =>
          imgQueue[r] \in Clients
    BY <1>1 DEF QueueKept
  <2> QED BY <2>1, <2>2 DEF WakeUps
<1>6. ASSUME NEW c \in Clients, TOpen(c) PROVE WakeUps'
  <2>1. UNCHANGED <<rpc, imgQueue, queue, sem>>
        /\ \A q \in Clients : tpc[q] = "done" => tpc'[q] = "done"
    BY <1>1, <1>6 DEF TOpen, proc, socks, maps, transmit, result, heap, children
  <2>2. \A r \in Clients : rpc[r] \in {"gate", "spawn", "done"} \cup Ending =>
          imgQueue[r] \in Clients
    BY <1>1 DEF QueueKept
  <2> QED BY <2>1, <2>2 DEF WakeUps
<1>7. ASSUME NEW c \in Clients, TReadHeader(c) PROVE WakeUps'
  <2>1. UNCHANGED <<rpc, imgQueue, queue, sem>>
        /\ \A q \in Clients : tpc[q] = "done" => tpc'[q] = "done"
    BY <1>1, <1>7 DEF TReadHeader, proc, socks, maps, transmit, result, heap, children
  <2>2. \A r \in Clients : rpc[r] \in {"gate", "spawn", "done"} \cup Ending =>
          imgQueue[r] \in Clients
    BY <1>1 DEF QueueKept
  <2> QED BY <2>1, <2>2 DEF WakeUps
<1>8. ASSUME NEW c \in Clients, TReadEnd(c) PROVE WakeUps'
  <2>1. UNCHANGED <<rpc, imgQueue, queue, sem>>
        /\ \A q \in Clients : tpc[q] = "done" => tpc'[q] = "done"
    BY <1>1, <1>8 DEF TReadEnd, proc, socks, maps, transmit, result, heap, children
  <2>2. \A r \in Clients : rpc[r] \in {"gate", "spawn", "done"} \cup Ending =>
          imgQueue[r] \in Clients
    BY <1>1 DEF QueueKept
  <2> QED BY <2>1, <2>2 DEF WakeUps
<1>9. ASSUME NEW c \in Clients, TData(c) PROVE WakeUps'
  <2>1. UNCHANGED <<rpc, imgQueue, queue, sem>>
        /\ \A q \in Clients : tpc[q] = "done" => tpc'[q] = "done"
    BY <1>1, <1>9 DEF TData, proc, socks, maps, transmit, result, heap, children
  <2>2. \A r \in Clients : rpc[r] \in {"gate", "spawn", "done"} \cup Ending =>
          imgQueue[r] \in Clients
    BY <1>1 DEF QueueKept
  <2> QED BY <2>1, <2>2 DEF WakeUps
<1>10. ASSUME NEW c \in Clients, TPush(c) PROVE WakeUps'
  <2>1. /\ tpc[c] = "push" /\ rpc' = rpc /\ imgQueue' = imgQueue /\ sem' = sem
        /\ queue' = [queue EXCEPT ![c] = Append(@, <<c, received[c] + 1>>)]
        /\ \A q \in Clients : q # c => tpc'[q] = tpc[q]
    BY <1>1, <1>10 DEF TPush, result
  <2>2. queue'[c] # <<>> /\ \A q \in Clients : q # c => queue'[q] = queue[q]
    <3>1. queue'[c] = Append(queue[c], <<c, received[c] + 1>>)
      BY <1>1, <2>1, Zenon
    <3>2. Len(queue'[c]) # 0 /\ Len(<<>>) = 0
      BY <1>1, <3>1
    <3>3. \A q \in Clients : q # c => queue'[q] = queue[q]
      BY <1>1, <2>1, Zenon
    <3> QED BY <3>2, <3>3
  <2>3. \A r \in Clients : rpc[r] \in {"gate", "spawn", "done"} \cup Ending =>
          imgQueue[r] \in Clients
    BY <1>1 DEF QueueKept
  <2> QED BY <2>1, <2>2, <2>3 DEF WakeUps
<1>11. ASSUME NEW c \in Clients, TFindSem(c) PROVE WakeUps'
  <2>1. UNCHANGED <<rpc, imgQueue, queue, sem>>
        /\ \A q \in Clients : tpc[q] = "done" => tpc'[q] = "done"
    BY <1>1, <1>11 DEF TFindSem, proc, socks, maps, transmit, result, heap, children
  <2>2. \A r \in Clients : rpc[r] \in {"gate", "spawn", "done"} \cup Ending =>
          imgQueue[r] \in Clients
    BY <1>1 DEF QueueKept
  <2> QED BY <2>1, <2>2 DEF WakeUps
<1>12. ASSUME NEW c \in Clients, TPost(c) PROVE WakeUps'
  <2>1. /\ tpc[c] = "post" /\ UNCHANGED <<rpc, imgQueue, queue, sem_match>>
        /\ \A q \in Clients : tpc[q] = "done" => tpc'[q] = "done"
        /\ \A r \in Clients : r # sem_match[c] => sem'[r] = sem[r]
    BY <1>1, <1>12 DEF TPost, proc, socks, maps, transmit, result, heap, children
  <2>2. \A r \in Clients : rpc[r] \in {"gate", "spawn", "done"} \cup Ending =>
          imgQueue[r] \in Clients /\ sem_match[imgQueue[r]] = r
    BY <1>1 DEF QueueKept
  <2>3. \A r \in Clients : rpc[r] \in Ending \cup {"done"} => r # sem_match[c]
    <3>1. ASSUME NEW r \in Clients, rpc[r] \in Ending \cup {"done"}, r = sem_match[c]
          PROVE  FALSE
      <4>1. imgQueue[r] = c
        BY <2>2, <3>1, ClientsAssumption DEF Bound
      <4> QED BY <2>1, <3>1, <4>1 DEF WakeUps
    <3> QED BY <3>1
  <2> QED BY <1>1, <2>1, <2>2, <2>3 DEF WakeUps
<1>13. ASSUME NEW c \in Clients, THangup(c) PROVE WakeUps'
  <2>1. /\ tpc[c] = "hangup" /\ UNCHANGED <<rpc, imgQueue, queue, sem_match>>
        /\ \A q \in Clients : tpc[q] = "done" => tpc'[q] = "done"
        /\ \A r \in Clients : r # sem_match[c] => sem'[r] = sem[r]
    BY <1>1, <1>13 DEF THangup, proc, socks, maps, transmit, result, heap, children
  <2>2. \A r \in Clients : rpc[r] \in {"gate", "spawn", "done"} \cup Ending =>
          imgQueue[r] \in Clients /\ sem_match[imgQueue[r]] = r
    BY <1>1 DEF QueueKept
  <2>3. \A r \in Clients : rpc[r] \in Ending \cup {"done"} => r # sem_match[c]
    <3>1. ASSUME NEW r \in Clients, rpc[r] \in Ending \cup {"done"}, r = sem_match[c]
          PROVE  FALSE
      <4>1. imgQueue[r] = c
        BY <2>2, <3>1, ClientsAssumption DEF Bound
      <4> QED BY <2>1, <3>1, <4>1 DEF WakeUps
    <3> QED BY <3>1
  <2> QED BY <1>1, <2>1, <2>2, <2>3 DEF WakeUps
<1>14. ASSUME NEW c \in Clients, LoginResult(c) PROVE WakeUps'
  BY <1>1, <1>14 DEF WakeUps, LoginResult, Ending, proc, socks, maps, transmit,
       result, heap, children
<1>15. ASSUME NEW c \in Clients, ROpen(c) PROVE WakeUps'
  BY <1>1, <1>15 DEF WakeUps, ROpen, Ending, proc, socks, maps, transmit,
       result, heap, children
<1>16. ASSUME NEW c \in Clients, RWait(c) PROVE WakeUps'
  BY <1>1, <1>16 DEF WakeUps, RWait, Ending, proc, socks, maps, transmit,
       result, heap, children
<1>17. ASSUME NEW c \in Clients, RLookup(c) PROVE WakeUps'
  <2> DEFINE q == QueueOf(c)
  <2>1. /\ rpc[c] = "lookup" /\ q # None /\ UNCHANGED <<tpc, queue, sem, sem_match>>
        /\ imgQueue' = [imgQueue EXCEPT ![c] = q]
        /\ rpc' = [rpc EXCEPT ![c] = IF queue[q] = <<>> THEN "erase_sem" ELSE "gate"]
    BY <1>17 DEF RLookup, transmit, heap
  <2>2. q \in Clients /\ sem_match[q] = c
    <3>1. q \in Clients
      <4>1. queue_map[UserOf[c]] \in Clients \cup {None}
        BY UserOfAssumption DEF TypeOK
      <4> QED BY <1>1, <2>1, <4>1 DEF QueueOf
    <3>2. imgQueue'[c] = q /\ imgQueue'[c] # None
      BY <1>1, <2>1, Zenon
    <3>3. sem_match'[imgQueue'[c]] = c
      BY <3>2, Zenon DEF QueueKept
    <3> QED BY <2>1, <3>1, <3>2, <3>3, Zenon
  <2>3. ASSUME queue[q] = <<>>
        PROVE  tpc[q] = "done" /\ sem[c] = 0
    <3>1. Len(queue[q]) = 0
      BY <2>3
    <3>2. sem[c] + 1 = 0 - Unposted(q) + Hangup(q)
      BY <2>1, <2>2, <3>1, ClientsAssumption DEF Tokens, Balanced, Holding, Awake
    <3> QED BY <1>1, <3>2 DEF Unposted, Hangup
  <2>4. rpc'[c] \in {"gate", "erase_sem"} /\ imgQueue'[c] = q
        /\ (rpc'[c] = "gate" <=> queue[q] # <<>>)
    BY <1>1, <2>1
  <2>5. \A r \in Clients : r # c => rpc'[r] = rpc[r] /\ imgQueue'[r] = imgQueue[r]
    BY <1>1, <2>1
  <2> QED BY <2>1, <2>3, <2>4, <2>5 DEF WakeUps, Ending
<1>18. ASSUME NEW c \in Clients, RGate(c) PROVE WakeUps'
  BY <1>1, <1>18 DEF WakeUps, RGate, Ending, proc, socks, maps, transmit,
       result, heap, children
<1>19. ASSUME NEW c \in Clients, RSpawn(c) PROVE WakeUps'
  <2> DEFINE q == imgQueue[c]
  <2>1. /\ rpc[c] = "spawn" /\ UNCHANGED <<tpc, imgQueue, sem, sem_match>>
        /\ \A p \in Clients : p # q => queue'[p] = queue[p]
        /\ rpc' = [rpc EXCEPT ![c] = "wait"]
    BY <1>1, <1>19 DEF RSpawn, transmit
  <2>2. \A r \in Clients : rpc[r] \in {"gate", "spawn", "done"} \cup Ending =>
          imgQueue[r] \in Clients /\ sem_match[imgQueue[r]] = r
    BY <1>1 DEF QueueKept
  <2>3. ASSUME NEW r \in Clients, rpc'[r] \in {"gate", "spawn", "done"} \cup Ending
        PROVE  rpc'[r] = rpc[r] /\ queue'[imgQueue[r]] = queue[imgQueue[r]]
    <3>1. r # c /\ rpc'[r] = rpc[r]
      BY <1>1, <2>1, <2>3 DEF Ending
    <3>2. imgQueue[r] # q
      BY <2>1, <2>2, <2>3, <3>1
    <3> QED BY <2>1, <2>2, <2>3, <3>1, <3>2
  <2> QED BY <2>1, <2>3 DEF WakeUps
<1>20. ASSUME NEW c \in Clients, REraseSem(c) PROVE WakeUps'
  BY <1>1, <1>20 DEF WakeUps, REraseSem, Ending, proc, socks, maps, transmit,
       result, heap, children
<1>21. ASSUME NEW c \in Clients, REraseQueue(c) PROVE WakeUps'
  BY <1>1, <1>21 DEF WakeUps, REraseQueue, Ending, proc, socks, maps, transmit,
       result, heap, children
<1>22. ASSUME NEW c \in Clients, REraseUser(c) PROVE WakeUps'
  BY <1>1, <1>22 DEF WakeUps, REraseUser, Ending, proc, socks, maps, transmit,
       result, heap, children
<1>23. ASSUME NEW c \in Clients, RFree(c) PROVE WakeUps'
  BY <1>1, <1>23 DEF WakeUps, RFree, Ending, proc, socks, maps, transmit,
       result, heap, children
<1> QED
  BY Footprint, <1>2, <1>3, <1>4, <1>5, <1>6, <1>7, <1>8, <1>9, <1>10, <1>11,
       <1>12, <1>13, <1>14, <1>15, <1>16, <1>17, <1>18, <1>19, <1>20, <1>21,
       <1>22, <1>23

(* A queue is the tail of what has been received, and what was popped came     *)
(* before it.                                                                  *)
LEMMA InOrderStep ==
  ASSUME TypeOK, WakeUps, QueueKept, InOrder, Next
  PROVE  InOrder'
<1>1. /\ tpc \in [Clients -> TStates]
      /\ received \in [Clients -> 0 .. MaxFrames]
      /\ queue \in [Clients -> Seq(Frames)]
      /\ c_st \in [Frames -> {"none", "started", "matching", "done", "lost"}]
  BY DEF TypeOK
<1>2. CASE UNCHANGED <<tpc, received, queue, c_st>>
  BY <1>2 DEF InOrder, HandedOut
<1>3. ASSUME NEW c \in Clients, ConnectTransmit(c) PROVE InOrder'
  <2>1. UNCHANGED <<received, queue, c_st>>
    BY <1>3 DEF ConnectTransmit, heap, children
  <2>2. \A q \in Clients : tpc'[q] \in {"data", "push"} => received[q] < MaxFrames
    BY <1>1, <1>3 DEF ConnectTransmit, InOrder
  <2> QED BY <2>1, <2>2 DEF InOrder, HandedOut
<1>4. ASSUME NEW c \in Clients, LoginTransmit(c) PROVE InOrder'
  <2>1. UNCHANGED <<received, queue, c_st>>
    BY <1>4 DEF LoginTransmit, heap, children
  <2>2. \A q \in Clients : tpc'[q] \in {"data", "push"} => received[q] < MaxFrames
    BY <1>1, <1>4 DEF LoginTransmit, InOrder
  <2> QED BY <2>1, <2>2 DEF InOrder, HandedOut
<1>5. ASSUME NEW c \in Clients, TOpen(c) PROVE InOrder'
  <2>1. UNCHANGED <<received, queue, c_st>>
    BY <1>5 DEF TOpen, heap, children
  <2>2. \A q \in Clients : tpc'[q] \in {"data", "push"} => received[q] < MaxFrames
    BY <1>1, <1>5 DEF TOpen, InOrder
  <2> QED BY <2>1, <2>2 DEF InOrder, HandedOut
<1>6. ASSUME NEW c \in Clients, TReadHeader(c) PROVE InOrder'
  <2>1. UNCHANGED <<received, queue, c_st>>
    BY <1>6 DEF TReadHeader, heap, children
  <2>2. \A q \in Clients : tpc'[q] \in {"data", "push"} => received[q] < MaxFrames
    BY <1>1, <1>6 DEF TReadHeader, InOrder
  <2> QED BY <2>1, <2>2 DEF InOrder, HandedOut
<1>7. ASSUME NEW c \in Clients, TReadEnd(c) PROVE InOrder'
  <2>1. UNCHANGED <<received, queue, c_st>>
    BY <1>7 DEF TReadEnd, heap, children
  <2>2. \A q \in Clients : tpc'[q] \in {"data", "push"} => received[q] < MaxFrames
    BY <1>1, <1>7 DEF TReadEnd, InOrder
  <2> QED BY <2>1, <2>2 DEF InOrder, HandedOut
<1>8. ASSUME NEW c \in Clients, TData(c) PROVE InOrder'
  <2>1. UNCHANGED <<received, queue, c_st>>
    BY <1>8 DEF TData, heap, children
  <2>2. \A q \in Clients : tpc'[q] \in {"data", "push"} => received[q] < MaxFrames
    BY <1>1, <1>8 DEF TData, InOrder
  <2> QED BY <2>1, <2>2 DEF InOrder, HandedOut
<1>9. ASSUME NEW c \in Clients, TPush(c) PROVE InOrder'
  <2>1. /\ tpc[c] = "push" /\ c_st' = c_st /\ received[c] < MaxFrames
        /\ received[c] \in Nat /\ Len(queue[c]) \in Nat
    BY <1>1, <1>9 DEF TPush, InOrder, children
  <2>2. /\ received'[c] = received[c] + 1 /\ tpc'[c] \notin {"data", "push"}
        /\ queue'[c] = Append(queue[c], <<c, received[c] + 1>>)
    BY <1>1, <1>9 DEF TPush
  <2>3. Len(queue'[c]) = Len(queue[c]) + 1
    BY <1>1, <2>2
  <2>4. HandedOut(c)' = HandedOut(c)
    BY <2>1, <2>2, <2>3, SMTT(60) DEF HandedOut
  <2>5. Len(queue'[c]) <= received'[c]
    BY <2>1, <2>2, <2>3 DEF InOrder
  <2>6. ASSUME NEW i \in 1 .. Len(queue'[c])
        PROVE  queue'[c][i] = <<c, HandedOut(c) + i>>
    <3>1. CASE i \in 1 .. Len(queue[c])
      BY <1>1, <2>1, <2>2, <3>1 DEF InOrder
    <3>2. CASE i = Len(queue[c]) + 1
      <4>1. queue'[c][i] = <<c, received[c] + 1>>
        BY <1>1, <2>2, <3>2
      <4>2. HandedOut(c) + i = received[c] + 1
        BY <2>1, <3>2 DEF HandedOut
      <4> QED BY <4>1, <4>2
    <3> QED BY <2>1, <2>3, <3>1, <3>2
  <2>7. ASSUME NEW q \in Clients, q # c
        PROVE  /\ UNCHANGED <<tpc[q], received[q], queue[q]>>
               /\ HandedOut(q)' = HandedOut(q)
    BY <1>1, <2>7, <1>9 DEF TPush, HandedOut
  <2>8. /\ tpc'[c] \in {"data", "push"} => received'[c] < MaxFrames
        /\ Len(queue'[c]) <= received'[c]
        /\ \A i \in 1 .. Len(queue'[c]) : queue'[c][i] = <<c, HandedOut(c)' + i>>
        /\ \A n \in 1 .. MaxFrames : c_st'[<<c, n>>] # "none" <=> n <= HandedOut(c)'
    <3>1. \A n \in 1 .. MaxFrames : c_st[<<c, n>>] # "none" <=> n <= HandedOut(c)
      BY DEF InOrder
    <3> QED BY <2>1, <2>2, <2>4, <2>5, <2>6, <3>1, Zenon
  <2>9. ASSUME NEW q \in Clients, q # c
        PROVE  /\ tpc'[q] \in {"data", "push"} => received'[q] < MaxFrames
               /\ Len(queue'[q]) <= received'[q]
               /\ \A i \in 1 .. Len(queue'[q]) : queue'[q][i] = <<q, HandedOut(q)' + i>>
               /\ \A n \in 1 .. MaxFrames : c_st'[<<q, n>>] # "none" <=> n <= HandedOut(q)'
    BY <2>1, <2>7, <2>9, ZenonT(60) DEF InOrder
  <2> QED BY <2>8, <2>9, Zenon DEF InOrder
<1>10. ASSUME NEW c \in Clients, TFindSem(c) PROVE InOrder'
  <2>1. UNCHANGED <<received, queue, c_st>>
    BY <1>10 DEF TFindSem, heap, children
  <2>2. \A q \in Clients : tpc'[q] \in {"data", "push"} => received[q] < MaxFrames
    BY <1>1, <1>10 DEF TFindSem, InOrder
  <2> QED BY <2>1, <2>2 DEF InOrder, HandedOut
<1>11. ASSUME NEW c \in Clients, TPost(c) PROVE InOrder'
  <2>1. UNCHANGED <<received, queue, c_st>>
    BY <1>11 DEF TPost, transmit, heap, children
  <2>2. \A q \in Clients : tpc'[q] \in {"data", "push"} => received[q] < MaxFrames
    BY <1>1, <1>11 DEF TPost, InOrder
  <2> QED BY <2>1, <2>2 DEF InOrder, HandedOut
<1>12. ASSUME NEW c \in Clients, THangup(c) PROVE InOrder'
  <2>1. UNCHANGED <<received, queue, c_st>>
    BY <1>12 DEF THangup, heap, children
  <2>2. \A q \in Clients : tpc'[q] \in {"data", "push"} => received[q] < MaxFrames
    BY <1>1, <1>12 DEF THangup, InOrder
  <2> QED BY <2>1, <2>2 DEF InOrder, HandedOut
<1>13. ASSUME NEW c \in Clients, RSpawn(c) PROVE InOrder'
  <2>1. PICK q \in Clients : q = imgQueue[c] /\ queue[q] # <<>>
    BY <1>13, SpawnFacts DEF RSpawn
  <2>2. /\ received' = received /\ tpc' = tpc
        /\ queue' = [queue EXCEPT ![q] = Tail(@)]
        /\ c_st' = [c_st EXCEPT ![Head(queue[q])] = "started"]
    BY <2>1, <1>13 DEF RSpawn, transmit
  <2>3. Len(queue[q]) \in Nat \ {0} /\ received[q] \in Nat
    BY <1>1, <2>1
  <2>4. Head(queue[q]) = <<q, HandedOut(q) + 1>> /\ HandedOut(q) + 1 \in 1 .. MaxFrames
    <3>1. Head(queue[q]) = queue[q][1]
      BY <1>1, <2>1
    <3>2. queue[q][1] = <<q, HandedOut(q) + 1>> /\ Len(queue[q]) <= received[q]
      BY <2>3 DEF InOrder
    <3> QED BY <1>1, <2>3, <3>1, <3>2, BoundsAssumption, SMTT(30) DEF HandedOut
  <2>5. queue'[q] = Tail(queue[q]) /\ Len(queue'[q]) = Len(queue[q]) - 1
    BY <1>1, <2>1, <2>2
  <2>6. HandedOut(q)' = HandedOut(q) + 1
    BY <2>2, <2>3, <2>5 DEF HandedOut
  <2>7. Len(queue'[q]) <= received'[q]
    BY <2>2, <2>3, <2>5 DEF InOrder
  <2>8. ASSUME NEW i \in 1 .. Len(queue'[q])
        PROVE  queue'[q][i] = <<q, HandedOut(q) + 1 + i>>
    <3>1. queue'[q][i] = queue[q][i + 1] /\ i + 1 \in 1 .. Len(queue[q])
      BY <1>1, <2>1, <2>3, <2>5, <2>8
    <3>2. queue[q][i + 1] = <<q, HandedOut(q) + (i + 1)>>
      BY <3>1 DEF InOrder
    <3> QED BY <2>3, <3>1, <3>2, SMTT(60) DEF HandedOut
  <2>9. ASSUME NEW n \in 1 .. MaxFrames
        PROVE  c_st'[<<q, n>>] # "none" <=> n <= HandedOut(q) + 1
    <3>1. <<q, n>> \in Frames /\ HandedOut(q) \in Int /\ n \in Nat
      BY <2>3, BoundsAssumption DEF Frames, HandedOut
    <3>2. CASE n = HandedOut(q) + 1
      BY <1>1, <2>2, <2>4, <3>1, <3>2
    <3>3. CASE n # HandedOut(q) + 1
      <4>1. <<q, n>> # Head(queue[q])
        BY <2>4, <3>3
      <4>2. c_st'[<<q, n>>] = c_st[<<q, n>>]
        BY <1>1, <2>2, <3>1, <4>1
      <4>3. c_st[<<q, n>>] # "none" <=> n <= HandedOut(q)
        BY DEF InOrder
      <4> QED BY <3>1, <3>3, <4>2, <4>3
    <3> QED BY <3>2, <3>3
  <2>10. ASSUME NEW p \in Clients, p # q
         PROVE  /\ UNCHANGED queue[p] /\ HandedOut(p)' = HandedOut(p)
                /\ \A n \in 1 .. MaxFrames : c_st'[<<p, n>>] = c_st[<<p, n>>]
    <3>1. UNCHANGED queue[p]
      BY <1>1, <2>2, <2>10
    <3>2. HandedOut(p)' = HandedOut(p)
      BY <2>2, <3>1 DEF HandedOut
    <3>3. \A n \in 1 .. MaxFrames : <<p, n>> # Head(queue[q]) /\ <<p, n>> \in Frames
      BY <2>4, <2>10 DEF Frames
    <3> QED BY <1>1, <2>2, <3>1, <3>2, <3>3
  <2>11. ASSUME NEW p \in Clients
         PROVE  /\ tpc'[p] \in {"data", "push"} => received'[p] < MaxFrames
                /\ Len(queue'[p]) <= received'[p]
                /\ \A i \in 1 .. Len(queue'[p]) : queue'[p][i] = <<p, HandedOut(p)' + i>>
                /\ \A n \in 1 .. MaxFrames :
                     (c_st'[<<p, n>>] # "none") <=> (n <= HandedOut(p)')
    <3>1. CASE p = q
      <4>1. tpc'[p] \in {"data", "push"} => received'[p] < MaxFrames
        BY <2>2 DEF InOrder
      <4> QED BY <2>6, <2>7, <2>8, <2>9, <3>1, <4>1
    <3>2. CASE p # q
      BY <2>2, <2>10, <3>2 DEF InOrder
    <3> QED BY <3>1, <3>2
  <2> QED BY <2>11 DEF InOrder
<1>14. ASSUME NEW f \in Frames, ChildRead(f) PROVE InOrder'
  <2>1. UNCHANGED <<tpc, received, queue>>
    BY <1>14 DEF ChildRead, transmit, heap
  <2>2. \A g \in Frames : (c_st'[g] # "none") <=> (c_st[g] # "none")
    BY <1>1, <1>14 DEF ChildRead
  <2>3. \A q \in Clients, n \in 1 .. MaxFrames : <<q, n>> \in Frames
    BY DEF Frames
  <2> QED BY <2>1, <2>2, <2>3 DEF InOrder, HandedOut
<1>15. ASSUME NEW f \in Frames, ChildReply(f) PROVE InOrder'
  <2>1. UNCHANGED <<tpc, received, queue>>
    BY <1>15 DEF ChildReply, transmit, heap
  <2>2. \A g \in Frames : (c_st'[g] # "none") <=> (c_st[g] # "none")
    BY <1>1, <1>15 DEF ChildReply
  <2>3. \A q \in Clients, n \in 1 .. MaxFrames : <<q, n>> \in Frames
    BY DEF Frames
  <2> QED BY <2>1, <2>2, <2>3 DEF InOrder, HandedOut
<1> QED
  BY Footprint, <1>2, <1>3, <1>4, <1>5, <1>6, <1>7, <1>8, <1>9, <1>10, <1>11,
       <1>12, <1>13, <1>14, <1>15

(* trans_info is only written with frames of the session's own client.          *)
LEMMA ArgumentsStep ==
  ASSUME TypeOK, Bound, WakeUps, QueueKept, InOrder, Arguments, Next
  PROVE  Arguments'
<1>1. /\ trans_info \in [Clients -> Frames \cup {NoFrame}]
      /\ sem_match \in [Clients -> Clients \cup {None}]
      /\ c_st \in [Frames -> {"none", "started", "matching", "done", "lost"}]
      /\ c_by \in [Frames -> Clients \cup {None}]
      /\ c_img \in [Frames -> Frames \cup {NoFrame}]
      /\ queue \in [Clients -> Seq(Frames)]
  BY DEF TypeOK
<1>2. CASE UNCHANGED <<trans_info, sem_match, c_st, c_by, c_img>>
  BY <1>2 DEF Arguments
<1>3. ASSUME NEW c \in Clients, TFindSem(c) PROVE Arguments'
  <2>1. /\ sem_match[c] = None /\ UNCHANGED <<trans_info, c_st, c_by, c_img>>
        /\ \A q \in Clients : q # c => sem_match'[q] = sem_match[q]
    BY <1>1, <1>3 DEF TFindSem, Bound, Outside, result, children
  <2>2. \A q \in Clients : sem_match[q] \in Clients => sem_match'[q] = sem_match[q]
    BY <2>1, ClientsAssumption
  <2>3. \A f \in Frames : f[1] \in Clients
    BY DEF Frames
  <2> QED BY <2>1, <2>2, <2>3 DEF Arguments
<1>4. ASSUME NEW c \in Clients, RSpawn(c) PROVE Arguments'
  <2>1. PICK q \in Clients : q = imgQueue[c] /\ queue[q] # <<>>
    BY <1>4, SpawnFacts DEF RSpawn
  <2>2. sem_match[q] = c
    BY <2>1, ClientsAssumption DEF QueueKept
  <2>3. PICK g \in Frames : g = Head(queue[q]) /\ g[1] = q
    <3>1. Len(queue[q]) \in Nat \ {0} /\ Head(queue[q]) = queue[q][1]
          /\ Head(queue[q]) \in Frames
      BY <1>1, <2>1
    <3>2. queue[q][1] = <<q, HandedOut(q) + 1>>
      BY <3>1 DEF InOrder
    <3> QED BY <3>1, <3>2
  <2>4. /\ sem_match' = sem_match /\ c_img' = c_img
        /\ trans_info' = [trans_info EXCEPT ![c] = g]
        /\ c_st' = [c_st EXCEPT ![g] = "started"] /\ c_by' = [c_by EXCEPT ![g] = c]
    BY <2>1, <2>3, <1>4 DEF RSpawn, transmit
  <2>5. g # NoFrame
    BY <2>3, ClientsAssumption DEF NoFrame, Frames
  <2>6. /\ trans_info'[c] = g
        /\ \A r \in Clients : r # c => trans_info'[r] = trans_info[r]
        /\ c_st'[g] = "started" /\ c_by'[g] = c
        /\ \A f \in Frames : f # g => c_st'[f] = c_st[f] /\ c_by'[f] = c_by[f]
    BY <1>1, <2>4
  <2> QED BY <2>2, <2>3, <2>4, <2>5, <2>6 DEF Arguments
<1>5. ASSUME NEW f \in Frames, ChildRead(f) PROVE Arguments'
  <2>1. UNCHANGED <<trans_info, sem_match, c_by>>
    BY <1>5 DEF ChildRead, transmit, result, children
  <2>2. c_st[f] = "started" /\ c_by[f] \in Clients /\ trans_info[c_by[f]] # NoFrame
    BY <1>5 DEF ChildRead, Arguments
  <2>3. trans_info[c_by[f]] \in Frames /\ sem_match[trans_info[c_by[f]][1]] = c_by[f]
    BY <2>2 DEF Arguments
  <2>4. c_img'[f] = trans_info[c_by[f]]
        /\ \A g \in Frames : g # f => c_st'[g] = c_st[g] /\ c_img'[g] = c_img[g]
    BY <1>1, <1>5 DEF ChildRead
  <2> QED BY <2>1, <2>2, <2>3, <2>4 DEF Arguments
<1>6. ASSUME NEW f \in Frames, ChildReply(f) PROVE Arguments'
  <2>1. UNCHANGED <<trans_info, sem_match, c_by>>
    BY <1>6 DEF ChildReply, transmit, result, children
  <2>2. c_img' = c_img /\ c_st[f] = "matching"
        /\ \A g \in Frames : g # f => c_st'[g] = c_st[g]
    BY <1>1, <1>6 DEF ChildReply
  <2> QED BY <2>1, <2>2 DEF Arguments
<1> QED
  BY Footprint, <1>2, <1>3, <1>4, <1>5, <1>6

(* The two deletes are of the session's own semaphore and queue.                 *)
LEMMA HeapLiveStep ==
  ASSUME TypeOK, Bound, QueueKept, HeapLive, Next
  PROVE  HeapLive'
<1>1. /\ sem_live \in [Clients -> BOOLEAN]
      /\ queue_live \in [Clients -> BOOLEAN]
      /\ rpc \in [Clients -> RStates]
      /\ tpc \in [Clients -> TStates]
      /\ sem_match \in [Clients -> Clients \cup {None}]
  BY DEF TypeOK
<1>2. CASE UNCHANGED <<sem_live, queue_live, rpc, tpc, sem_match>>
  BY <1>2 DEF HeapLive
<1>3. ASSUME NEW c \in Clients, ConnectTransmit(c) PROVE HeapLive'
  BY <1>1, <1>3 DEF HeapLive, ConnectTransmit, Outside, Ending, proc, socks,
       maps, transmit, result, heap, children
<1>4. ASSUME NEW c \in Clients, ConnectResult(c) PROVE HeapLive'
  BY <1>1, <1>4 DEF HeapLive, ConnectResult, Outside, Ending, proc, socks,
       maps, transmit, result, heap, children
<1>5. ASSUME NEW c \in Clients, LoginTransmit(c) PROVE HeapLive'
  BY <1>1, <1>5 DEF HeapLive, LoginTransmit, Outside, Ending, proc, socks,
       maps, transmit, result, heap, children
<1>6. ASSUME NEW c \in Clients, TOpen(c) PROVE HeapLive'
  BY <1>1, <1>6 DEF HeapLive, TOpen, Outside, Ending, proc, socks, maps,
       transmit, result, heap, children
<1>7. ASSUME NEW c \in Clients, TReadHeader(c) PROVE HeapLive'
  BY <1>1, <1>7 DEF HeapLive, TReadHeader, Outside, Ending, proc, socks, maps,
       transmit, result, heap, children
<1>8. ASSUME NEW c \in Clients, TReadEnd(c) PROVE HeapLive'
  BY <1>1, <1>8 DEF HeapLive, TReadEnd, Outside, Ending, proc, socks, maps,
       transmit, result, heap, children
<1>9. ASSUME NEW c \in Clients, TData(c) PROVE HeapLive'
  BY <1>1, <1>9 DEF HeapLive, TData, Outside, Ending, proc, socks, maps,
       transmit, result, heap, children
<1>10. ASSUME NEW c \in Clients, TPush(c) PROVE HeapLive'
  BY <1>1, <1>10 DEF HeapLive, TPush, Outside, Ending, proc, socks, maps,
       transmit, result, heap, children
<1>11. ASSUME NEW c \in Clients, TFindSem(c) PROVE HeapLive'
  <2>1. /\ sem_match[c] = None /\ tpc[c] = "find"
        /\ UNCHANGED <<rpc, sem_live, queue_live>>
        /\ tpc'[c] = "post"
        /\ \A q \in Clients : q # c => sem_match'[q] = sem_match[q] /\ tpc'[q] = tpc[q]
    BY <1>1, <1>11 DEF TFindSem, Bound, result, heap
  <2> QED BY <2>1 DEF HeapLive, Outside
<1>12. ASSUME NEW c \in Clients, TPost(c) PROVE HeapLive'
  BY <1>1, <1>12 DEF HeapLive, TPost, Outside, Ending, proc, socks, maps,
       transmit, result, heap, children
<1>13. ASSUME NEW c \in Clients, THangup(c) PROVE HeapLive'
  BY <1>1, <1>13 DEF HeapLive, THangup, Outside, Ending, proc, socks, maps,
       transmit, result, heap, children
<1>14. ASSUME NEW c \in Clients, LoginResult(c) PROVE HeapLive'
  BY <1>1, <1>14 DEF HeapLive, LoginResult, Outside, Ending, proc, socks, maps,
       transmit, result, heap, children
<1>15. ASSUME NEW c \in Clients, ROpen(c) PROVE HeapLive'
  BY <1>1, <1>15 DEF HeapLive, ROpen, Outside, Ending, proc, socks, maps,
       transmit, result, heap, children
<1>16. ASSUME NEW c \in Clients, RWait(c) PROVE HeapLive'
  BY <1>1, <1>16 DEF HeapLive, RWait, Outside, Ending, proc, socks, maps,
       transmit, result, heap, children
<1>17. ASSUME NEW c \in Clients, RLookup(c) PROVE HeapLive'
  BY <1>1, <1>17 DEF HeapLive, RLookup, Outside, Ending, proc, socks, maps,
       transmit, result, heap, children
<1>18. ASSUME NEW c \in Clients, RGate(c) PROVE HeapLive'
  BY <1>1, <1>18 DEF HeapLive, RGate, Outside, Ending, proc, socks, maps,
       transmit, result, heap, children
<1>19. ASSUME NEW c \in Clients, RSpawn(c) PROVE HeapLive'
  BY <1>1, <1>19 DEF HeapLive, RSpawn, Outside, Ending, proc, socks, maps,
       transmit, result, heap, children
<1>20. ASSUME NEW c \in Clients, REraseSem(c) PROVE HeapLive'
  BY <1>1, <1>20 DEF HeapLive, REraseSem, Outside, Ending, proc, socks, maps,
       transmit, result, heap, children
<1>21. ASSUME NEW c \in Clients, REraseQueue(c) PROVE HeapLive'
  BY <1>1, <1>21 DEF HeapLive, REraseQueue, Outside, Ending, proc, socks, maps,
       transmit, result, heap, children
<1>22. ASSUME NEW c \in Clients, REraseUser(c) PROVE HeapLive'
  BY <1>1, <1>22 DEF HeapLive, REraseUser, Outside, Ending, proc, socks, maps,
       transmit, result, heap, children
<1>23. ASSUME NEW c \in Clients, RFree(c) PROVE HeapLive'
  <2>1. PICK q \in Clients : q = imgQueue[c] /\ sem_match[q] = c
    BY <1>23 DEF RFree, QueueKept, TypeOK, Ending
  <2>2. /\ UNCHANGED <<tpc, sem_match>> /\ rpc'[c] = "done"
        /\ \A r \in Clients : r # c => rpc'[r] = rpc[r] /\ sem_live'[r] = sem_live[r]
        /\ \A p \in Clients : p # q => queue_live'[p] = queue_live[p]
    BY <1>1, <2>1, <1>23 DEF RFree, transmit
  <2>3. \A p \in Clients : sem_match[p] # None => sem_match[p] \in Clients
    BY <1>1
  <2> QED BY <2>1, <2>2, <2>3, ClientsAssumption DEF HeapLive
<1> QED
  BY Footprint, <1>2, <1>3, <1>4, <1>5, <1>6, <1>7, <1>8, <1>9, <1>10, <1>11,
       <1>12, <1>13, <1>14, <1>15, <1>16, <1>17, <1>18, <1>19, <1>20, <1>21,
       <1>22, <1>23

(* The counted sets are finite. *)
LEMMA FiniteCounts ==
  /\ IsFiniteSet(Spawning) /\ Cardinality(Spawning) \in Nat
  /\ IsFiniteSet(Holders) /\ Cardinality(Holders) \in Nat
  /\ IsFiniteSet(Matching) /\ Cardinality(Matching) \in Nat
<1>1. IsFiniteSet(Clients)
  BY ClientsAssumption
<1>2. IsFiniteSet(1 .. MaxFrames)
  BY FS_Interval, BoundsAssumption
<1>3. IsFiniteSet(Frames)
  BY <1>1, <1>2, FS_Product DEF Frames
<1>4. Spawning \subseteq Clients /\ Holders \subseteq Frames /\ Matching \subseteq Frames
  BY DEF Spawning, Holders, Matching
<1>5. IsFiniteSet(Spawning) /\ IsFiniteSet(Holders) /\ IsFiniteSet(Matching)
  BY <1>1, <1>3, <1>4, FS_Subset
<1> QED BY <1>5, FS_CardinalityType

(* Every sem_wait on process_sem is balanced by a thread that holds the permit.   *)
LEMMA PermitsStep ==
  ASSUME TypeOK, WakeUps, QueueKept, InOrder, Permits, Next
  PROVE  Permits'
<1>1. /\ process_sem \in Nat
      /\ rpc \in [Clients -> RStates]
      /\ c_st \in [Frames -> {"none", "started", "matching", "done", "lost"}]
      /\ queue \in [Clients -> Seq(Frames)]
      /\ received \in [Clients -> 0 .. MaxFrames]
      /\ imgQueue \in [Clients -> Clients \cup {None}]
  BY DEF TypeOK
<1>2. CASE UNCHANGED <<process_sem, rpc, c_st>>
  BY <1>2 DEF Permits, Spawning, Holders
<1>3. ASSUME NEW c \in Clients, ConnectResult(c) PROVE Permits'
  <2>1. UNCHANGED <<process_sem, c_st>>
    BY <1>3 DEF ConnectResult, children
  <2>2. Spawning' = Spawning
    BY <1>1, <1>3 DEF Spawning, ConnectResult
  <2> QED BY <2>1, <2>2 DEF Permits, Holders
<1>4. ASSUME NEW c \in Clients, LoginResult(c) PROVE Permits'
  <2>1. UNCHANGED <<process_sem, c_st>>
    BY <1>4 DEF LoginResult, children
  <2>2. Spawning' = Spawning
    BY <1>1, <1>4 DEF Spawning, LoginResult
  <2> QED BY <2>1, <2>2 DEF Permits, Holders
<1>5. ASSUME NEW c \in Clients, ROpen(c) PROVE Permits'
  <2>1. UNCHANGED <<process_sem, c_st>>
    BY <1>5 DEF ROpen, children
  <2>2. Spawning' = Spawning
    BY <1>1, <1>5 DEF Spawning, ROpen
  <2> QED BY <2>1, <2>2 DEF Permits, Holders
<1>6. ASSUME NEW c \in Clients, RWait(c) PROVE Permits'
  <2>1. UNCHANGED <<process_sem, c_st>>
    BY <1>6 DEF RWait, children
  <2>2. Spawning' = Spawning
    BY <1>1, <1>6 DEF Spawning, RWait
  <2> QED BY <2>1, <2>2 DEF Permits, Holders
<1>7. ASSUME NEW c \in Clients, RLookup(c) PROVE Permits'
  <2>1. UNCHANGED <<process_sem, c_st>>
    BY <1>7 DEF RLookup, children
  <2>2. Spawning' = Spawning
    BY <1>1, <1>7 DEF Spawning, RLookup
  <2> QED BY <2>1, <2>2 DEF Permits, Holders
<1>8. ASSUME NEW c \in Clients, RGate(c) PROVE Permits'
  <2>1. rpc[c] = "gate" /\ c_st' = c_st /\ process_sem' = process_sem - 1
        /\ process_sem \in Nat
    BY <1>1, <1>8 DEF RGate
  <2>2. c \notin Spawning /\ Spawning' = Spawning \cup {c}
    BY <1>1, <1>8 DEF Spawning, RGate
  <2>3. Cardinality(Spawning') = Cardinality(Spawning) + 1
    BY <2>2, FiniteCounts, FS_AddElement
  <2>4. Holders' = Holders
    BY <2>1 DEF Holders
  <2> QED BY <2>1, <2>3, <2>4, FiniteCounts, BoundsAssumption DEF Permits
<1>9. ASSUME NEW c \in Clients, RSpawn(c) PROVE Permits'
  <2>1. PICK q \in Clients : q = imgQueue[c] /\ queue[q] # <<>>
    BY <1>9, SpawnFacts DEF RSpawn
  <2>2. PICK g \in Frames : g = Head(queue[q]) /\ c_st[g] = "none"
    <3>1. Len(queue[q]) \in Nat \ {0} /\ Head(queue[q]) = queue[q][1]
          /\ Head(queue[q]) \in Frames
      BY <1>1, <2>1
    <3>2. Head(queue[q]) = <<q, HandedOut(q) + 1>>
      BY <3>1 DEF InOrder
    <3>3. HandedOut(q) \in Int /\ HandedOut(q) + 1 \in 1 .. MaxFrames
      BY <1>1, <3>1, <3>2, SMTT(60) DEF Frames, HandedOut
    <3>4. c_st[<<q, HandedOut(q) + 1>>] = "none"
      <4>1. (c_st[<<q, HandedOut(q) + 1>>] # "none") <=> (HandedOut(q) + 1 <= HandedOut(q))
        BY <3>3 DEF InOrder
      <4> QED BY <3>3, <4>1
    <3> QED BY <3>1, <3>2, <3>4
  <2>3. /\ process_sem' = process_sem /\ process_sem \in Nat
        /\ c_st' = [c_st EXCEPT ![g] = "started"]
        /\ rpc[c] = "spawn" /\ rpc' = [rpc EXCEPT ![c] = "wait"]
    BY <1>1, <2>1, <2>2, <1>9 DEF RSpawn
  <2>4. c \in Spawning /\ Spawning' = Spawning \ {c}
    BY <1>1, <2>3 DEF Spawning
  <2>5. Cardinality(Spawning') = Cardinality(Spawning) - 1
    BY <2>4, FiniteCounts, FS_RemoveElement
  <2>6. g \notin Holders /\ Holders' = Holders \cup {g}
    BY <1>1, <2>2, <2>3 DEF Holders
  <2>7. Cardinality(Holders') = Cardinality(Holders) + 1
    BY <2>6, FiniteCounts, FS_AddElement
  <2> QED BY <2>3, <2>5, <2>7, FiniteCounts DEF Permits
<1>10. ASSUME NEW c \in Clients, REraseSem(c) PROVE Permits'
  <2>1. UNCHANGED <<process_sem, c_st>>
    BY <1>10 DEF REraseSem, children
  <2>2. Spawning' = Spawning
    BY <1>1, <1>10 DEF Spawning, REraseSem
  <2> QED BY <2>1, <2>2 DEF Permits, Holders
<1>11. ASSUME NEW c \in Clients, REraseQueue(c) PROVE Permits'
  <2>1. UNCHANGED <<process_sem, c_st>>
    BY <1>11 DEF REraseQueue, children
  <2>2. Spawning' = Spawning
    BY <1>1, <1>11 DEF Spawning, REraseQueue
  <2> QED BY <2>1, <2>2 DEF Permits, Holders
<1>12. ASSUME NEW c \in Clients, REraseUser(c) PROVE Permits'
  <2>1. UNCHANGED <<process_sem, c_st>>
    BY <1>12 DEF REraseUser, children
  <2>2. Spawning' = Spawning
    BY <1>1, <1>12 DEF Spawning, REraseUser
  <2> QED BY <2>1, <2>2 DEF Permits, Holders
<1>13. ASSUME NEW c \in Clients, RFree(c) PROVE Permits'
  <2>1. UNCHANGED <<process_sem, c_st>>
    BY <1>13 DEF RFree, children
  <2>2. Spawning' = Spawning
    BY <1>1, <1>13 DEF Spawning, RFree
  <2> QED BY <2>1, <2>2 DEF Permits, Holders
<1>14. ASSUME NEW f \in Frames, ChildRead(f) PROVE Permits'
  <2>1. UNCHANGED <<process_sem, rpc>>
    BY <1>14 DEF ChildRead, result
  <2>2. Holders' = Holders
    BY <1>1, <1>14 DEF Holders, ChildRead
  <2> QED BY <2>1, <2>2 DEF Permits, Spawning
<1>15. ASSUME NEW f \in Frames, ChildReply(f) PROVE Permits'
  <2>1. rpc' = rpc /\ c_st[f] = "matching" /\ f \in Holders /\ process_sem \in Nat
    BY <1>1, <1>15 DEF ChildReply, result, Holders
  <2>2. CASE /\ c_st' = [c_st EXCEPT ![f] = "done"] /\ process_sem' = process_sem + 1
    <3>1. Holders' = Holders \ {f}
      BY <1>1, <2>1, <2>2 DEF Holders
    <3>2. Cardinality(Holders') = Cardinality(Holders) - 1
      BY <2>1, <3>1, FiniteCounts, FS_RemoveElement
    <3> QED BY <2>1, <2>2, <3>2, FiniteCounts DEF Permits, Spawning
  <2>3. CASE /\ c_st' = [c_st EXCEPT ![f] = "lost"] /\ process_sem' = process_sem
    <3>1. Holders' = Holders
      BY <1>1, <2>1, <2>3 DEF Holders
    <3> QED BY <2>1, <2>3, <3>1 DEF Permits, Spawning
  <2>4. CASE UNCHANGED <<c_st, process_sem>>
    BY <2>1, <2>4 DEF Permits, Spawning, Holders
  <2> QED BY <2>2, <2>3, <2>4, <1>15 DEF ChildReply
<1> QED
  BY Footprint, <1>2, <1>3, <1>4, <1>5, <1>6, <1>7, <1>8, <1>9, <1>10, <1>11,
       <1>12, <1>13, <1>14, <1>15

-----------------------------------------------------------------------------
(* The invariant holds initially, is kept by every step, and so always holds.  *)

\* The initial states are in the invariant.
LEMMA InitIInv ==
  ASSUME Init
  PROVE  IInv
<1>1. TypeOK
  BY BoundsAssumption DEF Init, TypeOK, TStates, RStates, NoFrame
<1>2. \A u \in Users : TMembers(u) = {} /\ RMembers(u) = {}
  BY DEF Init, TMembers, RMembers, Outside
<1>3. LoginCount
  <2>1. \A u \in Users : user_map[u] = 0
    BY DEF Init
  <2> QED BY <1>2, <2>1, FS_EmptySet DEF LoginCount
<1>4. Bound /\ Unbound
  BY DEF Init, Bound, Unbound, Outside
<1>5. SemMapOwn
  BY UserOfAssumption DEF Init, SemMapOwn
<1>6. QueueMapOwn /\ QueueKept
  BY DEF Init, QueueMapOwn, QueueKept, Outside, Ending
<1>7. \A q \in Clients : Len(queue[q]) = 0
  BY DEF Init
<1>8. Tokens
  BY <1>7 DEF Init, Tokens, Balanced
<1>9. WakeUps
  BY DEF Init, WakeUps, Ending
<1>10. InOrder
  <2>1. \A q \in Clients : HandedOut(q) = 0
    BY <1>7 DEF Init, HandedOut
  <2>2. \A q \in Clients, n \in 1 .. MaxFrames : <<q, n>> \in Frames /\ ~(n <= 0)
    BY BoundsAssumption DEF Frames
  <2> QED BY <1>7, <2>1, <2>2 DEF Init, InOrder
<1>11. Arguments
  BY DEF Init, Arguments
<1>12. HeapLive
  BY DEF Init, HeapLive, Outside
<1>13. Permits
  <2>1. Spawning = {} /\ Holders = {}
    BY DEF Init, Spawning, Holders
  <2> QED BY <2>1, FS_EmptySet, BoundsAssumption DEF Init, Permits
<1> QED
  BY <1>1, <1>3, <1>4, <1>5, <1>6, <1>8, <1>9, <1>10, <1>11, <1>12, <1>13
     DEF IInv, SessionInv, TokenInv

\* A step that changes nothing keeps the invariant.
LEMMA StutterIInv ==
  ASSUME IInv, UNCHANGED vars
  PROVE  IInv'
<1> USE DEF vars, proc, socks, maps, transmit, result, heap, children
<1>1. TypeOK'
  BY DEF IInv, TypeOK
<1>2. \A u \in Users : TMembers(u)' = TMembers(u) /\ RMembers(u)' = RMembers(u)
  BY DEF TMembers, RMembers, Over
<1>3. LoginCount'
  BY <1>2 DEF IInv, SessionInv, LoginCount
<1>4. Bound' /\ Unbound'
  BY DEF IInv, SessionInv, Bound, Unbound
<1>5. SemMapOwn' /\ QueueMapOwn'
  BY <1>2, UserOfAssumption DEF IInv, SessionInv, SemMapOwn, QueueMapOwn, Over
<1>6. QueueKept'
  BY DEF IInv, SessionInv, QueueKept
<1>7. Tokens'
  BY DEF IInv, TokenInv, Tokens, Balanced, Holding, Unposted, Hangup
<1>8. WakeUps' /\ InOrder'
  BY DEF IInv, TokenInv, WakeUps, InOrder, HandedOut
<1>9. Arguments' /\ HeapLive'
  BY DEF IInv, Arguments, HeapLive
<1>10. Permits'
  BY DEF IInv, Permits, Spawning, Holders
<1> QED
  BY <1>1, <1>3, <1>4, <1>5, <1>6, <1>7, <1>8, <1>9, <1>10
     DEF IInv, SessionInv, TokenInv

\* Every action keeps every part of the invariant.
LEMMA StepIInv ==
  ASSUME IInv, Next
  PROVE  IInv'
<1>1. /\ TypeOK /\ LoginCount /\ Bound /\ Unbound /\ SemMapOwn /\ QueueMapOwn
      /\ QueueKept /\ Tokens /\ WakeUps /\ InOrder /\ Arguments /\ HeapLive /\ Permits
  BY DEF IInv, SessionInv, TokenInv
<1>2. TypeOK'
  BY <1>1, TypeStep
<1>3. LoginCount'
  BY <1>1, LoginCountStep
<1>4. Bound'
  BY <1>1, BoundStep
<1>5. Unbound'
  BY <1>1, UnboundStep
<1>6. SemMapOwn'
  BY <1>1, SemMapOwnStep
<1>7. QueueMapOwn'
  BY <1>1, QueueMapOwnStep
<1>8. QueueKept'
  BY <1>1, QueueKeptStep
<1>9. Tokens'
  BY <1>1, <1>4, TokensStep
<1>10. WakeUps'
  BY <1>1, <1>8, WakeUpsStep
<1>11. InOrder'
  BY <1>1, InOrderStep
<1>12. Arguments'
  BY <1>1, ArgumentsStep
<1>13. HeapLive'
  BY <1>1, HeapLiveStep
<1>14. Permits'
  BY <1>1, PermitsStep
<1> QED
  BY <1>2, <1>3, <1>4, <1>5, <1>6, <1>7, <1>8, <1>9, <1>10, <1>11, <1>12, <1>13, <1>14
     DEF IInv, SessionInv, TokenInv

(* The inductive invariant of the server: the counters, maps, semaphores,     *)
(* queues and permits agree in every reachable state.                         *)
THEOREM Invariance == Spec => []IInv
<1>1. Init => IInv
  BY InitIInv
<1>2. IInv /\ [Next]_vars => IInv'
  BY StepIInv, StutterIInv
<1> QED BY <1>1, <1>2, PTL DEF Spec

-----------------------------------------------------------------------------
(* What follows from it. *)

(* Every variable has its type: in particular user_map never exceeds 2 and no *)
(* semaphore goes below 0.                                                    *)
THEOREM TypeCorrect == Spec => []TypeOK
<1>1. IInv => TypeOK
  BY DEF IInv
<1> QED BY <1>1, Invariance, PTL

(* A session that is past its last wake-up has the transmit thread that       *)
(* signalled it, and that thread has ended.                                   *)
LEMMA SessionEnded ==
  ASSUME IInv, NEW q \in Clients, sem_match[q] # None,
         rpc[sem_match[q]] \in Ending \cup {"done"}
  PROVE  tpc[q] = "done" /\ imgQueue[sem_match[q]] = q
<1>1. /\ sem_match \in [Clients -> Clients \cup {None}]
      /\ imgQueue \in [Clients -> Clients \cup {None}]
  BY DEF IInv, TypeOK
<1>2. PICK r \in Clients : r = sem_match[q]
  BY <1>1
<1>3. imgQueue[r] \in Clients /\ sem_match[imgQueue[r]] = r
  BY <1>1, <1>2 DEF IInv, SessionInv, QueueKept
<1>4. imgQueue[r] = q
  BY <1>2, <1>3 DEF IInv, SessionInv, Bound
<1> QED BY <1>2, <1>4 DEF IInv, TokenInv, WakeUps

(* The two members of a session, while the result thread still runs.          *)
LEMMA RunningSession ==
  ASSUME IInv, NEW q \in Clients, sem_match[q] # None, ~Over(sem_match[q])
  PROVE  /\ UserOf[q] \in Users /\ sem_match[q] \in Clients
         /\ q \in TMembers(UserOf[q]) /\ sem_match[q] \in RMembers(UserOf[q])
<1>1. UserOf[q] \in Users /\ sem_match[q] \in Clients
  BY UserOfAssumption DEF IInv, TypeOK
<1>2. /\ UserOf[sem_match[q]] = UserOf[q] /\ rpc[sem_match[q]] \notin Outside
      /\ tpc[q] \notin Outside
  BY DEF IInv, SessionInv, Bound
<1> QED BY <1>1, <1>2 DEF TMembers, RMembers

(* server_result takes a wake-up with an empty queue for the end of the       *)
(* client (server-OpenCV.cpp:267), and it is right: the transmit thread has   *)
(* hung up and all its frames have been handed out.                           *)
THEOREM EmptyWakes == Spec => []EmptyWakeMeansHangup
<1>1. ASSUME IInv, NEW c \in Clients, rpc[c] \in Ending
      PROVE  \E q \in Clients : /\ imgQueue[c] = q /\ sem_match[q] = c
                                /\ tpc[q] = "done" /\ queue[q] = <<>>
                                /\ \A n \in 1 .. received[q] : c_st[<<q, n>>] # "none"
  <2>1. PICK q \in Clients : q = imgQueue[c] /\ sem_match[q] = c
    BY <1>1 DEF IInv, TypeOK, SessionInv, QueueKept
  <2>2. tpc[q] = "done" /\ queue[q] = <<>>
    BY <1>1, <2>1 DEF IInv, TokenInv, WakeUps
  <2>3. HandedOut(q) = received[q] /\ received[q] \in 0 .. MaxFrames
    BY <1>1, <2>2 DEF IInv, TypeOK, HandedOut
  <2>4. ASSUME NEW n \in 1 .. received[q] PROVE c_st[<<q, n>>] # "none"
    <3>1. n \in 1 .. MaxFrames /\ n <= HandedOut(q)
      BY <2>3, BoundsAssumption
    <3> QED BY <1>1, <3>1 DEF IInv, TokenInv, InOrder
  <2> QED BY <2>1, <2>2, <2>4
<1>2. IInv => EmptyWakeMeansHangup
  BY <1>1 DEF EmptyWakeMeansHangup
<1> QED BY <1>2, Invariance, PTL

(* The erasures by user ID find the entries of the session that ends.         *)
THEOREM OwnErasures == Spec => []ErasesItsOwnEntries
<1>1. ASSUME IInv, NEW c \in Clients
      PROVE  /\ rpc[c] = "erase_sem" => sem_map[UserOf[c]] = c
             /\ rpc[c] \in {"erase_sem", "erase_queue"} =>
                  queue_map[UserOf[c]] = imgQueue[c]
             /\ rpc[c] \in {"erase_sem", "erase_queue", "erase_user"} =>
                  user_map[UserOf[c]] = 2
  <2>1. SUFFICES ASSUME rpc[c] \in {"erase_sem", "erase_queue", "erase_user"}
                 PROVE  /\ rpc[c] = "erase_sem" => sem_map[UserOf[c]] = c
                        /\ rpc[c] # "erase_user" => queue_map[UserOf[c]] = imgQueue[c]
                        /\ user_map[UserOf[c]] = 2
    OBVIOUS
  <2>2. PICK q \in Clients : q = imgQueue[c] /\ sem_match[q] = c
    BY <1>1, <2>1 DEF IInv, TypeOK, SessionInv, QueueKept, Ending
  <2>3. UserOf[q] = UserOf[c] /\ tpc[q] \notin Outside \cup {"open"}
    BY <1>1, <2>2, ClientsAssumption DEF IInv, SessionInv, Bound
  <2>4. /\ UserOf[c] \in Users /\ q \in TMembers(UserOf[c])
        /\ c \in RMembers(UserOf[c])
    BY <1>1, <2>1, <2>2, <2>3, RunningSession, ClientsAssumption DEF Over
  <2>5. user_map[UserOf[c]] = 2 /\ TMembers(UserOf[c]) = {q}
    BY <1>1, <2>4, Crowd DEF IInv, SessionInv
  <2>6. rpc[c] = "erase_sem" => sem_map[UserOf[c]] = c
    BY <1>1, <2>2, <2>3, ClientsAssumption DEF IInv, SessionInv, SemMapOwn, Over
  <2>7. rpc[c] # "erase_user" => queue_map[UserOf[c]] = q
    BY <1>1, <2>1, <2>2, <2>3, <2>5, ClientsAssumption
       DEF IInv, SessionInv, QueueMapOwn, Over
  <2> QED BY <2>2, <2>5, <2>6, <2>7
<1>2. IInv => ErasesItsOwnEntries
  BY <1>1 DEF ErasesItsOwnEntries
<1> QED BY <1>2, Invariance, PTL

(* The transmit thread never posts to a semaphore that has been deleted.      *)
THEOREM NoDeadSemaphore == Spec => []SemaphoresLive
<1>1. ASSUME IInv, NEW c \in Clients, DeadSem(c) PROVE FALSE
  <2>1. /\ tpc[c] \in {"post", "hangup"} /\ sem_match[c] # None
        /\ ~sem_live[sem_match[c]]
    BY <1>1 DEF DeadSem
  <2>2. PICK r \in Clients : r = sem_match[c] /\ rpc[r] \notin Outside \cup {"open"}
    BY <1>1, <2>1 DEF IInv, TypeOK, SessionInv, Bound
  <2>3. rpc[r] # "done"
    BY <1>1, <2>1, <2>2, SessionEnded
  <2> QED BY <1>1, <2>1, <2>2, <2>3 DEF IInv, HeapLive
<1>2. IInv => SemaphoresLive
  BY <1>1 DEF SemaphoresLive
<1> QED BY <1>2, Invariance, PTL

(* server_result never follows a null or deleted queue, but for one that its   *)
(* transmit thread deleted when a file could not be opened.                    *)
THEOREM NoDeadQueue == Spec => []QueuesLive
<1>1. ASSUME IInv, NEW c \in Clients, DeadQueue(c),
             ~(DiskMayFail /\ \E q \in Clients : sem_match[q] = c /\ tpc[q] = "left")
      PROVE  FALSE
  <2>1. ASSUME NEW q \in Clients, sem_match[q] = c, rpc[c] # "done"
        PROVE  queue_live[q]
    <3>1. tpc[q] \notin Outside \cup {"open"}
      BY <1>1, <2>1, ClientsAssumption DEF IInv, SessionInv, Bound
    <3> QED BY <1>1, <2>1, <3>1 DEF IInv, HeapLive
  <2>2. CASE rpc[c] \in {"gate", "spawn", "free"}
    <3>1. imgQueue[c] \in Clients /\ sem_match[imgQueue[c]] = c
      BY <1>1, <2>2 DEF IInv, TypeOK, SessionInv, QueueKept, Ending
    <3> QED BY <1>1, <2>1, <2>2, <3>1 DEF DeadQueue
  <2>3. CASE rpc[c] = "lookup"
    <3>1. CASE imgQueue[c] # None
      <4>1. imgQueue[c] \in Clients /\ sem_match[imgQueue[c]] = c
        BY <1>1, <3>1 DEF IInv, TypeOK, SessionInv, QueueKept
      <4> QED BY <1>1, <2>1, <2>3, <3>1, <4>1 DEF DeadQueue, QueueOf
    <3>2. CASE imgQueue[c] = None
      <4>1. PICK q \in Clients : sem_match[q] = c
        BY <1>1, <2>3 DEF IInv, SessionInv, Unbound, Outside
      <4>2. UserOf[q] = UserOf[c] /\ tpc[q] \notin Outside \cup {"open"}
        BY <1>1, <4>1, ClientsAssumption DEF IInv, SessionInv, Bound
      <4>3. TMembers(UserOf[c]) = {q}
        BY <1>1, <2>3, <4>1, <4>2, RunningSession, Crowd, ClientsAssumption
           DEF IInv, SessionInv, Over
      <4>4. queue_map[UserOf[c]] = q
        BY <1>1, <2>3, <4>1, <4>2, <4>3, ClientsAssumption
           DEF IInv, SessionInv, QueueMapOwn, Over
      <4> QED BY <1>1, <2>1, <2>3, <3>2, <4>1, <4>4, ClientsAssumption
              DEF DeadQueue, QueueOf
    <3> QED BY <3>1, <3>2
  <2> QED BY <1>1, <2>2, <2>3 DEF DeadQueue
<1>2. IInv => QueuesLive
  BY <1>1 DEF QueuesLive
<1> QED BY <1>2, Invariance, PTL

(* user_map keeps a second session of a user out while one is served.         *)
THEOREM NoSecondSession == Spec => []OneSessionPerUser
<1>1. ASSUME IInv, NEW c \in Clients, NEW d \in Clients, c # d,
             UserOf[c] = UserOf[d], tpc[c] # "done", tpc[d] # "done",
             sem_match[c] # None, sem_match[d] # None
      PROVE  FALSE
  <2>1. ~Over(sem_match[c]) /\ ~Over(sem_match[d])
    BY <1>1, SessionEnded DEF Over, Ending
  <2>2. /\ UserOf[c] \in Users /\ c \in TMembers(UserOf[c])
        /\ d \in TMembers(UserOf[c]) /\ sem_match[c] \in RMembers(UserOf[c])
    BY <1>1, <2>1, RunningSession
  <2> QED BY <1>1, <2>2, Crowd DEF IInv, SessionInv
<1>2. IInv => OneSessionPerUser
  BY <1>1 DEF OneSessionPerUser
<1> QED BY <1>2, Invariance, PTL

(* process_sem bounds the matching threads, whatever the number of clients.   *)
THEOREM BoundedChildren == Spec => []ChildrenBounded
<1>1. ASSUME IInv PROVE ChildrenBounded
  <2>1. Matching \subseteq Holders
    BY DEF Matching, Holders
  <2>2. Cardinality(Matching) <= Cardinality(Holders)
    BY <2>1, FiniteCounts, FS_Subset
  <2>3. process_sem + Cardinality(Spawning) + Cardinality(Holders) = MaxImage
        /\ process_sem \in Nat
    BY <1>1 DEF IInv, Permits, TypeOK
  <2> QED BY <2>2, <2>3, FiniteCounts, BoundsAssumption DEF ChildrenBounded
<1>2. IInv => ChildrenBounded
  BY <1>1
<1> QED BY <1>2, Invariance, PTL

(* However the pointer to trans_info is raced, the arguments are those of a   *)
(* frame of the user the result goes to.                                      *)
THEOREM ResultsToTheirUser == Spec => []ResultsStayWithUser
<1>1. ASSUME IInv, NEW f \in Frames, c_st[f] \in {"matching", "done"}
      PROVE  c_img[f] \in Frames /\ UserOf[c_img[f][1]] = UserOf[c_by[f]]
  <2>1. /\ c_by[f] \in Clients /\ c_img[f] \in Frames
        /\ sem_match[c_img[f][1]] = c_by[f]
    BY <1>1 DEF IInv, Arguments
  <2>2. c_img[f][1] \in Clients
    BY <2>1 DEF Frames
  <2> QED BY <1>1, <2>1, <2>2, ClientsAssumption DEF IInv, SessionInv, Bound
<1>2. IInv => ResultsStayWithUser
  BY <1>1 DEF ResultsStayWithUser
<1> QED BY <1>2, Invariance, PTL

(* The frames of a client reach the matching threads in the order they came.  *)
THEOREM OrderKept == Spec => []HandedOutInOrder
<1>1. ASSUME IInv, NEW q \in Clients, NEW n \in 2 .. MaxFrames, c_st[<<q, n>>] # "none"
      PROVE  c_st[<<q, n - 1>>] # "none"
  <2>1. n \in 1 .. MaxFrames /\ n - 1 \in 1 .. MaxFrames /\ HandedOut(q) \in Int
    BY <1>1, BoundsAssumption DEF IInv, TypeOK, HandedOut
  <2>2. n <= HandedOut(q)
    BY <1>1, <2>1 DEF IInv, TokenInv, InOrder
  <2>3. n - 1 <= HandedOut(q)
    BY <2>1, <2>2
  <2> QED BY <1>1, <2>1, <2>3 DEF IInv, TokenInv, InOrder
<1>2. IInv => HandedOutInOrder
  BY <1>1 DEF HandedOutInOrder
<1> QED BY <1>2, Invariance, PTL

(* A user ID is given back only when no thread of the user can use it.        *)
THEOREM LogoutLast == Spec => LogoutIsLast
<1> DEFINE Last == \A u \in Users : user_map[u] # 0 /\ user_map'[u] = 0 =>
                     \A c \in Clients : UserOf[c] = u =>
                       /\ tpc[c] \in {"idle", "header", "refused", "done"}
                       /\ rpc'[c] \in {"idle", "header", "refused", "free", "done"}
<1>1. ASSUME IInv, Next, NEW u \in Users, user_map[u] # 0, user_map'[u] = 0,
             NEW c \in Clients, UserOf[c] = u
      PROVE  /\ tpc[c] \in {"idle", "header", "refused", "done"}
             /\ rpc'[c] \in {"idle", "header", "refused", "free", "done"}
  <2>1. /\ user_map \in [Users -> 0 .. 2] /\ rpc \in [Clients -> RStates]
        /\ sem_match \in [Clients -> Clients \cup {None}]
        /\ tpc \in [Clients -> TStates]
    BY <1>1 DEF IInv, TypeOK
  <2>2. PICK r \in Clients : REraseUser(r)
    <3>1. ASSUME NEW d \in Clients, LoginTransmit(d) \/ LoginResult(d) PROVE FALSE
      BY <1>1, <2>1, <3>1, UserOfAssumption DEF LoginTransmit, LoginResult
    <3>2. user_map' # user_map
      BY <1>1
    <3> QED BY <1>1, <3>1, <3>2, Footprint
  <2>3. /\ rpc[r] = "erase_user" /\ rpc'[r] = "free"
        /\ \A d \in Clients : d # r => rpc'[d] = rpc[d]
        /\ user_map' = [user_map EXCEPT ![UserOf[r]] = 0]
    BY <2>1, <2>2 DEF REraseUser
  <2>4. UserOf[r] = u
    BY <1>1, <2>1, <2>3, UserOfAssumption
  <2>5. PICK q \in Clients : q = imgQueue[r] /\ sem_match[q] = r /\ tpc[q] = "done"
    BY <1>1, <2>3 DEF IInv, TypeOK, SessionInv, QueueKept, TokenInv, WakeUps, Ending
  <2>6. TMembers(u) = {q} /\ RMembers(u) = {r}
    <3>1. q \in TMembers(UserOf[q]) /\ r \in RMembers(UserOf[q])
      BY <1>1, <2>3, <2>5, RunningSession, ClientsAssumption DEF Over
    <3>2. UserOf[q] = u
      BY <2>4, <3>1 DEF RMembers
    <3> QED BY <1>1, <3>1, <3>2, Crowd DEF IInv, SessionInv
  <2>7. tpc[c] \in {"idle", "header", "refused", "done"}
    <3>1. CASE c \in TMembers(u)
      BY <2>5, <2>6, <3>1
    <3>2. CASE c \notin TMembers(u) /\ tpc[c] \notin Outside
      <4>1. sem_match[c] # None /\ Over(sem_match[c])
        BY <1>1, <3>2 DEF TMembers
      <4> QED BY <1>1, <4>1, SessionEnded DEF Over, Ending
    <3> QED BY <3>1, <3>2 DEF Outside
  <2>8. rpc'[c] \in {"idle", "header", "refused", "free", "done"}
    <3>1. CASE c = r
      BY <2>3, <3>1
    <3>2. CASE c # r
      <4>1. c \notin RMembers(u)
        BY <2>6, <3>2
      <4>2. rpc[c] \in Outside \/ Over(c)
        BY <1>1, <4>1 DEF RMembers
      <4> QED BY <2>3, <3>2, <4>2 DEF Outside, Over
    <3> QED BY <3>1, <3>2
  <2> QED BY <2>7, <2>8
<1>2. IInv /\ [Next]_vars => [Last]_vars
  BY <1>1
<1>3. Spec => [][Last]_vars
  BY <1>2, Invariance, PTL DEF Spec
<1> QED BY <1>3 DEF LogoutIsLast
=============================================================================
