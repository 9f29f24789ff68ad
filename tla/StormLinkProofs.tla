--------------------------- MODULE StormLinkProofs ---------------------------
(* Proofs about StormLink.  A frame is first with its session's transmit     *)
(* thread, then in exactly one place of the spout, the bolts or Kafka, and a *)
(* datagram is sent when it leaves that; and the port 9879, once a session   *)
(* has it, stays with it.                                                    *)
EXTENDS StormLink, SequenceTheorems, FiniteSetTheorems, TLAPS

\* TypeOK, in parts; sem is bounded by SemInv and net by NetInv.
ProcType ==
  /\ {kafka, trouble} \subseteq BOOLEAN
  /\ server \in {"start", "asking", "off", "up", "crashed"}
  /\ port \in Sessions \cup {None, "server_run"}
  /\ here \in {"unsent", "sent"} /\ finder \in {"none", "spout"}
  /\ client \in [Sessions -> {"up", "closed"}]

TransType ==
  /\ tpc \in [Sessions -> {"idle", "read", "produce", "connect", "ack", "ack2",
                           "push", "post", "left", "done"}]
  /\ frames \in [Sessions -> Nat] /\ \A s \in Sessions : frames[s] <= FramesOf[s]
  /\ link \in [Sessions -> {"none", "queued", "open", "sized", "acked", "reset"}]

ResType ==
  /\ rpc \in [Sessions -> {"idle", "open", "bind", "wait", "recv", "erase", "done",
                           "lost", "stopped"}]
  /\ sem \in [Sessions -> Nat] /\ sem_live \in [Sessions -> BOOLEAN]
  /\ queue \in [Sessions -> Seq(Frames)] /\ logged_in \in [Sessions -> BOOLEAN]
  /\ got \in [Sessions -> Seq(Frames)]

SpoutType ==
  /\ spc \in {"closed", "accept", "size", "data", "close", "emit"}
  /\ serverSock \in Sessions \cup {None} /\ backlog \in Seq(Sessions)
  /\ img \in Frames \cup {<<None, 0>>}
  /\ spc \in {"size", "data"} => serverSock \in Sessions
  /\ spc \in {"close", "emit"} => img \in Frames

StormType ==
  /\ tuples \subseteq Frames /\ pending \subseteq Frames /\ topic \in Seq(Frames)
  /\ offset \in 0 .. Len(topic)
  /\ replays \in [Frames -> 0 .. MaxReplays] /\ net \in [Frames -> Nat]

\* Between the read of a frame and the push of its name, or the posts.
BeforePush(s) == tpc[s] \in {"produce", "connect", "ack", "ack2", "push", "left"}
InFrame(s) == BeforePush(s) \/ tpc[s] = "post"

FrameInv ==
  \A s \in Sessions :
    /\ tpc[s] = "idle" => frames[s] = 0
    /\ InFrame(s) => frames[s] >= 1
    /\ kafka => tpc[s] \notin {"connect", "ack", "ack2", "left"}
    /\ ~kafka => tpc[s] # "produce"

\* The parts that the option leaves idle.
ModeInv ==
  /\ kafka => spc = "closed" /\ backlog = <<>> /\ tuples = {}
  /\ ~kafka => topic = <<>> /\ pending = {} /\ offset = 0

\* A session that has the port never gives it back.
HasPort(s) == rpc[s] \in {"wait", "recv", "erase", "done", "lost"}

PortInv ==
  /\ \A s \in Sessions : port = s <=> HasPort(s)
  /\ server \in {"start", "asking", "off"} =>
       \A s \in Sessions : tpc[s] = "idle" /\ rpc[s] = "idle"

\* The connection of a session to the spout, at both of its ends.
LinkInv ==
  /\ \A s \in Sessions :
       /\ link[s] = "none" <=> tpc[s] \notin {"ack", "ack2", "left"}
       /\ link[s] = "queued" => tpc[s] = "ack" /\ s \in ToSet(backlog)
       /\ link[s] = "open" => tpc[s] = "ack" /\ spc = "size" /\ serverSock = s
       /\ link[s] = "sized" => tpc[s] # "left" /\ spc = "data" /\ serverSock = s
       /\ link[s] = "acked" => tpc[s] = "ack2"
       /\ link[s] = "reset" => tpc[s] # "ack2"
  /\ \A i \in 1 .. Len(backlog) : link[backlog[i]] = "queued"
  /\ \A i, j \in 1 .. Len(backlog) : backlog[i] = backlog[j] => i = j
  /\ spc = "size" => link[serverSock] = "open"
  /\ spc = "data" => link[serverSock] = "sized"
  /\ spc \in {"closed", "emit"} => backlog = <<>>

\* The frame is not read yet, or the transmit thread still has it.
Ahead(f) ==
  \/ f[2] > frames[f[1]]
  \/ /\ f[2] = frames[f[1]]
     /\ \/ tpc[f[1]] \in {"produce", "connect", "ack", "left"}
        \/ tpc[f[1]] = "ack2" /\ link[f[1]] # "acked"

InSpout(f) == spc \in {"close", "emit"} /\ img = f
InTopic(f) == \E i \in offset + 1 .. Len(topic) : topic[i] = f

\* Whoever has a frame has it from the transmit thread, and is the only one.
PlaceInv ==
  /\ \A f \in Frames :
       /\ f \in tuples \/ InSpout(f) \/ net[f] > 0 => ~Ahead(f)
       /\ f \in tuples => ~InSpout(f)
       /\ f \in pending => \E i \in 1 .. offset : topic[i] = f
  /\ \A i \in 1 .. Len(topic) : ~Ahead(topic[i])
  /\ \A i, j \in 1 .. Len(topic) : topic[i] = topic[j] => i = j

\* The emissions of a frame's tuple that are over, each of which may have sent a
\* datagram; the results received and those on their way are never more.
ToMatch(f) == Ahead(f) \/ f \in tuples \/ InSpout(f) \/ f \in pending \/ InTopic(f)

Emissions(f) == replays[f] + (IF ToMatch(f) THEN 0 ELSE 1)

NetInv ==
  \A f \in Frames : /\ IsFiniteSet(Receptions(f))
                    /\ Cardinality(Receptions(f)) + net[f] <= Emissions(f)

\* The result thread beside the transmit thread of its session.
SessionInv ==
  \A s \in Sessions :
    /\ rpc[s] = "idle" <=> tpc[s] = "idle"
    /\ sem_live[s] <=> rpc[s] \in {"bind", "wait", "recv", "erase", "lost"}
    /\ rpc[s] \in {"idle", "open"} => queue[s] = <<>> /\ sem[s] = 0
    /\ got[s] # <<>> => HasPort(s)
    /\ rpc[s] = "open" =>
         \/ tpc[s] = "read" /\ frames[s] = 0
         \/ BeforePush(s) /\ frames[s] = 1
         \/ tpc[s] = "done" /\ frames[s] = 0 /\ server = "crashed"

\* While the thread runs, every frame pushed is queued, asked for, or answered,
\* and every post, the last of the hangup too, is taken or waits.
Asked(s) == Len(got[s]) + (IF rpc[s] = "recv" THEN 1 ELSE 0)
Counted(s) ==
  /\ Len(queue[s]) + Asked(s) = frames[s] - (IF BeforePush(s) THEN 1 ELSE 0)
  /\ sem[s] + Asked(s) = frames[s] - (IF InFrame(s) THEN 1 ELSE 0)
                         + (IF tpc[s] = "done" /\ frames[s] > 0 THEN 1 ELSE 0)

CountInv ==
  \A s \in Sessions : rpc[s] \in {"open", "bind", "wait", "recv"} => Counted(s)

SemInv ==
  \A s \in Sessions :
    sem[s] <= frames[s] - (IF InFrame(s) THEN 1 ELSE 0)
              + (IF tpc[s] = "done" THEN 1 ELSE 0)

\* What is queued, and what has been received, was handed over.
QueueInv ==
  \A s \in Sessions :
    /\ \A i \in 1 .. Len(queue[s]) : ~Ahead(queue[s][i])
    /\ \A i \in 1 .. Len(got[s]) : ~Ahead(got[s][i])

\* Without Kafka and without an error, a frame handed over is with the spout or
\* a bolt, on its way back, or received.
HandedInv ==
  ~kafka /\ ~trouble =>
    \A f \in Frames :
      Ahead(f) \/ f \in tuples \/ InSpout(f) \/ net[f] > 0 \/ Received(f)

IInv ==
  /\ ProcType /\ TransType /\ ResType /\ SpoutType /\ StormType
  /\ FrameInv /\ ModeInv /\ PortInv /\ LinkInv /\ PlaceInv /\ NetInv
  /\ SessionInv /\ CountInv /\ SemInv /\ QueueInv /\ HandedInv
  /\ LogoutMeansHangup
-----------------------------------------------------------------------------
(* The steps of Next, one disjunct each. *)
LEMMA NextSteps ==
  ASSUME Next
  PROVE  \/ Start \/ Told \/ Here
         \/ \E s \in Sessions :
              \/ Close(s) \/ Begin(s) \/ TRead(s) \/ TProduce(s) \/ TConnect(s)
              \/ TImage(s) \/ TAck(s) \/ TReset(s) \/ TPush(s) \/ TPost(s) \/ THangup(s)
              \/ ROpen(s) \/ RBind(s) \/ RWait(s) \/ RRecv(s) \/ RFree(s)
         \/ PListen \/ PAccept \/ PSize \/ PData \/ PClose \/ PEmit \/ KEmit
         \/ \E f \in Frames : BMatch(f) \/ KMatch(f) \/ Lose(f)
BY DEF Next, ServerStep, Transmit, Result, Spout, Matching

(* A frame is its session and its number. *)
LEMMA FrameFacts ==
  /\ \A f \in Frames : /\ f[1] \in Sessions /\ f[2] \in Nat /\ f[2] >= 1
                       /\ f[2] <= FramesOf[f[1]] /\ f = <<f[1], f[2]>>
  /\ \A s \in Sessions : \A n \in 1 .. FramesOf[s] : <<s, n>> \in Frames
<1>1. \A s \in Sessions : FramesOf[s] \in Nat
  BY BoundsAssumption
<1>2. \A f \in Frames : \E s \in Sessions : f \in {s} \X (1 .. FramesOf[s])
  BY DEF Frames
<1>3. \A s \in Sessions : \A n \in 1 .. FramesOf[s] : <<s, n>> \in {s} \X (1 .. FramesOf[s])
  OBVIOUS
<1> QED BY <1>1, <1>2, <1>3 DEF Frames

\* Inside a frame the transmit thread's frame is one of the session's.
LEMMA ReadFrame ==
  ASSUME TransType, FrameInv, NEW s \in Sessions, InFrame(s)
  PROVE  /\ Frame(s) \in Frames /\ Frame(s)[1] = s /\ Frame(s)[2] = frames[s]
         /\ frames[s] \in Nat /\ frames[s] >= 1
<1>1. frames[s] \in 1 .. FramesOf[s]
  BY BoundsAssumption DEF TransType, FrameInv
<1> QED BY <1>1, FrameFacts DEF Frame

(* A sequence without its head, and with one more element. *)
LEMMA HeadFacts ==
  ASSUME NEW S, NEW q \in Seq(S), q # <<>>
  PROVE  /\ Len(q) \in Nat /\ Len(q) >= 1 /\ q[1] \in S /\ Head(q) = q[1]
         /\ Tail(q) \in Seq(S) /\ Len(Tail(q)) = Len(q) - 1
         /\ \A i \in 1 .. Len(Tail(q)) : i + 1 \in 1 .. Len(q) /\ Tail(q)[i] = q[i + 1]
<1>1. /\ Len(q) \in Nat /\ Len(q) >= 1 /\ q[1] \in S /\ Head(q) = q[1]
      /\ Tail(q) \in Seq(S) /\ Len(Tail(q)) = Len(q) - 1
  OBVIOUS
<1>2. \A i \in 1 .. Len(Tail(q)) : i + 1 \in 1 .. Len(q) /\ Tail(q)[i] = q[i + 1]
  BY <1>1, HeadTailProperties
<1> QED BY <1>1, <1>2

\* An appended sequence is one longer, with the new element last.
LEMMA AppendFacts ==
  ASSUME NEW S, NEW q \in Seq(S), NEW e \in S
  PROVE  /\ Append(q, e) \in Seq(S) /\ Append(q, e) # <<>> /\ Len(q) \in Nat
         /\ Len(Append(q, e)) = Len(q) + 1 /\ Append(q, e)[Len(q) + 1] = e
         /\ \A i \in 1 .. Len(q) : Append(q, e)[i] = q[i]
OBVIOUS

\* The elements of a sequence are those at its places.
LEMMA InSet ==
  ASSUME NEW S, NEW q \in Seq(S), NEW e
  PROVE  e \in ToSet(q) <=> \E i \in 1 .. Len(q) : q[i] = e
BY DEF ToSet

(* Types are kept: the processes and the clients. *)
LEMMA ProcTypeStep ==
  ASSUME ProcType, TransType, Next
  PROVE  ProcType'
<1> USE DEF process, finding, transmit, result, spout, storm
<1>1. ASSUME Start PROVE ProcType'
  BY <1>1 DEF Start, ProcType
<1>2. ASSUME Told PROVE ProcType'
  BY <1>2 DEF Told, ProcType, SpoutIP
<1>3. ASSUME Here PROVE ProcType'
  BY <1>3 DEF Here, ProcType, Found
<1>4. ASSUME NEW s \in Sessions, Close(s) PROVE ProcType'
  BY <1>4 DEF Close, ProcType
<1>5. ASSUME NEW s \in Sessions, Begin(s) PROVE ProcType'
  BY <1>5 DEF Begin, ProcType
<1>6. ASSUME NEW s \in Sessions, TRead(s) PROVE ProcType'
  BY <1>6 DEF TRead, ProcType, TGoto
<1>7. ASSUME NEW s \in Sessions, TProduce(s) PROVE ProcType'
  BY <1>7 DEF TProduce, ProcType, TGoto, Frame
<1>8. ASSUME NEW s \in Sessions, TConnect(s) PROVE ProcType'
  BY <1>8 DEF TConnect, ProcType, TGoto, Link
<1>9. ASSUME NEW s \in Sessions, TImage(s) PROVE ProcType'
  BY <1>9 DEF TImage, ProcType, TGoto
<1>10. ASSUME NEW s \in Sessions, TAck(s) PROVE ProcType'
  BY <1>10 DEF TAck, ProcType, TGoto, Link
<1>11. ASSUME NEW s \in Sessions, TReset(s) PROVE ProcType'
  BY <1>11 DEF TReset, ProcType, TGoto
<1>12. ASSUME NEW s \in Sessions, TPush(s) PROVE ProcType'
  BY <1>12 DEF TPush, ProcType, TGoto, Frame
<1>13. ASSUME NEW s \in Sessions, TPost(s) PROVE ProcType'
  BY <1>13 DEF TPost, ProcType, TGoto, Post
<1>14. ASSUME NEW s \in Sessions, THangup(s) PROVE ProcType'
  BY <1>14 DEF THangup, ProcType, TGoto, Post
<1>15. ASSUME NEW s \in Sessions, ROpen(s) PROVE ProcType'
  BY <1>15 DEF ROpen, ProcType, RGoto
<1>16. ASSUME NEW s \in Sessions, RBind(s) PROVE ProcType'
  BY <1>16 DEF RBind, ProcType, RGoto
<1>17. ASSUME NEW s \in Sessions, RWait(s) PROVE ProcType'
  BY <1>17 DEF RWait, ProcType, RGoto
<1>18. ASSUME NEW s \in Sessions, RRecv(s) PROVE ProcType'
  BY <1>18 DEF RRecv, ProcType, RGoto
<1>19. ASSUME NEW s \in Sessions, RFree(s) PROVE ProcType'
  BY <1>19 DEF RFree, ProcType, RGoto
<1>20. ASSUME PListen PROVE ProcType'
  BY <1>20 DEF PListen, ProcType, Spouting
<1>21. ASSUME PAccept PROVE ProcType'
  BY <1>21 DEF PAccept, ProcType, Spouting, Link
<1>22. ASSUME PSize PROVE ProcType'
  BY <1>22 DEF PSize, ProcType, Spouting, Link
<1>23. ASSUME PData PROVE ProcType'
  BY <1>23 DEF PData, ProcType, Spouting, Link, Frame
<1>24. ASSUME PClose PROVE ProcType'
  BY <1>24 DEF PClose, ProcType, Spouting
<1>25. ASSUME PEmit PROVE ProcType'
  BY <1>25 DEF PEmit, ProcType, Spouting
<1>26. ASSUME KEmit PROVE ProcType'
  BY <1>26 DEF KEmit, ProcType
<1>27. ASSUME NEW f \in Frames, BMatch(f) PROVE ProcType'
  BY <1>27 DEF BMatch, ProcType
<1>28. ASSUME NEW f \in Frames, KMatch(f) PROVE ProcType'
  BY <1>28 DEF KMatch, ProcType
<1>29. ASSUME NEW f \in Frames, Lose(f) PROVE ProcType'
  BY <1>29 DEF Lose, ProcType
<1> QED BY <1>1, <1>2, <1>3, <1>4, <1>5, <1>6, <1>7, <1>8, <1>9, <1>10, <1>11, <1>12, <1>13, <1>14, <1>15, <1>16, <1>17, <1>18, <1>19, <1>20, <1>21, <1>22, <1>23, <1>24, <1>25, <1>26, <1>27, <1>28, <1>29, NextSteps

(* The transmit threads. *)
LEMMA TransTypeStep ==
  ASSUME TransType, SpoutType, Next
  PROVE  TransType'
<1> USE DEF process, finding, transmit, result, spout, storm
<1>1. ASSUME Start PROVE TransType'
  BY <1>1 DEF Start, TransType
<1>2. ASSUME Told PROVE TransType'
  BY <1>2 DEF Told, TransType, SpoutIP
<1>3. ASSUME Here PROVE TransType'
  BY <1>3 DEF Here, TransType, Found
<1>4. ASSUME NEW s \in Sessions, Close(s) PROVE TransType'
  BY <1>4 DEF Close, TransType
<1>5. ASSUME NEW s \in Sessions, Begin(s) PROVE TransType'
  BY <1>5 DEF Begin, TransType
<1>6. ASSUME NEW s \in Sessions, TRead(s) PROVE TransType'
  <2>1. frames' = [frames EXCEPT ![s] = frames[s] + 1] /\ frames[s] < FramesOf[s]
        /\ tpc' = [tpc EXCEPT ![s] = IF kafka THEN "produce" ELSE "connect"] /\ link' = link
    BY <1>6 DEF TRead, TGoto
  <2>2. frames[s] \in Nat /\ FramesOf[s] \in Nat
    BY BoundsAssumption DEF TransType
  <2>3. frames[s] + 1 \in Nat /\ frames[s] + 1 <= FramesOf[s]
    BY <2>1, <2>2
  <2>4. frames' \in [Sessions -> Nat] /\ \A t \in Sessions : frames'[t] <= FramesOf[t]
    BY <2>1, <2>3 DEF TransType
  <2>5. tpc' = [tpc EXCEPT ![s] = "produce"] \/ tpc' = [tpc EXCEPT ![s] = "connect"]
    BY <2>1
  <2>6. tpc' \in [Sessions -> {"idle", "read", "produce", "connect", "ack", "ack2",
                              "push", "post", "left", "done"}]
    BY <2>5 DEF TransType
  <2> QED BY <2>1, <2>4, <2>6 DEF TransType
<1>7. ASSUME NEW s \in Sessions, TProduce(s) PROVE TransType'
  BY <1>7 DEF TProduce, TransType, TGoto, Frame
<1>8. ASSUME NEW s \in Sessions, TConnect(s) PROVE TransType'
  BY <1>8 DEF TConnect, TransType, TGoto, Link
<1>9. ASSUME NEW s \in Sessions, TImage(s) PROVE TransType'
  BY <1>9 DEF TImage, TransType, TGoto
<1>10. ASSUME NEW s \in Sessions, TAck(s) PROVE TransType'
  BY <1>10 DEF TAck, TransType, TGoto, Link
<1>11. ASSUME NEW s \in Sessions, TReset(s) PROVE TransType'
  BY <1>11 DEF TReset, TransType, TGoto
<1>12. ASSUME NEW s \in Sessions, TPush(s) PROVE TransType'
  BY <1>12 DEF TPush, TransType, TGoto, Frame
<1>13. ASSUME NEW s \in Sessions, TPost(s) PROVE TransType'
  BY <1>13 DEF TPost, TransType, TGoto, Post
<1>14. ASSUME NEW s \in Sessions, THangup(s) PROVE TransType'
  BY <1>14 DEF THangup, TransType, TGoto, Post
<1>15. ASSUME NEW s \in Sessions, ROpen(s) PROVE TransType'
  BY <1>15 DEF ROpen, TransType, RGoto
<1>16. ASSUME NEW s \in Sessions, RBind(s) PROVE TransType'
  BY <1>16 DEF RBind, TransType, RGoto
<1>17. ASSUME NEW s \in Sessions, RWait(s) PROVE TransType'
  BY <1>17 DEF RWait, TransType, RGoto
<1>18. ASSUME NEW s \in Sessions, RRecv(s) PROVE TransType'
  BY <1>18 DEF RRecv, TransType, RGoto
<1>19. ASSUME NEW s \in Sessions, RFree(s) PROVE TransType'
  BY <1>19 DEF RFree, TransType, RGoto
<1>20. ASSUME PListen PROVE TransType'
  BY <1>20 DEF PListen, TransType, Spouting
<1>21. ASSUME PAccept PROVE TransType'
  BY <1>21 DEF PAccept, TransType, Spouting, Link
<1>22. ASSUME PSize PROVE TransType'
  BY <1>22 DEF PSize, TransType, Spouting, Link
<1>23. ASSUME PData PROVE TransType'
  BY <1>23 DEF PData, TransType, Spouting, Link, Frame
<1>24. ASSUME PClose PROVE TransType'
  BY <1>24 DEF PClose, TransType, Spouting
<1>25. ASSUME PEmit PROVE TransType'
  BY <1>25 DEF PEmit, TransType, Spouting
<1>26. ASSUME KEmit PROVE TransType'
  BY <1>26 DEF KEmit, TransType
<1>27. ASSUME NEW f \in Frames, BMatch(f) PROVE TransType'
  BY <1>27 DEF BMatch, TransType
<1>28. ASSUME NEW f \in Frames, KMatch(f) PROVE TransType'
  BY <1>28 DEF KMatch, TransType
<1>29. ASSUME NEW f \in Frames, Lose(f) PROVE TransType'
  BY <1>29 DEF Lose, TransType
<1> QED BY <1>1, <1>2, <1>3, <1>4, <1>5, <1>6, <1>7, <1>8, <1>9, <1>10, <1>11, <1>12, <1>13, <1>14, <1>15, <1>16, <1>17, <1>18, <1>19, <1>20, <1>21, <1>22, <1>23, <1>24, <1>25, <1>26, <1>27, <1>28, <1>29, NextSteps

(* The result threads. *)
LEMMA ResTypeStep ==
  ASSUME TransType, FrameInv, ResType, Next
  PROVE  ResType'
<1> USE DEF process, finding, transmit, result, spout, storm
<1>1. ASSUME Start PROVE ResType'
  BY <1>1 DEF Start, ResType
<1>2. ASSUME Told PROVE ResType'
  BY <1>2 DEF Told, ResType, SpoutIP
<1>3. ASSUME Here PROVE ResType'
  BY <1>3 DEF Here, ResType, Found
<1>4. ASSUME NEW s \in Sessions, Close(s) PROVE ResType'
  BY <1>4 DEF Close, ResType
<1>5. ASSUME NEW s \in Sessions, Begin(s) PROVE ResType'
  BY <1>5 DEF Begin, ResType
<1>6. ASSUME NEW s \in Sessions, TRead(s) PROVE ResType'
  BY <1>6 DEF TRead, ResType, TGoto
<1>7. ASSUME NEW s \in Sessions, TProduce(s) PROVE ResType'
  BY <1>7 DEF TProduce, ResType, TGoto, Frame
<1>8. ASSUME NEW s \in Sessions, TConnect(s) PROVE ResType'
  BY <1>8 DEF TConnect, ResType, TGoto, Link
<1>9. ASSUME NEW s \in Sessions, TImage(s) PROVE ResType'
  BY <1>9 DEF TImage, ResType, TGoto
<1>10. ASSUME NEW s \in Sessions, TAck(s) PROVE ResType'
  BY <1>10 DEF TAck, ResType, TGoto, Link
<1>11. ASSUME NEW s \in Sessions, TReset(s) PROVE ResType'
  BY <1>11 DEF TReset, ResType, TGoto
<1>12. ASSUME NEW s \in Sessions, TPush(s) PROVE ResType'
  <2>1. Frame(s) \in Frames
    BY <1>12, ReadFrame DEF TPush, InFrame, BeforePush
  <2>2. Append(queue[s], Frame(s)) \in Seq(Frames)
    BY <2>1, AppendFacts DEF ResType
  <2>3. queue' = [queue EXCEPT ![s] = Append(queue[s], Frame(s))]
        /\ UNCHANGED <<rpc, sem, sem_live, logged_in, got>>
    BY <1>12 DEF TPush
  <2> QED BY <2>2, <2>3 DEF ResType
<1>13. ASSUME NEW s \in Sessions, TPost(s) PROVE ResType'
  <2>1. UNCHANGED <<rpc, sem_live, queue, logged_in, got>>
    BY <1>13 DEF TPost
  <2>2. CASE sem' = sem
    BY <2>1, <2>2 DEF ResType
  <2>3. CASE sem' = [sem EXCEPT ![s] = sem[s] + 1]
    BY <2>1, <2>3 DEF ResType
  <2> QED BY <1>13, <2>2, <2>3 DEF TPost, Post
<1>14. ASSUME NEW s \in Sessions, THangup(s) PROVE ResType'
  <2>1. UNCHANGED <<rpc, sem_live, queue, logged_in, got>>
    BY <1>14 DEF THangup
  <2>2. CASE sem' = sem
    BY <2>1, <2>2 DEF ResType
  <2>3. CASE sem' = [sem EXCEPT ![s] = sem[s] + 1]
    BY <2>1, <2>3 DEF ResType
  <2> QED BY <1>14, <2>2, <2>3 DEF THangup, Post
<1>15. ASSUME NEW s \in Sessions, ROpen(s) PROVE ResType'
  BY <1>15 DEF ROpen, ResType, RGoto
<1>16. ASSUME NEW s \in Sessions, RBind(s) PROVE ResType'
  BY <1>16 DEF RBind, ResType, RGoto
<1>17. ASSUME NEW s \in Sessions, RWait(s) PROVE ResType'
  <2>1. /\ sem' = [sem EXCEPT ![s] = sem[s] - 1] /\ sem[s] > 0
        /\ rpc' \in {[rpc EXCEPT ![s] = "erase"], [rpc EXCEPT ![s] = "recv"]}
        /\ queue' = queue \/ (queue[s] # <<>> /\ queue' = [queue EXCEPT ![s] = Tail(queue[s])])
        /\ UNCHANGED <<sem_live, logged_in, got>>
    BY <1>17 DEF RWait, RGoto
  <2>2. sem' \in [Sessions -> Nat]
    BY <2>1 DEF ResType
  <2>3. queue' \in [Sessions -> Seq(Frames)]
    <3>1. queue[s] # <<>> => Tail(queue[s]) \in Seq(Frames)
      BY HeadFacts DEF ResType
    <3> QED BY <2>1, <3>1 DEF ResType
  <2> QED BY <2>1, <2>2, <2>3 DEF ResType
<1>18. ASSUME NEW s \in Sessions, RRecv(s) PROVE ResType'
  <2>1. PICK f \in Frames :
          /\ got' \in {got, [got EXCEPT ![s] = Append(got[s], f)]}
          /\ rpc' \in {[rpc EXCEPT ![s] = "wait"], [rpc EXCEPT ![s] = "lost"]}
          /\ UNCHANGED <<sem, sem_live, queue, logged_in>>
    BY <1>18 DEF RRecv, RGoto
  <2>2. Append(got[s], f) \in Seq(Frames)
    BY AppendFacts DEF ResType
  <2>3. got' \in [Sessions -> Seq(Frames)]
    BY <2>1, <2>2, ZenonT(60) DEF ResType
  <2> QED BY <2>1, <2>3 DEF ResType
<1>19. ASSUME NEW s \in Sessions, RFree(s) PROVE ResType'
  BY <1>19 DEF RFree, ResType, RGoto
<1>20. ASSUME PListen PROVE ResType'
  BY <1>20 DEF PListen, ResType, Spouting
<1>21. ASSUME PAccept PROVE ResType'
  BY <1>21 DEF PAccept, ResType, Spouting, Link
<1>22. ASSUME PSize PROVE ResType'
  BY <1>22 DEF PSize, ResType, Spouting, Link
<1>23. ASSUME PData PROVE ResType'
  BY <1>23 DEF PData, ResType, Spouting, Link, Frame
<1>24. ASSUME PClose PROVE ResType'
  BY <1>24 DEF PClose, ResType, Spouting
<1>25. ASSUME PEmit PROVE ResType'
  BY <1>25 DEF PEmit, ResType, Spouting
<1>26. ASSUME KEmit PROVE ResType'
  BY <1>26 DEF KEmit, ResType
<1>27. ASSUME NEW f \in Frames, BMatch(f) PROVE ResType'
  BY <1>27 DEF BMatch, ResType
<1>28. ASSUME NEW f \in Frames, KMatch(f) PROVE ResType'
  BY <1>28 DEF KMatch, ResType
<1>29. ASSUME NEW f \in Frames, Lose(f) PROVE ResType'
  BY <1>29 DEF Lose, ResType
<1> QED BY <1>1, <1>2, <1>3, <1>4, <1>5, <1>6, <1>7, <1>8, <1>9, <1>10, <1>11, <1>12, <1>13, <1>14, <1>15, <1>16, <1>17, <1>18, <1>19, <1>20, <1>21, <1>22, <1>23, <1>24, <1>25, <1>26, <1>27, <1>28, <1>29, NextSteps

(* The spout. *)
LEMMA SpoutTypeStep ==
  ASSUME TransType, FrameInv, SpoutType, LinkInv, Next
  PROVE  SpoutType'
<1> USE DEF process, finding, transmit, result, spout, storm
<1>1. ASSUME Start PROVE SpoutType'
  BY <1>1 DEF Start, SpoutType
<1>2. ASSUME Told PROVE SpoutType'
  BY <1>2 DEF Told, SpoutType, SpoutIP
<1>3. ASSUME Here PROVE SpoutType'
  BY <1>3 DEF Here, SpoutType, Found
<1>4. ASSUME NEW s \in Sessions, Close(s) PROVE SpoutType'
  BY <1>4 DEF Close, SpoutType
<1>5. ASSUME NEW s \in Sessions, Begin(s) PROVE SpoutType'
  BY <1>5 DEF Begin, SpoutType
<1>6. ASSUME NEW s \in Sessions, TRead(s) PROVE SpoutType'
  BY <1>6 DEF TRead, SpoutType, TGoto
<1>7. ASSUME NEW s \in Sessions, TProduce(s) PROVE SpoutType'
  BY <1>7 DEF TProduce, SpoutType, TGoto, Frame
<1>8. ASSUME NEW s \in Sessions, TConnect(s) PROVE SpoutType'
  BY <1>8 DEF TConnect, SpoutType, TGoto, Link
<1>9. ASSUME NEW s \in Sessions, TImage(s) PROVE SpoutType'
  BY <1>9 DEF TImage, SpoutType, TGoto
<1>10. ASSUME NEW s \in Sessions, TAck(s) PROVE SpoutType'
  BY <1>10 DEF TAck, SpoutType, TGoto, Link
<1>11. ASSUME NEW s \in Sessions, TReset(s) PROVE SpoutType'
  BY <1>11 DEF TReset, SpoutType, TGoto
<1>12. ASSUME NEW s \in Sessions, TPush(s) PROVE SpoutType'
  BY <1>12 DEF TPush, SpoutType, TGoto, Frame
<1>13. ASSUME NEW s \in Sessions, TPost(s) PROVE SpoutType'
  BY <1>13 DEF TPost, SpoutType, TGoto, Post
<1>14. ASSUME NEW s \in Sessions, THangup(s) PROVE SpoutType'
  BY <1>14 DEF THangup, SpoutType, TGoto, Post
<1>15. ASSUME NEW s \in Sessions, ROpen(s) PROVE SpoutType'
  BY <1>15 DEF ROpen, SpoutType, RGoto
<1>16. ASSUME NEW s \in Sessions, RBind(s) PROVE SpoutType'
  BY <1>16 DEF RBind, SpoutType, RGoto
<1>17. ASSUME NEW s \in Sessions, RWait(s) PROVE SpoutType'
  BY <1>17 DEF RWait, SpoutType, RGoto
<1>18. ASSUME NEW s \in Sessions, RRecv(s) PROVE SpoutType'
  BY <1>18 DEF RRecv, SpoutType, RGoto
<1>19. ASSUME NEW s \in Sessions, RFree(s) PROVE SpoutType'
  BY <1>19 DEF RFree, SpoutType, RGoto
<1>20. ASSUME PListen PROVE SpoutType'
  BY <1>20 DEF PListen, SpoutType, Spouting
<1>21. ASSUME PAccept PROVE SpoutType'
  BY <1>21 DEF PAccept, SpoutType, Spouting, Link
<1>22. ASSUME PSize PROVE SpoutType'
  BY <1>22 DEF PSize, SpoutType, Spouting, Link
<1>23. ASSUME PData PROVE SpoutType'
  <2>1. serverSock \in Sessions /\ spc' = "close" /\ img' = Frame(serverSock)
        /\ serverSock' = serverSock /\ backlog' = backlog /\ tpc[serverSock] = "ack2"
    BY <1>23 DEF PData, Spouting, SpoutType
  <2>2. Frame(serverSock) \in Frames
    BY <2>1, ReadFrame DEF InFrame, BeforePush
  <2> QED BY <2>1, <2>2 DEF SpoutType
<1>24. ASSUME PClose PROVE SpoutType'
  BY <1>24 DEF PClose, SpoutType, Spouting
<1>25. ASSUME PEmit PROVE SpoutType'
  BY <1>25 DEF PEmit, SpoutType, Spouting
<1>26. ASSUME KEmit PROVE SpoutType'
  BY <1>26 DEF KEmit, SpoutType
<1>27. ASSUME NEW f \in Frames, BMatch(f) PROVE SpoutType'
  BY <1>27 DEF BMatch, SpoutType
<1>28. ASSUME NEW f \in Frames, KMatch(f) PROVE SpoutType'
  BY <1>28 DEF KMatch, SpoutType
<1>29. ASSUME NEW f \in Frames, Lose(f) PROVE SpoutType'
  BY <1>29 DEF Lose, SpoutType
<1> QED BY <1>1, <1>2, <1>3, <1>4, <1>5, <1>6, <1>7, <1>8, <1>9, <1>10, <1>11, <1>12, <1>13, <1>14, <1>15, <1>16, <1>17, <1>18, <1>19, <1>20, <1>21, <1>22, <1>23, <1>24, <1>25, <1>26, <1>27, <1>28, <1>29, NextSteps

(* Storm and Kafka. *)
LEMMA StormTypeStep ==
  ASSUME TransType, FrameInv, SpoutType, StormType, Next
  PROVE  StormType'
<1> USE DEF process, finding, transmit, result, spout, storm
<1>1. ASSUME Start PROVE StormType'
  BY <1>1 DEF Start, StormType
<1>2. ASSUME Told PROVE StormType'
  BY <1>2 DEF Told, StormType, SpoutIP
<1>3. ASSUME Here PROVE StormType'
  BY <1>3 DEF Here, StormType, Found
<1>4. ASSUME NEW s \in Sessions, Close(s) PROVE StormType'
  BY <1>4 DEF Close, StormType
<1>5. ASSUME NEW s \in Sessions, Begin(s) PROVE StormType'
  BY <1>5 DEF Begin, StormType
<1>6. ASSUME NEW s \in Sessions, TRead(s) PROVE StormType'
  BY <1>6 DEF TRead, StormType, TGoto
<1>7. ASSUME NEW s \in Sessions, TProduce(s) PROVE StormType'
  <2>1. Frame(s) \in Frames
    BY <1>7, ReadFrame DEF TProduce, InFrame, BeforePush
  <2>2. UNCHANGED <<tuples, offset, pending, replays, net>>
    BY <1>7 DEF TProduce
  <2>3. CASE topic' = topic
    BY <2>2, <2>3 DEF StormType
  <2>4. CASE topic' = Append(topic, Frame(s))
    <3>1. topic' \in Seq(Frames) /\ Len(topic') = Len(topic) + 1 /\ Len(topic) \in Nat
      BY <2>1, <2>4, AppendFacts DEF StormType
    <3>2. offset \in 0 .. Len(topic')
      BY <3>1 DEF StormType
    <3> QED BY <2>2, <3>1, <3>2 DEF StormType
  <2> QED BY <1>7, <2>3, <2>4 DEF TProduce
<1>8. ASSUME NEW s \in Sessions, TConnect(s) PROVE StormType'
  BY <1>8 DEF TConnect, StormType, TGoto, Link
<1>9. ASSUME NEW s \in Sessions, TImage(s) PROVE StormType'
  BY <1>9 DEF TImage, StormType, TGoto
<1>10. ASSUME NEW s \in Sessions, TAck(s) PROVE StormType'
  BY <1>10 DEF TAck, StormType, TGoto, Link
<1>11. ASSUME NEW s \in Sessions, TReset(s) PROVE StormType'
  BY <1>11 DEF TReset, StormType, TGoto
<1>12. ASSUME NEW s \in Sessions, TPush(s) PROVE StormType'
  BY <1>12 DEF TPush, StormType, TGoto, Frame
<1>13. ASSUME NEW s \in Sessions, TPost(s) PROVE StormType'
  BY <1>13 DEF TPost, StormType, TGoto, Post
<1>14. ASSUME NEW s \in Sessions, THangup(s) PROVE StormType'
  BY <1>14 DEF THangup, StormType, TGoto, Post
<1>15. ASSUME NEW s \in Sessions, ROpen(s) PROVE StormType'
  BY <1>15 DEF ROpen, StormType, RGoto
<1>16. ASSUME NEW s \in Sessions, RBind(s) PROVE StormType'
  BY <1>16 DEF RBind, StormType, RGoto
<1>17. ASSUME NEW s \in Sessions, RWait(s) PROVE StormType'
  BY <1>17 DEF RWait, StormType, RGoto
<1>18. ASSUME NEW s \in Sessions, RRecv(s) PROVE StormType'
  BY <1>18 DEF RRecv, StormType, RGoto
<1>19. ASSUME NEW s \in Sessions, RFree(s) PROVE StormType'
  BY <1>19 DEF RFree, StormType, RGoto
<1>20. ASSUME PListen PROVE StormType'
  BY <1>20 DEF PListen, StormType, Spouting
<1>21. ASSUME PAccept PROVE StormType'
  BY <1>21 DEF PAccept, StormType, Spouting, Link
<1>22. ASSUME PSize PROVE StormType'
  BY <1>22 DEF PSize, StormType, Spouting, Link
<1>23. ASSUME PData PROVE StormType'
  BY <1>23 DEF PData, StormType, Spouting, Link, Frame
<1>24. ASSUME PClose PROVE StormType'
  BY <1>24 DEF PClose, StormType, Spouting
<1>25. ASSUME PEmit PROVE StormType'
  <2>1. img \in Frames /\ tuples' = tuples \cup {img}
        /\ UNCHANGED <<topic, offset, pending, replays, net>>
    BY <1>25 DEF PEmit, Spouting, SpoutType
  <2> QED BY <2>1 DEF StormType
<1>26. ASSUME KEmit PROVE StormType'
  BY <1>26 DEF KEmit, StormType
<1>27. ASSUME NEW f \in Frames, BMatch(f) PROVE StormType'
  BY <1>27, SMTT(30) DEF BMatch, StormType
<1>28. ASSUME NEW f \in Frames, KMatch(f) PROVE StormType'
  <2>1. pending' \subseteq pending /\ UNCHANGED <<tuples, topic, offset>>
    BY <1>28 DEF KMatch
  <2>2. net' \in [Frames -> Nat]
    <3>1. CASE net' = net
      BY <3>1 DEF StormType
    <3>2. CASE net' = [net EXCEPT ![f] = net[f] + 1]
      BY <3>2 DEF StormType
    <3> QED BY <1>28, <3>1, <3>2 DEF KMatch
  <2>3. replays' \in [Frames -> 0 .. MaxReplays]
    <3>1. CASE replays' = replays
      BY <3>1 DEF StormType
    <3>2. CASE replays[f] < MaxReplays /\ replays' = [replays EXCEPT ![f] = replays[f] + 1]
      BY <3>2, BoundsAssumption DEF StormType
    <3> QED BY <1>28, <3>1, <3>2 DEF KMatch
  <2> QED BY <2>1, <2>2, <2>3 DEF StormType
<1>29. ASSUME NEW f \in Frames, Lose(f) PROVE StormType'
  BY <1>29 DEF Lose, StormType
<1> QED BY <1>1, <1>2, <1>3, <1>4, <1>5, <1>6, <1>7, <1>8, <1>9, <1>10, <1>11, <1>12, <1>13, <1>14, <1>15, <1>16, <1>17, <1>18, <1>19, <1>20, <1>21, <1>22, <1>23, <1>24, <1>25, <1>26, <1>27, <1>28, <1>29, NextSteps

-----------------------------------------------------------------------------
(* How far the transmit threads are. *)
LEMMA FrameStep ==
  ASSUME ProcType, TransType, FrameInv, Next
  PROVE  FrameInv'
<1> USE DEF process, finding, transmit, result, spout, storm
<1>1. ASSUME Start PROVE FrameInv'
  BY <1>1 DEF Start, TransType, FrameInv, ProcType, InFrame, BeforePush
<1>2. ASSUME Told PROVE FrameInv'
  BY <1>2 DEF Told, TransType, FrameInv, ProcType, InFrame, BeforePush, SpoutIP
<1>3. ASSUME Here PROVE FrameInv'
  BY <1>3 DEF Here, TransType, FrameInv, ProcType, InFrame, BeforePush, Found
<1>4. ASSUME NEW s \in Sessions, Close(s) PROVE FrameInv'
  BY <1>4 DEF Close, TransType, FrameInv, ProcType, InFrame, BeforePush
<1>5. ASSUME NEW s \in Sessions, Begin(s) PROVE FrameInv'
  BY <1>5 DEF Begin, TransType, FrameInv, ProcType, InFrame, BeforePush
<1>6. ASSUME NEW s \in Sessions, TRead(s) PROVE FrameInv'
  BY <1>6 DEF TRead, TransType, FrameInv, ProcType, InFrame, BeforePush, TGoto
<1>7. ASSUME NEW s \in Sessions, TProduce(s) PROVE FrameInv'
  BY <1>7 DEF TProduce, TransType, FrameInv, ProcType, InFrame, BeforePush, TGoto, Frame
<1>8. ASSUME NEW s \in Sessions, TConnect(s) PROVE FrameInv'
  BY <1>8 DEF TConnect, TransType, FrameInv, ProcType, InFrame, BeforePush, TGoto, Link
<1>9. ASSUME NEW s \in Sessions, TImage(s) PROVE FrameInv'
  BY <1>9 DEF TImage, TransType, FrameInv, ProcType, InFrame, BeforePush, TGoto
<1>10. ASSUME NEW s \in Sessions, TAck(s) PROVE FrameInv'
  BY <1>10 DEF TAck, TransType, FrameInv, ProcType, InFrame, BeforePush, TGoto, Link
<1>11. ASSUME NEW s \in Sessions, TReset(s) PROVE FrameInv'
  BY <1>11 DEF TReset, TransType, FrameInv, ProcType, InFrame, BeforePush, TGoto
<1>12. ASSUME NEW s \in Sessions, TPush(s) PROVE FrameInv'
  BY <1>12 DEF TPush, TransType, FrameInv, ProcType, InFrame, BeforePush, TGoto, Frame
<1>13. ASSUME NEW s \in Sessions, TPost(s) PROVE FrameInv'
  BY <1>13 DEF TPost, TransType, FrameInv, ProcType, InFrame, BeforePush, TGoto, Post
<1>14. ASSUME NEW s \in Sessions, THangup(s) PROVE FrameInv'
  BY <1>14 DEF THangup, TransType, FrameInv, ProcType, InFrame, BeforePush, TGoto, Post
<1>15. ASSUME NEW s \in Sessions, ROpen(s) PROVE FrameInv'
  BY <1>15 DEF ROpen, TransType, FrameInv, ProcType, InFrame, BeforePush, RGoto
<1>16. ASSUME NEW s \in Sessions, RBind(s) PROVE FrameInv'
  BY <1>16 DEF RBind, TransType, FrameInv, ProcType, InFrame, BeforePush, RGoto
<1>17. ASSUME NEW s \in Sessions, RWait(s) PROVE FrameInv'
  BY <1>17 DEF RWait, TransType, FrameInv, ProcType, InFrame, BeforePush, RGoto
<1>18. ASSUME NEW s \in Sessions, RRecv(s) PROVE FrameInv'
  BY <1>18 DEF RRecv, TransType, FrameInv, ProcType, InFrame, BeforePush, RGoto
<1>19. ASSUME NEW s \in Sessions, RFree(s) PROVE FrameInv'
  BY <1>19 DEF RFree, TransType, FrameInv, ProcType, InFrame, BeforePush, RGoto
<1>20. ASSUME PListen PROVE FrameInv'
  BY <1>20 DEF PListen, TransType, FrameInv, ProcType, InFrame, BeforePush, Spouting
<1>21. ASSUME PAccept PROVE FrameInv'
  BY <1>21 DEF PAccept, TransType, FrameInv, ProcType, InFrame, BeforePush, Spouting, Link
<1>22. ASSUME PSize PROVE FrameInv'
  BY <1>22 DEF PSize, TransType, FrameInv, ProcType, InFrame, BeforePush, Spouting, Link
<1>23. ASSUME PData PROVE FrameInv'
  BY <1>23 DEF PData, TransType, FrameInv, ProcType, InFrame, BeforePush, Spouting, Link, Frame
<1>24. ASSUME PClose PROVE FrameInv'
  BY <1>24 DEF PClose, TransType, FrameInv, ProcType, InFrame, BeforePush, Spouting
<1>25. ASSUME PEmit PROVE FrameInv'
  BY <1>25 DEF PEmit, TransType, FrameInv, ProcType, InFrame, BeforePush, Spouting
<1>26. ASSUME KEmit PROVE FrameInv'
  BY <1>26 DEF KEmit, TransType, FrameInv, ProcType, InFrame, BeforePush
<1>27. ASSUME NEW f \in Frames, BMatch(f) PROVE FrameInv'
  BY <1>27 DEF BMatch, TransType, FrameInv, ProcType, InFrame, BeforePush
<1>28. ASSUME NEW f \in Frames, KMatch(f) PROVE FrameInv'
  BY <1>28 DEF KMatch, TransType, FrameInv, ProcType, InFrame, BeforePush
<1>29. ASSUME NEW f \in Frames, Lose(f) PROVE FrameInv'
  BY <1>29 DEF Lose, TransType, FrameInv, ProcType, InFrame, BeforePush
<1> QED BY <1>1, <1>2, <1>3, <1>4, <1>5, <1>6, <1>7, <1>8, <1>9, <1>10, <1>11, <1>12, <1>13, <1>14, <1>15, <1>16, <1>17, <1>18, <1>19, <1>20, <1>21, <1>22, <1>23, <1>24, <1>25, <1>26, <1>27, <1>28, <1>29, NextSteps

(* The parts that the option leaves idle. *)
LEMMA ModeStep ==
  ASSUME ProcType, TransType, SpoutType, StormType, FrameInv, ModeInv, Next
  PROVE  ModeInv'
<1> USE DEF process, finding, transmit, result, spout, storm
<1>1. ASSUME Start PROVE ModeInv'
  BY <1>1 DEF Start, ModeInv, FrameInv
<1>2. ASSUME Told PROVE ModeInv'
  BY <1>2 DEF Told, ModeInv, FrameInv, SpoutIP
<1>3. ASSUME Here PROVE ModeInv'
  BY <1>3 DEF Here, ModeInv, FrameInv, Found
<1>4. ASSUME NEW s \in Sessions, Close(s) PROVE ModeInv'
  BY <1>4 DEF Close, ModeInv, FrameInv
<1>5. ASSUME NEW s \in Sessions, Begin(s) PROVE ModeInv'
  BY <1>5 DEF Begin, ModeInv, FrameInv
<1>6. ASSUME NEW s \in Sessions, TRead(s) PROVE ModeInv'
  BY <1>6 DEF TRead, ModeInv, FrameInv, TGoto
<1>7. ASSUME NEW s \in Sessions, TProduce(s) PROVE ModeInv'
  BY <1>7 DEF TProduce, ModeInv, FrameInv, TGoto, Frame
<1>8. ASSUME NEW s \in Sessions, TConnect(s) PROVE ModeInv'
  BY <1>8 DEF TConnect, ModeInv, FrameInv, TGoto, Link
<1>9. ASSUME NEW s \in Sessions, TImage(s) PROVE ModeInv'
  BY <1>9 DEF TImage, ModeInv, FrameInv, TGoto
<1>10. ASSUME NEW s \in Sessions, TAck(s) PROVE ModeInv'
  BY <1>10 DEF TAck, ModeInv, FrameInv, TGoto, Link
<1>11. ASSUME NEW s \in Sessions, TReset(s) PROVE ModeInv'
  BY <1>11 DEF TReset, ModeInv, FrameInv, TGoto
<1>12. ASSUME NEW s \in Sessions, TPush(s) PROVE ModeInv'
  BY <1>12 DEF TPush, ModeInv, FrameInv, TGoto, Frame
<1>13. ASSUME NEW s \in Sessions, TPost(s) PROVE ModeInv'
  BY <1>13 DEF TPost, ModeInv, FrameInv, TGoto, Post
<1>14. ASSUME NEW s \in Sessions, THangup(s) PROVE ModeInv'
  BY <1>14 DEF THangup, ModeInv, FrameInv, TGoto, Post
<1>15. ASSUME NEW s \in Sessions, ROpen(s) PROVE ModeInv'
  BY <1>15 DEF ROpen, ModeInv, FrameInv, RGoto
<1>16. ASSUME NEW s \in Sessions, RBind(s) PROVE ModeInv'
  BY <1>16 DEF RBind, ModeInv, FrameInv, RGoto
<1>17. ASSUME NEW s \in Sessions, RWait(s) PROVE ModeInv'
  BY <1>17 DEF RWait, ModeInv, FrameInv, RGoto
<1>18. ASSUME NEW s \in Sessions, RRecv(s) PROVE ModeInv'
  BY <1>18 DEF RRecv, ModeInv, FrameInv, RGoto
<1>19. ASSUME NEW s \in Sessions, RFree(s) PROVE ModeInv'
  BY <1>19 DEF RFree, ModeInv, FrameInv, RGoto
<1>20. ASSUME PListen PROVE ModeInv'
  BY <1>20 DEF PListen, ModeInv, FrameInv, Spouting
<1>21. ASSUME PAccept PROVE ModeInv'
  BY <1>21 DEF PAccept, ModeInv, FrameInv, Spouting, Link
<1>22. ASSUME PSize PROVE ModeInv'
  BY <1>22 DEF PSize, ModeInv, FrameInv, Spouting, Link
<1>23. ASSUME PData PROVE ModeInv'
  BY <1>23 DEF PData, ModeInv, FrameInv, Spouting, Link, Frame
<1>24. ASSUME PClose PROVE ModeInv'
  BY <1>24 DEF PClose, ModeInv, FrameInv, Spouting
<1>25. ASSUME PEmit PROVE ModeInv'
  BY <1>25 DEF PEmit, ModeInv, FrameInv, Spouting
<1>26. ASSUME KEmit PROVE ModeInv'
  BY <1>26 DEF KEmit, ModeInv, FrameInv
<1>27. ASSUME NEW f \in Frames, BMatch(f) PROVE ModeInv'
  BY <1>27 DEF BMatch, ModeInv, FrameInv
<1>28. ASSUME NEW f \in Frames, KMatch(f) PROVE ModeInv'
  BY <1>28 DEF KMatch, ModeInv, FrameInv
<1>29. ASSUME NEW f \in Frames, Lose(f) PROVE ModeInv'
  BY <1>29 DEF Lose, ModeInv, FrameInv
<1> QED BY <1>1, <1>2, <1>3, <1>4, <1>5, <1>6, <1>7, <1>8, <1>9, <1>10, <1>11, <1>12, <1>13, <1>14, <1>15, <1>16, <1>17, <1>18, <1>19, <1>20, <1>21, <1>22, <1>23, <1>24, <1>25, <1>26, <1>27, <1>28, <1>29, NextSteps

(* The port. *)
LEMMA PortStep ==
  ASSUME ProcType, TransType, ResType, PortInv, SessionInv, Next
  PROVE  PortInv'
<1> USE DEF process, finding, transmit, result, spout, storm
<1>1. ASSUME Start PROVE PortInv'
  BY <1>1, SessionsAssumption DEF Start, PortInv, HasPort, ProcType, ResType, TransType
<1>2. ASSUME Told PROVE PortInv'
  BY <1>2, SessionsAssumption DEF Told, PortInv, HasPort, ProcType, ResType, TransType, SpoutIP
<1>3. ASSUME Here PROVE PortInv'
  BY <1>3, SessionsAssumption DEF Here, PortInv, HasPort, ProcType, ResType, TransType, Found
<1>4. ASSUME NEW s \in Sessions, Close(s) PROVE PortInv'
  BY <1>4, SessionsAssumption DEF Close, PortInv, HasPort, ProcType, ResType, TransType
<1>5. ASSUME NEW s \in Sessions, Begin(s) PROVE PortInv'
  <2>1. /\ server = "up" /\ tpc[s] = "idle" /\ UNCHANGED <<server, port>>
        /\ rpc' = [rpc EXCEPT ![s] = "open"] /\ tpc' = [tpc EXCEPT ![s] = "read"]
    BY <1>5 DEF Begin
  <2>2. rpc[s] = "idle"
    BY <2>1 DEF SessionInv
  <2> QED BY <2>1, <2>2 DEF PortInv, HasPort, ResType
<1>6. ASSUME NEW s \in Sessions, TRead(s) PROVE PortInv'
  BY <1>6, SessionsAssumption DEF TRead, PortInv, HasPort, ProcType, ResType, TransType, TGoto
<1>7. ASSUME NEW s \in Sessions, TProduce(s) PROVE PortInv'
  BY <1>7, SessionsAssumption DEF TProduce, PortInv, HasPort, ProcType, ResType, TransType, TGoto, Frame
<1>8. ASSUME NEW s \in Sessions, TConnect(s) PROVE PortInv'
  BY <1>8, SessionsAssumption DEF TConnect, PortInv, HasPort, ProcType, ResType, TransType, TGoto, Link
<1>9. ASSUME NEW s \in Sessions, TImage(s) PROVE PortInv'
  BY <1>9, SessionsAssumption DEF TImage, PortInv, HasPort, ProcType, ResType, TransType, TGoto
<1>10. ASSUME NEW s \in Sessions, TAck(s) PROVE PortInv'
  BY <1>10, SessionsAssumption DEF TAck, PortInv, HasPort, ProcType, ResType, TransType, TGoto, Link
<1>11. ASSUME NEW s \in Sessions, TReset(s) PROVE PortInv'
  BY <1>11, SessionsAssumption DEF TReset, PortInv, HasPort, ProcType, ResType, TransType, TGoto
<1>12. ASSUME NEW s \in Sessions, TPush(s) PROVE PortInv'
  BY <1>12, SessionsAssumption DEF TPush, PortInv, HasPort, ProcType, ResType, TransType, TGoto, Frame
<1>13. ASSUME NEW s \in Sessions, TPost(s) PROVE PortInv'
  BY <1>13, SessionsAssumption DEF TPost, PortInv, HasPort, ProcType, ResType, TransType, TGoto, Post
<1>14. ASSUME NEW s \in Sessions, THangup(s) PROVE PortInv'
  BY <1>14, SessionsAssumption DEF THangup, PortInv, HasPort, ProcType, ResType, TransType, TGoto, Post
<1>15. ASSUME NEW s \in Sessions, ROpen(s) PROVE PortInv'
  BY <1>15, SessionsAssumption, SMTT(30) DEF ROpen, PortInv, HasPort, ProcType, ResType, TransType, RGoto
<1>16. ASSUME NEW s \in Sessions, RBind(s) PROVE PortInv'
  BY <1>16, SessionsAssumption, SMTT(30) DEF RBind, PortInv, HasPort, ProcType, ResType, TransType, RGoto
<1>17. ASSUME NEW s \in Sessions, RWait(s) PROVE PortInv'
  BY <1>17, SessionsAssumption, SMTT(30) DEF RWait, PortInv, HasPort, ProcType, ResType, TransType, RGoto
<1>18. ASSUME NEW s \in Sessions, RRecv(s) PROVE PortInv'
  BY <1>18, SessionsAssumption, SMTT(30) DEF RRecv, PortInv, HasPort, ProcType, ResType, TransType, RGoto
<1>19. ASSUME NEW s \in Sessions, RFree(s) PROVE PortInv'
  BY <1>19, SessionsAssumption DEF RFree, PortInv, HasPort, ProcType, ResType, TransType, RGoto
<1>20. ASSUME PListen PROVE PortInv'
  BY <1>20, SessionsAssumption DEF PListen, PortInv, HasPort, ProcType, ResType, TransType, Spouting
<1>21. ASSUME PAccept PROVE PortInv'
  BY <1>21, SessionsAssumption DEF PAccept, PortInv, HasPort, ProcType, ResType, TransType, Spouting, Link
<1>22. ASSUME PSize PROVE PortInv'
  BY <1>22, SessionsAssumption DEF PSize, PortInv, HasPort, ProcType, ResType, TransType, Spouting, Link
<1>23. ASSUME PData PROVE PortInv'
  BY <1>23, SessionsAssumption DEF PData, PortInv, HasPort, ProcType, ResType, TransType, Spouting, Link, Frame
<1>24. ASSUME PClose PROVE PortInv'
  BY <1>24, SessionsAssumption DEF PClose, PortInv, HasPort, ProcType, ResType, TransType, Spouting
<1>25. ASSUME PEmit PROVE PortInv'
  BY <1>25, SessionsAssumption DEF PEmit, PortInv, HasPort, ProcType, ResType, TransType, Spouting
<1>26. ASSUME KEmit PROVE PortInv'
  BY <1>26, SessionsAssumption DEF KEmit, PortInv, HasPort, ProcType, ResType, TransType
<1>27. ASSUME NEW f \in Frames, BMatch(f) PROVE PortInv'
  BY <1>27, SessionsAssumption DEF BMatch, PortInv, HasPort, ProcType, ResType, TransType
<1>28. ASSUME NEW f \in Frames, KMatch(f) PROVE PortInv'
  BY <1>28, SessionsAssumption DEF KMatch, PortInv, HasPort, ProcType, ResType, TransType
<1>29. ASSUME NEW f \in Frames, Lose(f) PROVE PortInv'
  BY <1>29, SessionsAssumption DEF Lose, PortInv, HasPort, ProcType, ResType, TransType
<1> QED BY <1>1, <1>2, <1>3, <1>4, <1>5, <1>6, <1>7, <1>8, <1>9, <1>10, <1>11, <1>12, <1>13, <1>14, <1>15, <1>16, <1>17, <1>18, <1>19, <1>20, <1>21, <1>22, <1>23, <1>24, <1>25, <1>26, <1>27, <1>28, <1>29, NextSteps

(* The connections to the spout. *)
LEMMA LinkStep ==
  ASSUME TransType, SpoutType, LinkInv, Next
  PROVE  LinkInv'
<1> USE DEF process, finding, transmit, result, spout, storm
<1>1. ASSUME Start PROVE LinkInv'
  BY <1>1 DEF Start, LinkInv, TransType, SpoutType
<1>2. ASSUME Told PROVE LinkInv'
  BY <1>2 DEF Told, LinkInv, TransType, SpoutType, SpoutIP
<1>3. ASSUME Here PROVE LinkInv'
  BY <1>3 DEF Here, LinkInv, TransType, SpoutType, Found
<1>4. ASSUME NEW s \in Sessions, Close(s) PROVE LinkInv'
  BY <1>4 DEF Close, LinkInv, TransType, SpoutType
<1>5. ASSUME NEW s \in Sessions, Begin(s) PROVE LinkInv'
  BY <1>5 DEF Begin, LinkInv, TransType, SpoutType
<1>6. ASSUME NEW s \in Sessions, TRead(s) PROVE LinkInv'
  BY <1>6 DEF TRead, LinkInv, TransType, SpoutType, TGoto
<1>7. ASSUME NEW s \in Sessions, TProduce(s) PROVE LinkInv'
  BY <1>7 DEF TProduce, LinkInv, TransType, SpoutType, TGoto, Frame
<1>8. ASSUME NEW s \in Sessions, TConnect(s) PROVE LinkInv'
  <2>1. /\ tpc[s] = "connect" /\ backlog' = Append(backlog, s) /\ spc \notin {"closed", "emit"}
        /\ link' = [link EXCEPT ![s] = "queued"] /\ tpc' = [tpc EXCEPT ![s] = "ack"]
        /\ UNCHANGED <<spc, serverSock>>
    BY <1>8 DEF TConnect, TGoto, Link
  <2>2. link[s] = "none"
    BY <2>1 DEF LinkInv
  <2>3. /\ backlog \in Seq(Sessions) /\ Len(backlog) \in Nat /\ Len(backlog') = Len(backlog) + 1
        /\ backlog'[Len(backlog) + 1] = s /\ backlog' \in Seq(Sessions)
    BY <2>1, AppendFacts DEF SpoutType
  <2>4. \A i \in 1 .. Len(backlog) : backlog'[i] = backlog[i] /\ backlog[i] \in Sessions
    BY <2>1, AppendFacts DEF SpoutType
  <2>5. \A i \in 1 .. Len(backlog) : backlog[i] # s
    BY <2>2 DEF LinkInv
  <2>6. \A i \in 1 .. Len(backlog') : link'[backlog'[i]] = "queued"
    BY <2>1, <2>3, <2>4 DEF LinkInv, TransType
  <2>7. \A i, j \in 1 .. Len(backlog') : backlog'[i] = backlog'[j] => i = j
    BY <2>3, <2>4, <2>5 DEF LinkInv
  <2>8. \A t \in Sessions : t \in ToSet(backlog) \/ t = s => t \in ToSet(backlog')
    BY <2>3, <2>4, InSet
  <2>9. /\ spc = "size" => link'[serverSock] = "open"
        /\ spc = "data" => link'[serverSock] = "sized"
    BY <2>1, <2>2 DEF LinkInv, TransType, SpoutType
  <2>10. ASSUME NEW t \in Sessions
         PROVE  /\ link'[t] = "none" <=> tpc'[t] \notin {"ack", "ack2", "left"}
                /\ link'[t] = "queued" => tpc'[t] = "ack" /\ t \in ToSet(backlog')
                /\ link'[t] = "open" => tpc'[t] = "ack" /\ spc = "size" /\ serverSock = t
                /\ link'[t] = "sized" => tpc'[t] # "left" /\ spc = "data" /\ serverSock = t
                /\ link'[t] = "acked" => tpc'[t] = "ack2"
                /\ link'[t] = "reset" => tpc'[t] # "ack2"
    <3>1. CASE t = s
      BY <2>1, <2>8, <3>1 DEF TransType
    <3>2. CASE t # s
      <4>1. link'[t] = link[t] /\ tpc'[t] = tpc[t]
        BY <2>1, <3>2 DEF TransType
      <4> QED BY <2>8, <4>1 DEF LinkInv
    <3> QED BY <3>1, <3>2
  <2> QED BY <2>1, <2>6, <2>7, <2>9, <2>10 DEF LinkInv
<1>9. ASSUME NEW s \in Sessions, TImage(s) PROVE LinkInv'
  BY <1>9 DEF TImage, LinkInv, TransType, SpoutType, TGoto
<1>10. ASSUME NEW s \in Sessions, TAck(s) PROVE LinkInv'
  BY <1>10 DEF TAck, LinkInv, TransType, SpoutType, TGoto, Link
<1>11. ASSUME NEW s \in Sessions, TReset(s) PROVE LinkInv'
  BY <1>11 DEF TReset, LinkInv, TransType, SpoutType, TGoto
<1>12. ASSUME NEW s \in Sessions, TPush(s) PROVE LinkInv'
  BY <1>12 DEF TPush, LinkInv, TransType, SpoutType, TGoto, Frame
<1>13. ASSUME NEW s \in Sessions, TPost(s) PROVE LinkInv'
  BY <1>13 DEF TPost, LinkInv, TransType, SpoutType, TGoto, Post
<1>14. ASSUME NEW s \in Sessions, THangup(s) PROVE LinkInv'
  BY <1>14 DEF THangup, LinkInv, TransType, SpoutType, TGoto, Post
<1>15. ASSUME NEW s \in Sessions, ROpen(s) PROVE LinkInv'
  BY <1>15 DEF ROpen, LinkInv, TransType, SpoutType, RGoto
<1>16. ASSUME NEW s \in Sessions, RBind(s) PROVE LinkInv'
  BY <1>16 DEF RBind, LinkInv, TransType, SpoutType, RGoto
<1>17. ASSUME NEW s \in Sessions, RWait(s) PROVE LinkInv'
  BY <1>17 DEF RWait, LinkInv, TransType, SpoutType, RGoto
<1>18. ASSUME NEW s \in Sessions, RRecv(s) PROVE LinkInv'
  BY <1>18 DEF RRecv, LinkInv, TransType, SpoutType, RGoto
<1>19. ASSUME NEW s \in Sessions, RFree(s) PROVE LinkInv'
  BY <1>19 DEF RFree, LinkInv, TransType, SpoutType, RGoto
<1>20. ASSUME PListen PROVE LinkInv'
  BY <1>20 DEF PListen, LinkInv, TransType, SpoutType, Spouting
<1>21. ASSUME PAccept PROVE LinkInv'
  <2>1. /\ spc = "accept" /\ spc' = "size" /\ backlog # <<>>
        /\ serverSock' = Head(backlog) /\ backlog' = Tail(backlog) /\ tpc' = tpc
        /\ link' = [link EXCEPT ![Head(backlog)] = "open"]
    BY <1>21 DEF PAccept, Spouting, Link
  <2> DEFINE h == Head(backlog)
  <2>2. /\ backlog \in Seq(Sessions) /\ Len(backlog) \in Nat /\ Len(backlog) >= 1
        /\ backlog[1] = h /\ h \in Sessions /\ backlog' \in Seq(Sessions)
        /\ Len(backlog') = Len(backlog) - 1
    BY <2>1, HeadFacts DEF SpoutType
  <2>3. \A i \in 1 .. Len(backlog') : i + 1 \in 1 .. Len(backlog) /\ backlog'[i] = backlog[i + 1]
    BY <2>1, HeadFacts DEF SpoutType
  <2>4. link[h] = "queued" /\ tpc[h] = "ack"
    BY <2>2 DEF LinkInv
  <2>5. \A i \in 1 .. Len(backlog') : backlog'[i] # h /\ link[backlog'[i]] = "queued"
                                      /\ backlog'[i] \in Sessions
    <3>1. \A i \in 1 .. Len(backlog') : backlog[i + 1] = backlog[1] => i + 1 = 1
      BY <2>2, <2>3 DEF LinkInv
    <3> QED BY <2>2, <2>3, <3>1 DEF LinkInv
  <2>6. \A i \in 1 .. Len(backlog') : link'[backlog'[i]] = "queued"
    BY <2>1, <2>5 DEF TransType
  <2>7. \A i, j \in 1 .. Len(backlog') : backlog'[i] = backlog'[j] => i = j
    <3>1. \A i, j \in 1 .. Len(backlog') : backlog[i + 1] = backlog[j + 1] => i + 1 = j + 1
      BY <2>3 DEF LinkInv
    <3> QED BY <2>3, <3>1
  <2>8. \A t \in Sessions : t \in ToSet(backlog) /\ t # h => t \in ToSet(backlog')
    <3> SUFFICES ASSUME NEW t \in Sessions, t \in ToSet(backlog), t # h
                 PROVE  t \in ToSet(backlog')
      OBVIOUS
    <3>1. PICK i \in 1 .. Len(backlog) : backlog[i] = t
      BY <2>2, InSet
    <3>2. i - 1 \in 1 .. Len(backlog')
      BY <2>2, <3>1
    <3>3. backlog'[i - 1] = t
      BY <2>3, <3>1, <3>2
    <3> QED BY <2>2, <3>2, <3>3, InSet
  <2>9. ASSUME NEW t \in Sessions
        PROVE  /\ link'[t] = "none" <=> tpc[t] \notin {"ack", "ack2", "left"}
               /\ link'[t] = "queued" => tpc[t] = "ack" /\ t \in ToSet(backlog')
               /\ link'[t] = "open" => tpc[t] = "ack" /\ h = t
               /\ link'[t] # "sized"
               /\ link'[t] = "acked" => tpc[t] = "ack2"
               /\ link'[t] = "reset" => tpc[t] # "ack2"
    <3>1. CASE t = h
      BY <2>1, <2>4, <3>1 DEF TransType
    <3>2. CASE t # h
      <4>1. link'[t] = link[t]
        BY <2>1, <3>2 DEF TransType
      <4> QED BY <2>1, <2>8, <3>2, <4>1 DEF LinkInv
    <3> QED BY <3>1, <3>2
  <2>10. link'[h] = "open"
    BY <2>1, <2>2 DEF TransType
  <2> QED BY <2>1, <2>6, <2>7, <2>9, <2>10 DEF LinkInv
<1>22. ASSUME PSize PROVE LinkInv'
  BY <1>22 DEF PSize, LinkInv, TransType, SpoutType, Spouting, Link
<1>23. ASSUME PData PROVE LinkInv'
  BY <1>23 DEF PData, LinkInv, TransType, SpoutType, Spouting, Link, Frame
<1>24. ASSUME PClose PROVE LinkInv'
  <2>1. /\ spc = "close" /\ spc' = "emit" /\ backlog' = <<>> /\ tpc' = tpc
        /\ link' = [s \in Sessions |-> IF s \in ToSet(backlog) THEN "reset" ELSE link[s]]
    BY <1>24 DEF PClose, Spouting
  <2>2. Len(backlog') = 0
    BY <2>1
  <2>3. \A s \in Sessions : s \in ToSet(backlog) => link[s] = "queued" /\ tpc[s] = "ack"
    BY InSet DEF LinkInv, SpoutType
  <2>4. ASSUME NEW s \in Sessions
        PROVE  /\ link'[s] = "none" <=> tpc[s] \notin {"ack", "ack2", "left"}
               /\ link'[s] \notin {"queued", "open", "sized"}
               /\ link'[s] = "acked" => tpc[s] = "ack2"
               /\ link'[s] = "reset" => tpc[s] # "ack2"
    BY <2>1, <2>3 DEF LinkInv
  <2> QED BY <2>1, <2>2, <2>4 DEF LinkInv
<1>25. ASSUME PEmit PROVE LinkInv'
  BY <1>25 DEF PEmit, LinkInv, TransType, SpoutType, Spouting
<1>26. ASSUME KEmit PROVE LinkInv'
  BY <1>26 DEF KEmit, LinkInv, TransType, SpoutType
<1>27. ASSUME NEW f \in Frames, BMatch(f) PROVE LinkInv'
  BY <1>27 DEF BMatch, LinkInv, TransType, SpoutType
<1>28. ASSUME NEW f \in Frames, KMatch(f) PROVE LinkInv'
  BY <1>28 DEF KMatch, LinkInv, TransType, SpoutType
<1>29. ASSUME NEW f \in Frames, Lose(f) PROVE LinkInv'
  BY <1>29 DEF Lose, LinkInv, TransType, SpoutType
<1> QED BY <1>1, <1>2, <1>3, <1>4, <1>5, <1>6, <1>7, <1>8, <1>9, <1>10, <1>11, <1>12, <1>13, <1>14, <1>15, <1>16, <1>17, <1>18, <1>19, <1>20, <1>21, <1>22, <1>23, <1>24, <1>25, <1>26, <1>27, <1>28, <1>29, NextSteps

-----------------------------------------------------------------------------
(* What has been handed over stays so. *)
LEMMA AheadStays ==
  ASSUME TransType, SpoutType, FrameInv, LinkInv, Next
  PROVE  \A f \in Frames : ~Ahead(f) => ~Ahead(f)'
<1> USE DEF process, finding, transmit, result, spout, storm
<1>1. ASSUME Start PROVE \A e \in Frames : ~Ahead(e) => ~Ahead(e)'
  BY <1>1 DEF Start, Ahead, TransType
<1>2. ASSUME Told PROVE \A e \in Frames : ~Ahead(e) => ~Ahead(e)'
  BY <1>2 DEF Told, Ahead, TransType, SpoutIP
<1>3. ASSUME Here PROVE \A e \in Frames : ~Ahead(e) => ~Ahead(e)'
  BY <1>3 DEF Here, Ahead, TransType, Found
<1>4. ASSUME NEW s \in Sessions, Close(s) PROVE \A e \in Frames : ~Ahead(e) => ~Ahead(e)'
  BY <1>4 DEF Close, Ahead, TransType
<1>5. ASSUME NEW s \in Sessions, Begin(s) PROVE \A e \in Frames : ~Ahead(e) => ~Ahead(e)'
  BY <1>5 DEF Begin, Ahead, TransType
<1>6. ASSUME NEW s \in Sessions, TRead(s) PROVE \A e \in Frames : ~Ahead(e) => ~Ahead(e)'
  <2>1. /\ tpc[s] = "read" /\ frames' = [frames EXCEPT ![s] = frames[s] + 1] /\ link' = link
        /\ tpc' = [tpc EXCEPT ![s] = IF kafka THEN "produce" ELSE "connect"]
    BY <1>6 DEF TRead, TGoto
  <2> SUFFICES ASSUME NEW e \in Frames, ~Ahead(e) PROVE ~Ahead(e)'
    OBVIOUS
  <2>2. e[1] \in Sessions /\ e[2] \in Nat
    BY FrameFacts
  <2>3. CASE e[1] = s
    <3>1. e[2] <= frames[s] /\ frames[s] \in Nat
      BY <2>2, <2>3 DEF Ahead, TransType
    <3>2. frames'[s] = frames[s] + 1
      BY <2>1 DEF TransType
    <3> QED BY <2>2, <2>3, <3>1, <3>2 DEF Ahead
  <2>4. CASE e[1] # s
    <3>1. frames'[e[1]] = frames[e[1]] /\ tpc'[e[1]] = tpc[e[1]]
      BY <2>1, <2>2, <2>4 DEF TransType
    <3> QED BY <2>1, <3>1 DEF Ahead
  <2> QED BY <2>3, <2>4
<1>7. ASSUME NEW s \in Sessions, TProduce(s) PROVE \A e \in Frames : ~Ahead(e) => ~Ahead(e)'
  BY <1>7 DEF TProduce, Ahead, TransType, TGoto, Frame
<1>8. ASSUME NEW s \in Sessions, TConnect(s) PROVE \A e \in Frames : ~Ahead(e) => ~Ahead(e)'
  BY <1>8 DEF TConnect, Ahead, TransType, TGoto, Link
<1>9. ASSUME NEW s \in Sessions, TImage(s) PROVE \A e \in Frames : ~Ahead(e) => ~Ahead(e)'
  BY <1>9 DEF TImage, Ahead, TransType, TGoto
<1>10. ASSUME NEW s \in Sessions, TAck(s) PROVE \A e \in Frames : ~Ahead(e) => ~Ahead(e)'
  BY <1>10 DEF TAck, Ahead, TransType, TGoto, Link
<1>11. ASSUME NEW s \in Sessions, TReset(s) PROVE \A e \in Frames : ~Ahead(e) => ~Ahead(e)'
  BY <1>11 DEF TReset, Ahead, TransType, TGoto
<1>12. ASSUME NEW s \in Sessions, TPush(s) PROVE \A e \in Frames : ~Ahead(e) => ~Ahead(e)'
  BY <1>12 DEF TPush, Ahead, TransType, TGoto, Frame
<1>13. ASSUME NEW s \in Sessions, TPost(s) PROVE \A e \in Frames : ~Ahead(e) => ~Ahead(e)'
  BY <1>13 DEF TPost, Ahead, TransType, TGoto, Post
<1>14. ASSUME NEW s \in Sessions, THangup(s) PROVE \A e \in Frames : ~Ahead(e) => ~Ahead(e)'
  BY <1>14 DEF THangup, Ahead, TransType, TGoto, Post
<1>15. ASSUME NEW s \in Sessions, ROpen(s) PROVE \A e \in Frames : ~Ahead(e) => ~Ahead(e)'
  BY <1>15 DEF ROpen, Ahead, TransType, RGoto
<1>16. ASSUME NEW s \in Sessions, RBind(s) PROVE \A e \in Frames : ~Ahead(e) => ~Ahead(e)'
  BY <1>16 DEF RBind, Ahead, TransType, RGoto
<1>17. ASSUME NEW s \in Sessions, RWait(s) PROVE \A e \in Frames : ~Ahead(e) => ~Ahead(e)'
  BY <1>17 DEF RWait, Ahead, TransType, RGoto
<1>18. ASSUME NEW s \in Sessions, RRecv(s) PROVE \A e \in Frames : ~Ahead(e) => ~Ahead(e)'
  BY <1>18 DEF RRecv, Ahead, TransType, RGoto
<1>19. ASSUME NEW s \in Sessions, RFree(s) PROVE \A e \in Frames : ~Ahead(e) => ~Ahead(e)'
  BY <1>19 DEF RFree, Ahead, TransType, RGoto
<1>20. ASSUME PListen PROVE \A e \in Frames : ~Ahead(e) => ~Ahead(e)'
  BY <1>20 DEF PListen, Ahead, TransType, Spouting
<1>21. ASSUME PAccept PROVE \A e \in Frames : ~Ahead(e) => ~Ahead(e)'
  <2>1. /\ backlog # <<>> /\ tpc' = tpc /\ frames' = frames
        /\ link' = [link EXCEPT ![Head(backlog)] = "open"]
    BY <1>21 DEF PAccept, Link
  <2>2. Head(backlog) \in Sessions /\ link[Head(backlog)] = "queued"
    BY <2>1, HeadFacts DEF SpoutType, LinkInv
  <2>3. \A s \in Sessions : link'[s] = "acked" <=> link[s] = "acked"
    BY <2>1, <2>2 DEF TransType
  <2> QED BY <2>1, <2>3, FrameFacts DEF Ahead
<1>22. ASSUME PSize PROVE \A e \in Frames : ~Ahead(e) => ~Ahead(e)'
  <2>1. /\ spc = "size" /\ tpc' = tpc /\ frames' = frames
        /\ link' = [link EXCEPT ![serverSock] = "sized"]
    BY <1>22 DEF PSize, Link, Spouting
  <2>2. serverSock \in Sessions /\ link[serverSock] = "open"
    BY <2>1 DEF SpoutType, LinkInv
  <2>3. \A s \in Sessions : link'[s] = "acked" <=> link[s] = "acked"
    BY <2>1, <2>2 DEF TransType
  <2> QED BY <2>1, <2>3, FrameFacts DEF Ahead
<1>23. ASSUME PData PROVE \A e \in Frames : ~Ahead(e) => ~Ahead(e)'
  BY <1>23 DEF PData, Ahead, TransType, Spouting, Link, Frame
<1>24. ASSUME PClose PROVE \A e \in Frames : ~Ahead(e) => ~Ahead(e)'
  <2>1. /\ tpc' = tpc /\ frames' = frames
        /\ link' = [s \in Sessions |-> IF s \in ToSet(backlog) THEN "reset" ELSE link[s]]
    BY <1>24 DEF PClose
  <2>2. \A s \in Sessions : s \in ToSet(backlog) => link[s] = "queued"
    BY InSet DEF SpoutType, LinkInv
  <2>3. \A s \in Sessions : link'[s] = "acked" <=> link[s] = "acked"
    BY <2>1, <2>2 DEF TransType
  <2> QED BY <2>1, <2>3, FrameFacts DEF Ahead
<1>25. ASSUME PEmit PROVE \A e \in Frames : ~Ahead(e) => ~Ahead(e)'
  BY <1>25 DEF PEmit, Ahead, TransType, Spouting
<1>26. ASSUME KEmit PROVE \A e \in Frames : ~Ahead(e) => ~Ahead(e)'
  BY <1>26 DEF KEmit, Ahead, TransType
<1>27. ASSUME NEW f \in Frames, BMatch(f) PROVE \A e \in Frames : ~Ahead(e) => ~Ahead(e)'
  BY <1>27 DEF BMatch, Ahead, TransType
<1>28. ASSUME NEW f \in Frames, KMatch(f) PROVE \A e \in Frames : ~Ahead(e) => ~Ahead(e)'
  BY <1>28 DEF KMatch, Ahead, TransType
<1>29. ASSUME NEW f \in Frames, Lose(f) PROVE \A e \in Frames : ~Ahead(e) => ~Ahead(e)'
  BY <1>29 DEF Lose, Ahead, TransType
<1> QED BY <1>1, <1>2, <1>3, <1>4, <1>5, <1>6, <1>7, <1>8, <1>9, <1>10, <1>11, <1>12, <1>13, <1>14, <1>15, <1>16, <1>17, <1>18, <1>19, <1>20, <1>21, <1>22, <1>23, <1>24, <1>25, <1>26, <1>27, <1>28, <1>29, NextSteps

(* Where a frame is stays as it is with the steps that move none.            *)
LEMMA PlaceKept ==
  ASSUME StormType, PlaceInv, \A f \in Frames : ~Ahead(f) => ~Ahead(f)',
         UNCHANGED <<topic, offset>>, pending' \subseteq pending, tuples' \subseteq tuples,
         \A f \in Frames : InSpout(f)' => InSpout(f),
         \A f \in Frames : net'[f] > 0 => ~Ahead(f)
  PROVE  PlaceInv'
<1>1. ASSUME NEW f \in Frames
      PROVE  /\ f \in tuples' \/ InSpout(f)' \/ net'[f] > 0 => ~Ahead(f)'
             /\ f \in tuples' => ~InSpout(f)'
             /\ f \in pending' => \E i \in 1 .. offset : topic[i] = f
  BY DEF PlaceInv
<1>2. ASSUME NEW i \in 1 .. Len(topic)
      PROVE  ~Ahead(topic[i])'
  <2> DEFINE g == topic[i]
  <2>1. g \in Frames /\ ~Ahead(g)
    BY DEF PlaceInv, StormType
  <2>2. ASSUME NEW e \in Frames, e = g, ~Ahead(e) PROVE ~Ahead(e)'
    BY <2>2
  <2> QED BY <2>1, <2>2 DEF Ahead
<1> QED BY <1>1, <1>2 DEF PlaceInv

(* A frame that was handed over, found in a sequence after the step.         *)
LEMMA QueueFrom ==
  ASSUME \A s \in Sessions : \A i \in 1 .. Len(queue'[s]) :
           \E e \in Frames : e = queue'[s][i] /\ ~Ahead(e)',
         \A s \in Sessions : \A i \in 1 .. Len(got'[s]) :
           \E e \in Frames : e = got'[s][i] /\ ~Ahead(e)'
  PROVE  QueueInv'
BY DEF QueueInv, Ahead

\* As long as no frame falls back, what is queued or received has been handed over.
LEMMA QueueKept ==
  ASSUME ResType, QueueInv, \A f \in Frames : ~Ahead(f) => ~Ahead(f)'
  PROVE  /\ \A s \in Sessions : \A i \in 1 .. Len(queue[s]) :
              \E e \in Frames : e = queue[s][i] /\ ~Ahead(e)'
         /\ \A s \in Sessions : \A i \in 1 .. Len(got[s]) :
              \E e \in Frames : e = got[s][i] /\ ~Ahead(e)'
<1>1. ASSUME NEW s \in Sessions, NEW i \in 1 .. Len(queue[s])
      PROVE  \E e \in Frames : e = queue[s][i] /\ ~Ahead(e)'
  <2>1. queue[s][i] \in Frames /\ ~Ahead(queue[s][i])
    BY DEF QueueInv, ResType
  <2>2. PICK e \in Frames : e = queue[s][i]
    BY <2>1
  <2> QED BY <2>1, <2>2
<1>2. ASSUME NEW s \in Sessions, NEW i \in 1 .. Len(got[s])
      PROVE  \E e \in Frames : e = got[s][i] /\ ~Ahead(e)'
  <2>1. got[s][i] \in Frames /\ ~Ahead(got[s][i])
    BY DEF QueueInv, ResType
  <2>2. PICK e \in Frames : e = got[s][i]
    BY <2>1
  <2> QED BY <2>1, <2>2
<1> QED BY <1>1, <1>2

(* What the steps that move a frame find.                                    *)
LEMMA ProduceFacts ==
  ASSUME TransType, SpoutType, StormType, FrameInv, ModeInv, NEW s \in Sessions, TProduce(s)
  PROVE  /\ kafka /\ spc = "closed" /\ tuples = {}
         /\ UNCHANGED <<spc, img, tuples, pending, offset, net, replays, kafka>>
         /\ Len(topic) \in Nat /\ offset \in 0 .. Len(topic)
         /\ \E g \in Frames :
              /\ Ahead(g) /\ ~Ahead(g)'
              /\ \/ topic' = topic
                 \/ /\ Len(topic') = Len(topic) + 1 /\ topic'[Len(topic) + 1] = g
                    /\ \A i \in 1 .. Len(topic) : topic'[i] = topic[i] /\ topic[i] \in Frames
<1> USE DEF spout, storm
<1>1. /\ tpc[s] = "produce" /\ (topic' = topic \/ topic' = Append(topic, Frame(s)))
      /\ UNCHANGED <<spc, img, tuples, pending, offset, net, replays, kafka, frames>>
      /\ tpc' = [tpc EXCEPT ![s] = "push"]
  BY DEF TProduce, TGoto
<1>2. PICK g \in Frames : g = Frame(s) /\ g[1] = s /\ g[2] = frames[s] /\ frames[s] \in Nat
  BY <1>1, ReadFrame DEF InFrame, BeforePush
<1>3. Ahead(g)
  BY <1>1, <1>2 DEF Ahead
<1>4. ~Ahead(g)'
  BY <1>1, <1>2 DEF Ahead, TransType
<1>5. kafka /\ spc = "closed" /\ tuples = {}
  BY <1>1 DEF FrameInv, ModeInv
<1>6. topic \in Seq(Frames) /\ Len(topic) \in Nat /\ offset \in 0 .. Len(topic)
  BY DEF StormType
<1>7. topic' = Append(topic, g) =>
        /\ Len(topic') = Len(topic) + 1 /\ topic'[Len(topic) + 1] = g
        /\ \A i \in 1 .. Len(topic) : topic'[i] = topic[i] /\ topic[i] \in Frames
  BY <1>2, <1>6, AppendFacts
<1> QED BY <1>1, <1>2, <1>3, <1>4, <1>5, <1>6, <1>7

\* With its data the spout has the frame, and the transmit thread has given it away.
LEMMA DataFacts ==
  ASSUME TransType, SpoutType, FrameInv, LinkInv, PData
  PROVE  \E g \in Frames : /\ Ahead(g) /\ ~Ahead(g)' /\ img' = g
                           /\ spc = "data" /\ spc' = "close"
                           /\ \A e \in Frames : Ahead(e) /\ e # g => Ahead(e)'
<1> USE DEF transmit
<1>1. /\ serverSock \in Sessions /\ spc = "data" /\ spc' = "close"
      /\ img' = Frame(serverSock) /\ tpc[serverSock] = "ack2"
      /\ link' = [link EXCEPT ![serverSock] = "acked"] /\ UNCHANGED <<tpc, frames>>
  BY DEF PData, Spouting, Link, SpoutType
<1>2. PICK g \in Frames : /\ g = Frame(serverSock) /\ g[1] = serverSock
                          /\ g[2] = frames[serverSock] /\ frames[serverSock] \in Nat
  BY <1>1, ReadFrame DEF InFrame, BeforePush
<1>3. link[serverSock] = "sized"
  BY <1>1 DEF LinkInv
<1>4. Ahead(g)
  BY <1>1, <1>2, <1>3 DEF Ahead
<1>5. link'[serverSock] = "acked"
  BY <1>1 DEF TransType
<1>6. ~Ahead(g)'
  BY <1>1, <1>2, <1>5 DEF Ahead
<1>7. ASSUME NEW e \in Frames, Ahead(e), e # g
      PROVE  Ahead(e)'
  <2>1. e[1] \in Sessions /\ e = <<e[1], e[2]>> /\ g = <<g[1], g[2]>>
    BY FrameFacts
  <2>2. CASE e[1] = serverSock
    <3>1. e[2] > frames[e[1]]
      BY <1>2, <1>7, <2>1, <2>2 DEF Ahead
    <3> QED BY <1>1, <3>1 DEF Ahead
  <2>3. CASE e[1] # serverSock
    <3>1. link'[e[1]] = link[e[1]]
      BY <1>1, <2>1, <2>3 DEF TransType
    <3> QED BY <1>1, <1>7, <3>1 DEF Ahead
  <2> QED BY <2>2, <2>3
<1> QED BY <1>1, <1>2, <1>4, <1>6, <1>7

(* A frame read by Kafka's spout is pending or matched, and never read again. *)
LEMMA PendingFacts ==
  ASSUME SpoutType, StormType, ModeInv, PlaceInv, NEW f \in Frames, f \in pending
  PROVE  /\ kafka /\ tuples = {} /\ ~InSpout(f) /\ ~Ahead(f) /\ ~InTopic(f)
<1>1. PICK i \in 1 .. offset : topic[i] = f
  BY DEF PlaceInv
<1>2. i \in 1 .. Len(topic) /\ offset \in Nat /\ Len(topic) \in Nat
  BY <1>1 DEF StormType
<1>3. ~Ahead(f)
  <2>1. ~Ahead(topic[i])
    BY <1>2 DEF PlaceInv
  <2> QED BY <1>1, <2>1
<1>4. ~InTopic(f)
  BY <1>1, <1>2 DEF InTopic, PlaceInv
<1>5. kafka /\ tuples = {} /\ spc = "closed"
  BY DEF ModeInv
<1> QED BY <1>3, <1>4, <1>5 DEF InSpout

(* Whoever has a frame is the only one. *)
LEMMA PlaceStep ==
  ASSUME ProcType, TransType, ResType, SpoutType, StormType, FrameInv, ModeInv, LinkInv, PlaceInv, Next
  PROVE  PlaceInv'
<1> USE DEF process, finding, transmit, result, spout, storm
<1>a. \A e \in Frames : ~Ahead(e) => ~Ahead(e)'
  BY AheadStays
<1>1. ASSUME Start PROVE PlaceInv'
  BY <1>1 DEF Start, PlaceInv, Ahead, InSpout, StormType
<1>2. ASSUME Told PROVE PlaceInv'
  BY <1>2 DEF Told, PlaceInv, Ahead, InSpout, StormType, SpoutIP
<1>3. ASSUME Here PROVE PlaceInv'
  BY <1>3, SMTT(30) DEF Here, PlaceInv, Ahead, InSpout, StormType, Found
<1>4. ASSUME NEW s \in Sessions, Close(s) PROVE PlaceInv'
  BY <1>4 DEF Close, PlaceInv, Ahead, InSpout, StormType
<1>5. ASSUME NEW s \in Sessions, Begin(s) PROVE PlaceInv'
  BY <1>5 DEF Begin, PlaceInv, Ahead, InSpout, StormType
<1>6. ASSUME NEW s \in Sessions, TRead(s) PROVE PlaceInv'
  <2>1. UNCHANGED <<topic, offset, pending, tuples, spc, img, net>>
    BY <1>6 DEF TRead
  <2>2. \A f \in Frames : (InSpout(f)' => InSpout(f)) /\ (net'[f] > 0 => ~Ahead(f))
    BY <2>1 DEF InSpout, PlaceInv
  <2> QED BY <1>a, <2>1, <2>2, PlaceKept
<1>7. ASSUME NEW s \in Sessions, TProduce(s) PROVE PlaceInv'
  <2>1. /\ spc' = "closed" /\ tuples = {}
        /\ UNCHANGED <<spc, img, tuples, pending, offset, net, replays>>
        /\ Len(topic) \in Nat /\ offset \in 0 .. Len(topic)
    BY <1>7, ProduceFacts
  <2>g. PICK g \in Frames :
          /\ Ahead(g) /\ ~Ahead(g)'
          /\ \/ topic' = topic
             \/ /\ Len(topic') = Len(topic) + 1 /\ topic'[Len(topic) + 1] = g
                /\ \A i \in 1 .. Len(topic) : topic'[i] = topic[i] /\ topic[i] \in Frames
    BY <1>7, ProduceFacts
  <2>2. \A e \in Frames : ~InSpout(e)'
    BY <2>1 DEF InSpout
  <2>3. CASE topic' = topic
    <3>1. \A e \in Frames : (InSpout(e)' => InSpout(e)) /\ (net'[e] > 0 => ~Ahead(e))
      BY <2>1, <2>2 DEF PlaceInv
    <3> QED BY <1>a, <2>1, <2>3, <3>1, PlaceKept
  <2>4. CASE topic' # topic
    <3>1. /\ Len(topic') = Len(topic) + 1 /\ topic'[Len(topic) + 1] = g
          /\ \A i \in 1 .. Len(topic) : topic'[i] = topic[i] /\ topic[i] \in Frames
      BY <2>4, <2>g
    <3>2. ~Ahead(g)'
      BY <2>g
    <3>3. \A i \in 1 .. Len(topic') : ~Ahead(topic[i])'
      <4> TAKE i \in 1 .. Len(topic')
      <4>1. PICK e \in Frames : e = topic'[i] /\ ~Ahead(e)'
        <5>1. CASE i = Len(topic) + 1
          BY <2>1, <3>1, <3>2, <5>1
        <5>2. CASE i \in 1 .. Len(topic)
          <6>1. topic'[i] \in Frames /\ ~Ahead(topic[i])
            BY <3>1, <5>2 DEF PlaceInv
          <6> QED BY <1>a, <3>1, <5>2, <6>1
        <5>3. i \in 1 .. Len(topic) + 1
          BY <3>1
        <5> QED BY <2>1, <5>1, <5>2, <5>3
      <4> QED BY <4>1 DEF Ahead
    <3>4. \A i \in 1 .. Len(topic) : topic[i] # g
      BY <2>g DEF PlaceInv
    <3>5. \A i, j \in 1 .. Len(topic') : topic'[i] = topic'[j] => i = j
      <4>1. \A i \in 1 .. Len(topic') : i = Len(topic) + 1 \/ i \in 1 .. Len(topic)
        BY <2>1, <3>1
      <4> QED BY <3>1, <3>4, <4>1 DEF PlaceInv
    <3>6. ASSUME NEW e \in Frames
          PROVE  /\ e \in tuples' \/ InSpout(e)' \/ net'[e] > 0 => ~Ahead(e)'
                 /\ e \in tuples' => ~InSpout(e)'
                 /\ e \in pending' => \E i \in 1 .. offset' : topic'[i] = e
      <4>1. net[e] > 0 => ~Ahead(e)'
        BY <1>a DEF PlaceInv
      <4>2. e \in pending => \E i \in 1 .. offset : topic'[i] = e
        <5>1. \A i \in 1 .. offset : i \in 1 .. Len(topic)
          BY <2>1
        <5> QED BY <3>1, <5>1 DEF PlaceInv
      <4> QED BY <2>1, <2>2, <4>1, <4>2
    <3> QED BY <2>1, <3>3, <3>5, <3>6 DEF PlaceInv
  <2> QED BY <2>3, <2>4
<1>8. ASSUME NEW s \in Sessions, TConnect(s) PROVE PlaceInv'
  BY <1>8, SMTT(60) DEF TConnect, PlaceInv, Ahead, InSpout, StormType, TGoto, Link
<1>9. ASSUME NEW s \in Sessions, TImage(s) PROVE PlaceInv'
  BY <1>9, SMTT(30) DEF TImage, PlaceInv, Ahead, InSpout, StormType, TGoto
<1>10. ASSUME NEW s \in Sessions, TAck(s) PROVE PlaceInv'
  <2>1. UNCHANGED <<topic, offset, pending, tuples, spc, img, net>>
    BY <1>10 DEF TAck
  <2>2. \A f \in Frames : (InSpout(f)' => InSpout(f)) /\ (net'[f] > 0 => ~Ahead(f))
    BY <2>1 DEF InSpout, PlaceInv
  <2> QED BY <1>a, <2>1, <2>2, PlaceKept
<1>11. ASSUME NEW s \in Sessions, TReset(s) PROVE PlaceInv'
  BY <1>11, SMTT(60) DEF TReset, PlaceInv, Ahead, InSpout, StormType, TGoto
<1>12. ASSUME NEW s \in Sessions, TPush(s) PROVE PlaceInv'
  BY <1>12 DEF TPush, PlaceInv, Ahead, InSpout, StormType, TGoto, Frame
<1>13. ASSUME NEW s \in Sessions, TPost(s) PROVE PlaceInv'
  BY <1>13 DEF TPost, PlaceInv, Ahead, InSpout, StormType, TGoto, Post
<1>14. ASSUME NEW s \in Sessions, THangup(s) PROVE PlaceInv'
  BY <1>14 DEF THangup, PlaceInv, Ahead, InSpout, StormType, TGoto, Post
<1>15. ASSUME NEW s \in Sessions, ROpen(s) PROVE PlaceInv'
  BY <1>15 DEF ROpen, PlaceInv, Ahead, InSpout, StormType, RGoto
<1>16. ASSUME NEW s \in Sessions, RBind(s) PROVE PlaceInv'
  BY <1>16 DEF RBind, PlaceInv, Ahead, InSpout, StormType, RGoto
<1>17. ASSUME NEW s \in Sessions, RWait(s) PROVE PlaceInv'
  BY <1>17 DEF RWait, PlaceInv, Ahead, InSpout, StormType, RGoto
<1>18. ASSUME NEW s \in Sessions, RRecv(s) PROVE PlaceInv'
  BY <1>18 DEF RRecv, PlaceInv, Ahead, InSpout, StormType, RGoto
<1>19. ASSUME NEW s \in Sessions, RFree(s) PROVE PlaceInv'
  BY <1>19, SMTT(60) DEF RFree, PlaceInv, Ahead, InSpout, StormType, RGoto
<1>20. ASSUME PListen PROVE PlaceInv'
  BY <1>20 DEF PListen, PlaceInv, Ahead, InSpout, StormType, Spouting
<1>21. ASSUME PAccept PROVE PlaceInv'
  <2>1. UNCHANGED <<topic, offset, pending, tuples, img, net>> /\ spc' = "size"
    BY <1>21 DEF PAccept, Spouting
  <2>2. \A f \in Frames : (InSpout(f)' => InSpout(f)) /\ (net'[f] > 0 => ~Ahead(f))
    BY <2>1 DEF InSpout, PlaceInv
  <2> QED BY <1>a, <2>1, <2>2, PlaceKept
<1>22. ASSUME PSize PROVE PlaceInv'
  <2>1. UNCHANGED <<topic, offset, pending, tuples, img, net>> /\ spc' = "data"
    BY <1>22 DEF PSize, Spouting
  <2>2. \A f \in Frames : (InSpout(f)' => InSpout(f)) /\ (net'[f] > 0 => ~Ahead(f))
    BY <2>1 DEF InSpout, PlaceInv
  <2> QED BY <1>a, <2>1, <2>2, PlaceKept
<1>23. ASSUME PData PROVE PlaceInv'
  <2>1. UNCHANGED <<topic, offset, pending, tuples, net>>
    BY <1>23 DEF PData
  <2>2. PICK g \in Frames : /\ Ahead(g) /\ ~Ahead(g)' /\ img' = g
                           /\ spc = "data" /\ spc' = "close"
    BY <1>23, DataFacts
  <2>3. \A e \in Frames : InSpout(e)' <=> e = g
    BY <2>2 DEF InSpout
  <2>4. \A i \in 1 .. Len(topic) : ~Ahead(topic[i])'
    <3> TAKE i \in 1 .. Len(topic)
    <3>1. PICK e \in Frames : e = topic[i] /\ ~Ahead(e)
      BY SMTT(30) DEF PlaceInv, StormType
    <3>2. ~Ahead(e)'
      BY <1>a, <3>1
    <3> QED BY <2>1, <3>1, <3>2 DEF Ahead
  <2>5. ASSUME NEW e \in Frames
        PROVE  /\ e \in tuples \/ InSpout(e)' \/ net[e] > 0 => ~Ahead(e)'
               /\ e \in tuples => ~InSpout(e)'
               /\ e \in pending => \E i \in 1 .. offset : topic[i] = e
    <3>1. CASE e = g
      BY <2>2, <2>3, <3>1 DEF PlaceInv
    <3>2. CASE e # g
      BY <1>a, <2>3, <3>2 DEF PlaceInv
    <3> QED BY <3>1, <3>2
  <2> QED BY <2>1, <2>4, <2>5 DEF PlaceInv
<1>24. ASSUME PClose PROVE PlaceInv'
  <2>1. UNCHANGED <<topic, offset, pending, tuples, img, net>> /\ spc = "close"
    BY <1>24 DEF PClose, Spouting
  <2>2. \A f \in Frames : (InSpout(f)' => InSpout(f)) /\ (net'[f] > 0 => ~Ahead(f))
    BY <2>1 DEF InSpout, PlaceInv
  <2> QED BY <1>a, <2>1, <2>2, PlaceKept
<1>25. ASSUME PEmit PROVE PlaceInv'
  BY <1>25 DEF PEmit, PlaceInv, Ahead, InSpout, StormType, Spouting
<1>26. ASSUME KEmit PROVE PlaceInv'
  BY <1>26 DEF KEmit, PlaceInv, Ahead, InSpout, StormType
<1>27. ASSUME NEW f \in Frames, BMatch(f) PROVE PlaceInv'
  BY <1>27 DEF BMatch, PlaceInv, Ahead, InSpout, StormType
<1>28. ASSUME NEW f \in Frames, KMatch(f) PROVE PlaceInv'
  <2>1. UNCHANGED <<topic, offset, tuples, spc, img>> /\ pending' \subseteq pending
    BY <1>28 DEF KMatch
  <2>2. ~Ahead(f)
    BY <1>28, PendingFacts DEF KMatch
  <2>3. \A e \in Frames : e # f => net'[e] = net[e]
    <3>1. CASE net' = net
      BY <3>1
    <3>2. CASE net' = [net EXCEPT ![f] = net[f] + 1]
      BY <3>2 DEF StormType
    <3> QED BY <1>28, <3>1, <3>2 DEF KMatch
  <2>4. \A e \in Frames : (InSpout(e)' => InSpout(e)) /\ (net'[e] > 0 => ~Ahead(e))
    BY <2>1, <2>2, <2>3 DEF InSpout, PlaceInv
  <2> QED BY <1>a, <2>1, <2>4, PlaceKept
<1>29. ASSUME NEW f \in Frames, Lose(f) PROVE PlaceInv'
  BY <1>29 DEF Lose, PlaceInv, Ahead, InSpout, StormType
<1> QED BY <1>1, <1>2, <1>3, <1>4, <1>5, <1>6, <1>7, <1>8, <1>9, <1>10, <1>11, <1>12, <1>13, <1>14, <1>15, <1>16, <1>17, <1>18, <1>19, <1>20, <1>21, <1>22, <1>23, <1>24, <1>25, <1>26, <1>27, <1>28, <1>29, NextSteps

(* How a step may change the datagrams of a frame: it sends one only with the  *)
(* end of an emission. *)
Sent(e) ==
  \/ net'[e] <= net[e] /\ replays'[e] = replays[e] /\ (ToMatch(e)' => ToMatch(e))
  \/ /\ net'[e] <= net[e] + 1 /\ replays'[e] = replays[e]
     /\ ToMatch(e) /\ ~ToMatch(e)'
  \/ /\ net'[e] <= net[e] + 1 /\ replays'[e] = replays[e] + 1
     /\ ToMatch(e)' => ToMatch(e)

\* A step that leaves tuples and datagrams, and begins no emission, sends no result.
LEMMA SentKept ==
  ASSUME StormType, \A e \in Frames : ~Ahead(e) => ~Ahead(e)',
         UNCHANGED <<topic, offset, pending, tuples, net, replays, img>>,
         spc' \in {"close", "emit"} => spc \in {"close", "emit"}
  PROVE  \A e \in Frames : Sent(e)
<1>1. \A e \in Frames : ToMatch(e)' => ToMatch(e)
  BY DEF ToMatch, InTopic, InSpout
<1>2. \A e \in Frames : net'[e] <= net[e] /\ replays'[e] = replays[e]
  BY DEF StormType
<1> QED BY <1>1, <1>2 DEF Sent

\* A step makes at most one result of a frame, and only when its emission ends.
LEMMA SentStep ==
  ASSUME ProcType, TransType, ResType, SpoutType, StormType, FrameInv, ModeInv, LinkInv, PlaceInv, Next
  PROVE  \A e \in Frames : Sent(e)
<1> USE DEF process, finding, transmit, result, spout, storm
<1>a. \A e \in Frames : ~Ahead(e) => ~Ahead(e)'
  BY AheadStays
<1>b. \A e \in Frames : net[e] \in Nat
  BY DEF StormType
<1>1. ASSUME Start PROVE \A e \in Frames : Sent(e)
  <2>1. UNCHANGED <<topic, offset, pending, tuples, net, replays, img>> /\ spc' = spc
    BY <1>1 DEF Start
  <2> QED BY <1>a, <2>1, SentKept
<1>2. ASSUME Told PROVE \A e \in Frames : Sent(e)
  <2>1. UNCHANGED <<topic, offset, pending, tuples, net, replays, img>> /\ spc' = spc
    BY <1>2 DEF Told
  <2> QED BY <1>a, <2>1, SentKept
<1>3. ASSUME Here PROVE \A e \in Frames : Sent(e)
  <2>1. UNCHANGED <<topic, offset, pending, tuples, net, replays, img>> /\ spc' = spc
    BY <1>3 DEF Here
  <2> QED BY <1>a, <2>1, SentKept
<1>4. ASSUME NEW s \in Sessions, Close(s) PROVE \A e \in Frames : Sent(e)
  <2>1. UNCHANGED <<topic, offset, pending, tuples, net, replays, img>> /\ spc' = spc
    BY <1>4 DEF Close
  <2> QED BY <1>a, <2>1, SentKept
<1>5. ASSUME NEW s \in Sessions, Begin(s) PROVE \A e \in Frames : Sent(e)
  <2>1. UNCHANGED <<topic, offset, pending, tuples, net, replays, img>> /\ spc' = spc
    BY <1>5 DEF Begin
  <2> QED BY <1>a, <2>1, SentKept
<1>6. ASSUME NEW s \in Sessions, TRead(s) PROVE \A e \in Frames : Sent(e)
  <2>1. UNCHANGED <<topic, offset, pending, tuples, net, replays, img>> /\ spc' = spc
    BY <1>6 DEF TRead
  <2> QED BY <1>a, <2>1, SentKept
<1>7. ASSUME NEW s \in Sessions, TProduce(s) PROVE \A e \in Frames : Sent(e)
  <2>1. UNCHANGED <<spc, img, tuples, pending, offset, net, replays>>
        /\ Len(topic) \in Nat /\ offset \in 0 .. Len(topic)
    BY <1>7, ProduceFacts
  <2>2. PICK g \in Frames :
          /\ Ahead(g)
          /\ \/ topic' = topic
             \/ /\ Len(topic') = Len(topic) + 1 /\ topic'[Len(topic) + 1] = g
                /\ \A i \in 1 .. Len(topic) : topic'[i] = topic[i] /\ topic[i] \in Frames
    BY <1>7, ProduceFacts
  <2>3. \A e \in Frames : e # g /\ InTopic(e)' => InTopic(e)
    <3>1. CASE topic' = topic
      BY <2>1, <3>1 DEF InTopic
    <3>2. CASE topic' # topic
      <4> SUFFICES ASSUME NEW e \in Frames, e # g, InTopic(e)' PROVE InTopic(e)
        OBVIOUS
      <4>1. PICK i \in offset + 1 .. Len(topic') : topic'[i] = e
        BY <2>1 DEF InTopic
      <4>2. i \in offset + 1 .. Len(topic) /\ i \in 1 .. Len(topic)
        BY <2>1, <2>2, <3>2, <4>1
      <4> QED BY <2>2, <3>2, <4>1, <4>2 DEF InTopic
    <3> QED BY <3>1, <3>2
  <2>4. ASSUME NEW e \in Frames
        PROVE  ToMatch(e)' => ToMatch(e)
    <3>1. CASE e = g
      BY <2>2, <3>1 DEF ToMatch
    <3>2. CASE e # g
      BY <1>a, <2>1, <2>3, <3>2 DEF ToMatch, InSpout
    <3> QED BY <3>1, <3>2
  <2> QED BY <1>b, <2>1, <2>4 DEF Sent
<1>8. ASSUME NEW s \in Sessions, TConnect(s) PROVE \A e \in Frames : Sent(e)
  <2>1. UNCHANGED <<topic, offset, pending, tuples, net, replays, img>> /\ spc' = spc
    BY <1>8 DEF TConnect
  <2> QED BY <1>a, <2>1, SentKept
<1>9. ASSUME NEW s \in Sessions, TImage(s) PROVE \A e \in Frames : Sent(e)
  <2>1. UNCHANGED <<topic, offset, pending, tuples, net, replays, img>> /\ spc' = spc
    BY <1>9 DEF TImage
  <2> QED BY <1>a, <2>1, SentKept
<1>10. ASSUME NEW s \in Sessions, TAck(s) PROVE \A e \in Frames : Sent(e)
  <2>1. UNCHANGED <<topic, offset, pending, tuples, net, replays, img>> /\ spc' = spc
    BY <1>10 DEF TAck
  <2> QED BY <1>a, <2>1, SentKept
<1>11. ASSUME NEW s \in Sessions, TReset(s) PROVE \A e \in Frames : Sent(e)
  <2>1. UNCHANGED <<topic, offset, pending, tuples, net, replays, img>> /\ spc' = spc
    BY <1>11 DEF TReset
  <2> QED BY <1>a, <2>1, SentKept
<1>12. ASSUME NEW s \in Sessions, TPush(s) PROVE \A e \in Frames : Sent(e)
  <2>1. UNCHANGED <<topic, offset, pending, tuples, net, replays, img>> /\ spc' = spc
    BY <1>12 DEF TPush
  <2> QED BY <1>a, <2>1, SentKept
<1>13. ASSUME NEW s \in Sessions, TPost(s) PROVE \A e \in Frames : Sent(e)
  <2>1. UNCHANGED <<topic, offset, pending, tuples, net, replays, img>> /\ spc' = spc
    BY <1>13 DEF TPost
  <2> QED BY <1>a, <2>1, SentKept
<1>14. ASSUME NEW s \in Sessions, THangup(s) PROVE \A e \in Frames : Sent(e)
  <2>1. UNCHANGED <<topic, offset, pending, tuples, net, replays, img>> /\ spc' = spc
    BY <1>14 DEF THangup
  <2> QED BY <1>a, <2>1, SentKept
<1>15. ASSUME NEW s \in Sessions, ROpen(s) PROVE \A e \in Frames : Sent(e)
  <2>1. UNCHANGED <<topic, offset, pending, tuples, net, replays, img>> /\ spc' = spc
    BY <1>15 DEF ROpen
  <2> QED BY <1>a, <2>1, SentKept
<1>16. ASSUME NEW s \in Sessions, RBind(s) PROVE \A e \in Frames : Sent(e)
  <2>1. UNCHANGED <<topic, offset, pending, tuples, net, replays, img>> /\ spc' = spc
    BY <1>16 DEF RBind
  <2> QED BY <1>a, <2>1, SentKept
<1>17. ASSUME NEW s \in Sessions, RWait(s) PROVE \A e \in Frames : Sent(e)
  <2>1. UNCHANGED <<topic, offset, pending, tuples, net, replays, img>> /\ spc' = spc
    BY <1>17 DEF RWait
  <2> QED BY <1>a, <2>1, SentKept
<1>18. ASSUME NEW s \in Sessions, RRecv(s) PROVE \A e \in Frames : Sent(e)
  <2>1. /\ UNCHANGED <<topic, offset, pending, tuples, replays, spc, img>>
        /\ \E g \in Frames : net' = [net EXCEPT ![g] = net[g] - 1]
    BY <1>18 DEF RRecv
  <2>2. \A e \in Frames : net'[e] <= net[e]
    BY <1>b, <2>1 DEF StormType
  <2>3. \A e \in Frames : ToMatch(e)' => ToMatch(e)
    BY <1>a, <2>1 DEF ToMatch, InSpout, InTopic
  <2> QED BY <2>1, <2>2, <2>3 DEF Sent
<1>19. ASSUME NEW s \in Sessions, RFree(s) PROVE \A e \in Frames : Sent(e)
  <2>1. UNCHANGED <<topic, offset, pending, tuples, net, replays, img>> /\ spc' = spc
    BY <1>19 DEF RFree
  <2> QED BY <1>a, <2>1, SentKept
<1>20. ASSUME PListen PROVE \A e \in Frames : Sent(e)
  <2>1. UNCHANGED <<topic, offset, pending, tuples, net, replays, img>> /\ spc' = "accept"
    BY <1>20 DEF PListen, Spouting
  <2> QED BY <1>a, <2>1, SentKept
<1>21. ASSUME PAccept PROVE \A e \in Frames : Sent(e)
  <2>1. UNCHANGED <<topic, offset, pending, tuples, net, replays, img>> /\ spc' = "size"
    BY <1>21 DEF PAccept, Spouting
  <2> QED BY <1>a, <2>1, SentKept
<1>22. ASSUME PSize PROVE \A e \in Frames : Sent(e)
  <2>1. UNCHANGED <<topic, offset, pending, tuples, net, replays, img>> /\ spc' = "data"
    BY <1>22 DEF PSize, Spouting
  <2> QED BY <1>a, <2>1, SentKept
<1>23. ASSUME PData PROVE \A e \in Frames : Sent(e)
  <2>1. UNCHANGED <<topic, offset, pending, tuples, net, replays>>
    BY <1>23 DEF PData
  <2>2. PICK g \in Frames : Ahead(g) /\ img' = g
    BY <1>23, DataFacts
  <2>3. ASSUME NEW e \in Frames
        PROVE  ToMatch(e)' => ToMatch(e)
    <3>1. CASE e = g
      BY <2>2, <3>1 DEF ToMatch
    <3>2. CASE e # g
      BY <1>a, <2>1, <2>2, <3>2 DEF ToMatch, InSpout, InTopic
    <3> QED BY <3>1, <3>2
  <2> QED BY <1>b, <2>1, <2>3 DEF Sent
<1>24. ASSUME PClose PROVE \A e \in Frames : Sent(e)
  <2>1. UNCHANGED <<topic, offset, pending, tuples, net, replays, img>> /\ spc = "close"
    BY <1>24 DEF PClose, Spouting
  <2> QED BY <1>a, <2>1, SentKept
<1>25. ASSUME PEmit PROVE \A e \in Frames : Sent(e)
  <2>1. /\ UNCHANGED <<topic, offset, pending, net, replays, img>>
        /\ tuples' = tuples \cup {img} /\ spc = "emit" /\ spc' = "closed"
    BY <1>25 DEF PEmit, Spouting
  <2>2. \A e \in Frames : ToMatch(e)' => ToMatch(e)
    BY <1>a, <2>1 DEF ToMatch, InSpout, InTopic
  <2> QED BY <1>b, <2>1, <2>2 DEF Sent
<1>26. ASSUME KEmit PROVE \A e \in Frames : Sent(e)
  <2>1. /\ UNCHANGED <<topic, tuples, net, replays, spc, img>> /\ offset < Len(topic)
        /\ pending' = pending \cup {topic[offset + 1]} /\ offset' = offset + 1
    BY <1>26 DEF KEmit
  <2>2. offset \in Nat /\ Len(topic) \in Nat
    BY DEF StormType
  <2>3. \A e \in Frames : e \in pending' => e \in pending \/ InTopic(e)
    BY <2>1, <2>2 DEF InTopic
  <2>4. \A e \in Frames : InTopic(e)' => InTopic(e)
    BY <2>1, <2>2 DEF InTopic
  <2>5. \A e \in Frames : ToMatch(e)' => ToMatch(e)
    BY <1>a, <2>1, <2>3, <2>4 DEF ToMatch, InSpout
  <2> QED BY <1>b, <2>1, <2>5 DEF Sent
<1>27. ASSUME NEW f \in Frames, BMatch(f) PROVE \A e \in Frames : Sent(e)
  <2>1. /\ f \in tuples /\ tuples' = tuples \ {f}
        /\ UNCHANGED <<spc, img, topic, offset, pending, replays>>
    BY <1>27 DEF BMatch
  <2>2. net'[f] <= net[f] + 1 /\ \A e \in Frames : e # f => net'[e] = net[e]
    <3>1. CASE net' = net
      BY <3>1 DEF StormType
    <3>2. CASE net' = [net EXCEPT ![f] = net[f] + 1]
      BY <3>2 DEF StormType
    <3> QED BY <1>27, <3>1, <3>2 DEF BMatch
  <2>3. ToMatch(f)
    BY <2>1 DEF ToMatch
  <2>4. ~ToMatch(f)'
    <3>1. ~Ahead(f)' /\ ~InSpout(f)'
      BY <1>a, <2>1 DEF PlaceInv, InSpout
    <3>2. topic = <<>> /\ pending = {}
      BY <2>1 DEF ModeInv
    <3>3. ~InTopic(f)'
      BY <2>1, <3>2 DEF InTopic, StormType
    <3> QED BY <2>1, <3>1, <3>2, <3>3 DEF ToMatch
  <2>5. \A e \in Frames : ToMatch(e)' => ToMatch(e)
    BY <1>a, <2>1 DEF ToMatch, InSpout, InTopic
  <2> QED BY <1>b, <2>1, <2>2, <2>3, <2>4, <2>5 DEF Sent
<1>28. ASSUME NEW f \in Frames, KMatch(f) PROVE \A e \in Frames : Sent(e)
  <2>1. f \in pending /\ UNCHANGED <<tuples, spc, img, topic, offset>>
    BY <1>28 DEF KMatch
  <2>2. net'[f] <= net[f] + 1 /\ \A e \in Frames : e # f => net'[e] = net[e]
    <3>1. CASE net' = net
      BY <3>1 DEF StormType
    <3>2. CASE net' = [net EXCEPT ![f] = net[f] + 1]
      BY <3>2 DEF StormType
    <3> QED BY <1>28, <3>1, <3>2 DEF KMatch
  <2>3. ToMatch(f)
    BY <2>1 DEF ToMatch
  <2>5. CASE pending' = pending \ {f} /\ replays' = replays
    <3>1. ~Ahead(f)' /\ ~InSpout(f)' /\ ~InTopic(f)' /\ f \notin tuples
      BY <1>a, <2>1, PendingFacts DEF InSpout, InTopic
    <3>2. ~ToMatch(f)'
      BY <2>1, <2>5, <3>1 DEF ToMatch
    <3>3. \A e \in Frames : ToMatch(e)' => ToMatch(e)
      BY <1>a, <2>1, <2>5 DEF ToMatch, InSpout, InTopic
    <3> QED BY <1>b, <2>2, <2>3, <2>5, <3>2, <3>3 DEF Sent
  <2>6. CASE pending' = pending /\ replays' = [replays EXCEPT ![f] = replays[f] + 1]
    <3>1. \A e \in Frames : ToMatch(e)' => ToMatch(e)
      BY <1>a, <2>1, <2>6 DEF ToMatch, InSpout, InTopic
    <3>2. replays'[f] = replays[f] + 1 /\ \A e \in Frames : e # f => replays'[e] = replays[e]
      BY <2>6 DEF StormType
    <3> QED BY <1>b, <2>2, <3>1, <3>2 DEF Sent
  <2> QED BY <1>28, <2>5, <2>6 DEF KMatch
<1>29. ASSUME NEW f \in Frames, Lose(f) PROVE \A e \in Frames : Sent(e)
  <2>1. /\ UNCHANGED <<topic, offset, pending, tuples, replays, spc, img>>
        /\ net' = [net EXCEPT ![f] = net[f] - 1]
    BY <1>29 DEF Lose
  <2>2. \A e \in Frames : net'[e] <= net[e]
    BY <1>b, <2>1 DEF StormType
  <2>3. \A e \in Frames : ToMatch(e)' => ToMatch(e)
    BY <1>a, <2>1 DEF ToMatch, InSpout, InTopic
  <2> QED BY <2>1, <2>2, <2>3 DEF Sent
<1> QED BY <1>1, <1>2, <1>3, <1>4, <1>5, <1>6, <1>7, <1>8, <1>9, <1>10, <1>11, <1>12, <1>13, <1>14, <1>15, <1>16, <1>17, <1>18, <1>19, <1>20, <1>21, <1>22, <1>23, <1>24, <1>25, <1>26, <1>27, <1>28, <1>29, NextSteps

(* The results received: they change with the end of recv() only, by the one *)
(* that was taken. *)
LEMMA ReceptionFacts ==
  ASSUME NEW q, NEW f, NEW r
  PROVE  r \in UNION {{s} \X {i \in 1 .. Len(q[s]) : q[s][i] = f} : s \in Sessions} <=>
           \E t \in Sessions : \E i \in 1 .. Len(q[t]) : q[t][i] = f /\ r = <<t, i>>
OBVIOUS

\* Nothing is received but by recv().
LEMMA GotKept ==
  ASSUME Next, \A s \in Sessions : ~RRecv(s)
  PROVE  got' = got
<1> USE DEF process, finding, transmit, result, spout, storm
<1>1. CASE Start \/ Told \/ Here
  BY <1>1 DEF Start, Told, Here
<1>2. ASSUME NEW s \in Sessions,
             \/ Close(s) \/ Begin(s) \/ TRead(s) \/ TProduce(s) \/ TConnect(s) \/ TImage(s)
             \/ TAck(s) \/ TReset(s) \/ TPush(s) \/ TPost(s) \/ THangup(s)
      PROVE  got' = got
  BY <1>2 DEF Close, Begin, TRead, TProduce, TConnect, TImage, TAck, TReset, TPush, TPost,
              THangup
<1>3. ASSUME NEW s \in Sessions, ROpen(s) \/ RBind(s) \/ RWait(s) \/ RFree(s)
      PROVE  got' = got
  BY <1>3 DEF ROpen, RBind, RWait, RFree
<1>4. CASE PListen \/ PAccept \/ PSize \/ PData \/ PClose \/ PEmit \/ KEmit
  BY <1>4 DEF PListen, PAccept, PSize, PData, PClose, PEmit, KEmit
<1>5. ASSUME NEW f \in Frames, BMatch(f) \/ KMatch(f) \/ Lose(f)
      PROVE  got' = got
  BY <1>5 DEF BMatch, KMatch, Lose
<1> QED BY <1>1, <1>2, <1>3, <1>4, <1>5, NextSteps

\* What recv() takes is one more reception of its frame.
LEMMA ReceptionAdded ==
  ASSUME ResType, NEW s \in Sessions, NEW g \in Frames, NEW f \in Frames,
         got' = [got EXCEPT ![s] = Append(got[s], g)]
  PROVE  Receptions(f)' = IF f = g THEN Receptions(f) \cup {<<s, Len(got[s]) + 1>>}
                                   ELSE Receptions(f)
<1>1. /\ got[s] \in Seq(Frames) /\ got'[s] = Append(got[s], g)
      /\ \A t \in Sessions : t # s => got'[t] = got[t]
  BY DEF ResType
<1>2. /\ Len(got[s]) \in Nat /\ Len(got'[s]) = Len(got[s]) + 1
      /\ got'[s][Len(got[s]) + 1] = g
      /\ \A i \in 1 .. Len(got[s]) : got'[s][i] = got[s][i]
  BY <1>1, AppendFacts
<1>3. \A i \in 1 .. Len(got'[s]) : i \in 1 .. Len(got[s]) \/ i = Len(got[s]) + 1
  BY <1>2
<1>4. \A i \in 1 .. Len(got[s]) : i \in 1 .. Len(got'[s])
  BY <1>2
<1>5. Len(got[s]) + 1 \in 1 .. Len(got'[s])
  BY <1>2
<1>6. ASSUME NEW r \in Receptions(f)
      PROVE  r \in Receptions(f)'
  <2>1. PICK t \in Sessions : \E i \in 1 .. Len(got[t]) : got[t][i] = f /\ r = <<t, i>>
    BY ReceptionFacts DEF Receptions
  <2>2. PICK i \in 1 .. Len(got[t]) : got[t][i] = f /\ r = <<t, i>>
    BY <2>1
  <2>3. i \in 1 .. Len(got'[t]) /\ got'[t][i] = f
    BY <1>1, <1>2, <1>4, <2>2
  <2> QED BY <2>2, <2>3, ReceptionFacts DEF Receptions
<1>7. ASSUME NEW r \in Receptions(f)'
      PROVE  r \in Receptions(f) \/ (f = g /\ r = <<s, Len(got[s]) + 1>>)
  <2>1. PICK t \in Sessions : \E i \in 1 .. Len(got'[t]) : got'[t][i] = f /\ r = <<t, i>>
    BY ReceptionFacts DEF Receptions
  <2>2. PICK i \in 1 .. Len(got'[t]) : got'[t][i] = f /\ r = <<t, i>>
    BY <2>1
  <2>3. CASE t = s /\ i = Len(got[s]) + 1
    BY <1>2, <2>2, <2>3
  <2>4. CASE ~(t = s /\ i = Len(got[s]) + 1)
    <3>1. i \in 1 .. Len(got[t]) /\ got[t][i] = f
      BY <1>1, <1>2, <1>3, <2>2, <2>4
    <3> QED BY <2>2, <3>1, ReceptionFacts DEF Receptions
  <2> QED BY <2>3, <2>4
<1>8. ASSUME f = g
      PROVE  <<s, Len(got[s]) + 1>> \in Receptions(f)'
  BY <1>2, <1>5, <1>8, ReceptionFacts DEF Receptions
<1> QED BY <1>6, <1>7, <1>8

\* A set with one element more has at most one more.
LEMMA OneMore ==
  ASSUME NEW S, NEW x, IsFiniteSet(S)
  PROVE  /\ IsFiniteSet(S \cup {x}) /\ Cardinality(S \cup {x}) \in Nat
         /\ Cardinality(S) \in Nat /\ Cardinality(S \cup {x}) <= Cardinality(S) + 1
<1>1. /\ IsFiniteSet(S \cup {x})
      /\ Cardinality(S \cup {x}) = IF x \in S THEN Cardinality(S) ELSE Cardinality(S) + 1
  BY FS_AddElement
<1>2. Cardinality(S) \in Nat /\ Cardinality(S \cup {x}) \in Nat
  BY <1>1, FS_CardinalityType
<1> QED BY <1>1, <1>2

(* No more results are received and on their way than emissions are over. *)
LEMMA NetStep ==
  ASSUME ProcType, TransType, ResType, SpoutType, StormType, FrameInv, ModeInv, LinkInv,
         PlaceInv, NetInv, Next
  PROVE  NetInv'
<1> SUFFICES ASSUME NEW e \in Frames
             PROVE  /\ IsFiniteSet(Receptions(e)')
                    /\ Cardinality(Receptions(e)') + net'[e] <= Emissions(e)'
  BY DEF NetInv
<1> DEFINE n == Cardinality(Receptions(e))
           m == Cardinality(Receptions(e)')
<1>1. StormType' /\ Sent(e)
  BY StormTypeStep, SentStep
<1>2. /\ net[e] \in Nat /\ net'[e] \in Nat /\ replays[e] \in Nat /\ replays'[e] \in Nat
  BY <1>1 DEF StormType
<1>3. IsFiniteSet(Receptions(e)) /\ n + net[e] <= replays[e] + (IF ToMatch(e) THEN 0 ELSE 1)
  BY DEF NetInv, Emissions
<1>4. n \in Nat
  BY <1>3, FS_CardinalityType
<1>5. CASE \A s \in Sessions : ~RRecv(s)
  <2>1. Receptions(e)' = Receptions(e)
    BY <1>5, GotKept DEF Receptions
  <2>2. m = n /\ IsFiniteSet(Receptions(e)')
    BY <1>3, <2>1
  <2> HIDE DEF n, m
  <2>3. m + net'[e] <= replays'[e] + (IF ToMatch(e)' THEN 0 ELSE 1)
    BY <1>1, <1>2, <1>3, <1>4, <2>2 DEF Sent
  <2> QED BY <2>2, <2>3 DEF Emissions, m
<1>6. ASSUME NEW s \in Sessions, RRecv(s)
      PROVE  /\ IsFiniteSet(Receptions(e)')
             /\ Cardinality(Receptions(e)') + net'[e] <= Emissions(e)'
  <2>1. PICK g \in Frames :
          /\ net' = [net EXCEPT ![g] = net[g] - 1]
          /\ got' = got \/ got' = [got EXCEPT ![s] = Append(got[s], g)]
    BY <1>6 DEF RRecv
  <2>2. replays' = replays /\ (ToMatch(e)' => ToMatch(e))
    <3>1. replays' = replays
      BY <1>6 DEF RRecv
    <3>2. net'[e] <= net[e]
      BY <1>2, <2>1 DEF StormType
    <3> QED BY <1>1, <1>2, <3>1, <3>2 DEF Sent
  <2>3. net'[e] = IF e = g THEN net[e] - 1 ELSE net[e]
    BY <2>1 DEF StormType
  <2>4. /\ IsFiniteSet(Receptions(e)')
        /\ m \in Nat /\ m <= n + (IF e = g THEN 1 ELSE 0)
    <3>1. CASE got' = got
      <4>1. Receptions(e)' = Receptions(e)
        BY <3>1 DEF Receptions
      <4>2. IsFiniteSet(Receptions(e)') /\ m = n
        BY <1>3, <4>1
      <4> HIDE DEF n, m
      <4> QED BY <1>4, <4>2
    <3>2. CASE got' = [got EXCEPT ![s] = Append(got[s], g)]
      <4>1. Receptions(e)' = IF e = g THEN Receptions(e) \cup {<<s, Len(got[s]) + 1>>}
                                      ELSE Receptions(e)
        BY <3>2, ReceptionAdded
      <4>2. CASE e = g
        <5>1. Receptions(e)' = Receptions(e) \cup {<<s, Len(got[s]) + 1>>}
          BY <4>1, <4>2
        <5>2. IsFiniteSet(Receptions(e)') /\ m \in Nat /\ m <= n + 1
          BY <1>3, <5>1, OneMore, Zenon
        <5> HIDE DEF n, m
        <5> QED BY <1>4, <4>2, <5>2
      <4>3. CASE e # g
        <5>1. IsFiniteSet(Receptions(e)') /\ m = n
          BY <1>3, <4>1, <4>3
        <5> HIDE DEF n, m
        <5> QED BY <1>4, <4>3, <5>1
      <4> QED BY <4>2, <4>3
    <3> QED BY <2>1, <3>1, <3>2
  <2> HIDE DEF n, m
  <2>5. m + net'[e] <= replays'[e] + (IF ToMatch(e)' THEN 0 ELSE 1)
    BY <1>2, <1>3, <1>4, <2>2, <2>3, <2>4
  <2> QED BY <2>4, <2>5 DEF Emissions, m
<1> QED BY <1>5, <1>6

-----------------------------------------------------------------------------
(* The two threads of a session. *)
LEMMA SessionStep ==
  ASSUME ProcType, TransType, ResType, SpoutType, StormType, FrameInv, PortInv, LinkInv, SessionInv, CountInv, Next
  PROVE  SessionInv'
<1> USE DEF process, finding, transmit, result, spout, storm
<1>1. ASSUME Start PROVE SessionInv'
  BY <1>1 DEF Start, SessionInv, HasPort, BeforePush, ResType, TransType
<1>2. ASSUME Told PROVE SessionInv'
  BY <1>2 DEF Told, SessionInv, HasPort, BeforePush, ResType, TransType, SpoutIP
<1>3. ASSUME Here PROVE SessionInv'
  BY <1>3 DEF Here, SessionInv, HasPort, BeforePush, ResType, TransType, Found
<1>4. ASSUME NEW s \in Sessions, Close(s) PROVE SessionInv'
  BY <1>4 DEF Close, SessionInv, HasPort, BeforePush, ResType, TransType
<1>5. ASSUME NEW s \in Sessions, Begin(s) PROVE SessionInv'
  <2>1. /\ tpc[s] = "idle" /\ rpc' = [rpc EXCEPT ![s] = "open"]
        /\ tpc' = [tpc EXCEPT ![s] = "read"]
        /\ UNCHANGED <<frames, server, sem, sem_live, queue, got>>
    BY <1>5 DEF Begin
  <2>2. rpc[s] = "idle" /\ frames[s] = 0
    BY <2>1 DEF SessionInv, FrameInv
  <2> QED BY <2>1, <2>2 DEF SessionInv, HasPort, BeforePush, ResType, TransType
<1>6. ASSUME NEW s \in Sessions, TRead(s) PROVE SessionInv'
  BY <1>6 DEF TRead, SessionInv, HasPort, BeforePush, ResType, TransType, TGoto
<1>7. ASSUME NEW s \in Sessions, TProduce(s) PROVE SessionInv'
  BY <1>7 DEF TProduce, SessionInv, HasPort, BeforePush, ResType, TransType, TGoto, Frame
<1>8. ASSUME NEW s \in Sessions, TConnect(s) PROVE SessionInv'
  BY <1>8, SMTT(30) DEF TConnect, SessionInv, HasPort, BeforePush, ResType, TransType, TGoto, Link
<1>9. ASSUME NEW s \in Sessions, TImage(s) PROVE SessionInv'
  BY <1>9 DEF TImage, SessionInv, HasPort, BeforePush, ResType, TransType, TGoto
<1>10. ASSUME NEW s \in Sessions, TAck(s) PROVE SessionInv'
  BY <1>10 DEF TAck, SessionInv, HasPort, BeforePush, ResType, TransType, TGoto, Link
<1>11. ASSUME NEW s \in Sessions, TReset(s) PROVE SessionInv'
  BY <1>11 DEF TReset, SessionInv, HasPort, BeforePush, ResType, TransType, TGoto
<1>12. ASSUME NEW s \in Sessions, TPush(s) PROVE SessionInv'
  BY <1>12, SMTT(60) DEF TPush, SessionInv, HasPort, BeforePush, ResType, TransType, TGoto, Frame
<1>13. ASSUME NEW s \in Sessions, TPost(s) PROVE SessionInv'
  BY <1>13 DEF TPost, SessionInv, HasPort, BeforePush, ResType, TransType, TGoto, Post
<1>14. ASSUME NEW s \in Sessions, THangup(s) PROVE SessionInv'
  BY <1>14 DEF THangup, SessionInv, HasPort, BeforePush, ResType, TransType, TGoto, Post
<1>15. ASSUME NEW s \in Sessions, ROpen(s) PROVE SessionInv'
  BY <1>15 DEF ROpen, SessionInv, HasPort, BeforePush, ResType, TransType, RGoto
<1>16. ASSUME NEW s \in Sessions, RBind(s) PROVE SessionInv'
  BY <1>16 DEF RBind, SessionInv, HasPort, BeforePush, ResType, TransType, RGoto
<1>17. ASSUME NEW s \in Sessions, RWait(s) PROVE SessionInv'
  BY <1>17, SMTT(30) DEF RWait, SessionInv, HasPort, BeforePush, ResType, TransType, RGoto
<1>18. ASSUME NEW s \in Sessions, RRecv(s) PROVE SessionInv'
  BY <1>18, SMTT(30) DEF RRecv, SessionInv, HasPort, BeforePush, ResType, TransType, RGoto
<1>19. ASSUME NEW s \in Sessions, RFree(s) PROVE SessionInv'
  BY <1>19 DEF RFree, SessionInv, HasPort, BeforePush, ResType, TransType, RGoto
<1>20. ASSUME PListen PROVE SessionInv'
  BY <1>20 DEF PListen, SessionInv, HasPort, BeforePush, ResType, TransType, Spouting
<1>21. ASSUME PAccept PROVE SessionInv'
  BY <1>21 DEF PAccept, SessionInv, HasPort, BeforePush, ResType, TransType, Spouting, Link
<1>22. ASSUME PSize PROVE SessionInv'
  BY <1>22 DEF PSize, SessionInv, HasPort, BeforePush, ResType, TransType, Spouting, Link
<1>23. ASSUME PData PROVE SessionInv'
  BY <1>23 DEF PData, SessionInv, HasPort, BeforePush, ResType, TransType, Spouting, Link, Frame
<1>24. ASSUME PClose PROVE SessionInv'
  BY <1>24 DEF PClose, SessionInv, HasPort, BeforePush, ResType, TransType, Spouting
<1>25. ASSUME PEmit PROVE SessionInv'
  BY <1>25 DEF PEmit, SessionInv, HasPort, BeforePush, ResType, TransType, Spouting
<1>26. ASSUME KEmit PROVE SessionInv'
  BY <1>26 DEF KEmit, SessionInv, HasPort, BeforePush, ResType, TransType
<1>27. ASSUME NEW f \in Frames, BMatch(f) PROVE SessionInv'
  BY <1>27 DEF BMatch, SessionInv, HasPort, BeforePush, ResType, TransType
<1>28. ASSUME NEW f \in Frames, KMatch(f) PROVE SessionInv'
  BY <1>28 DEF KMatch, SessionInv, HasPort, BeforePush, ResType, TransType
<1>29. ASSUME NEW f \in Frames, Lose(f) PROVE SessionInv'
  BY <1>29 DEF Lose, SessionInv, HasPort, BeforePush, ResType, TransType
<1> QED BY <1>1, <1>2, <1>3, <1>4, <1>5, <1>6, <1>7, <1>8, <1>9, <1>10, <1>11, <1>12, <1>13, <1>14, <1>15, <1>16, <1>17, <1>18, <1>19, <1>20, <1>21, <1>22, <1>23, <1>24, <1>25, <1>26, <1>27, <1>28, <1>29, NextSteps

(* Frames and posts. *)
LEMMA CountStep ==
  ASSUME ProcType, TransType, ResType, SpoutType, StormType, FrameInv, SessionInv, CountInv, Next
  PROVE  CountInv'
<1> USE DEF process, finding, transmit, result, spout, storm
<1>1. ASSUME Start PROVE CountInv'
  BY <1>1 DEF Start, CountInv, Counted, Asked, BeforePush, InFrame, ResType, TransType
<1>2. ASSUME Told PROVE CountInv'
  BY <1>2 DEF Told, CountInv, Counted, Asked, BeforePush, InFrame, ResType, TransType, SpoutIP
<1>3. ASSUME Here PROVE CountInv'
  BY <1>3 DEF Here, CountInv, Counted, Asked, BeforePush, InFrame, ResType, TransType, Found
<1>4. ASSUME NEW s \in Sessions, Close(s) PROVE CountInv'
  BY <1>4 DEF Close, CountInv, Counted, Asked, BeforePush, InFrame, ResType, TransType
<1>5. ASSUME NEW s \in Sessions, Begin(s) PROVE CountInv'
  <2>1. /\ tpc[s] = "idle" /\ tpc' = [tpc EXCEPT ![s] = "read"]
        /\ rpc' = [rpc EXCEPT ![s] = "open"] /\ UNCHANGED <<frames, sem, queue, got>>
    BY <1>5 DEF Begin
  <2>2. frames[s] = 0 /\ queue[s] = <<>> /\ sem[s] = 0 /\ got[s] = <<>>
    BY <2>1 DEF FrameInv, SessionInv, HasPort
  <2>3. Len(queue[s]) = 0 /\ Len(got[s]) = 0 /\ tpc'[s] = "read" /\ rpc'[s] = "open"
    BY <2>1, <2>2 DEF TransType, ResType
  <2>9. ASSUME NEW t \in Sessions, t # s, rpc'[t] \in {"open", "bind", "wait", "recv"}
        PROVE  Counted(t)'
    <3>1. /\ rpc'[t] = rpc[t] /\ sem' = sem /\ queue' = queue
          /\ got' = got /\ frames' = frames /\ tpc'[t] = tpc[t]
      BY <2>1, <2>9 DEF TransType, ResType
    <3> QED BY <2>9, <3>1 DEF CountInv, Counted, Asked, BeforePush, InFrame
  <2>10. ASSUME rpc'[s] \in {"open", "bind", "wait", "recv"}
         PROVE  Counted(s)'
    BY <2>10, <2>1, <2>2, <2>3 DEF CountInv, Counted, Asked, BeforePush, InFrame
  <2> QED BY <2>9, <2>10 DEF CountInv
<1>6. ASSUME NEW s \in Sessions, TRead(s) PROVE CountInv'
  <2>1. /\ tpc[s] = "read" /\ frames' = [frames EXCEPT ![s] = frames[s] + 1]
        /\ tpc' = [tpc EXCEPT ![s] = IF kafka THEN "produce" ELSE "connect"]
        /\ UNCHANGED <<rpc, sem, queue, got>>
    BY <1>6 DEF TRead, TGoto
  <2>2. frames'[s] = frames[s] + 1 /\ frames[s] \in Nat
        /\ tpc'[s] \in {"produce", "connect"}
    BY <2>1 DEF TransType
  <2>9. ASSUME NEW t \in Sessions, t # s, rpc'[t] \in {"open", "bind", "wait", "recv"}
        PROVE  Counted(t)'
    <3>1. /\ rpc' = rpc /\ sem' = sem /\ queue' = queue
          /\ got' = got /\ frames'[t] = frames[t] /\ tpc'[t] = tpc[t]
      BY <2>1, <2>9 DEF TransType, ResType
    <3> QED BY <2>9, <3>1 DEF CountInv, Counted, Asked, BeforePush, InFrame
  <2>10. ASSUME rpc'[s] \in {"open", "bind", "wait", "recv"}
         PROVE  Counted(s)'
    <3>1. Len(queue[s]) + Asked(s) = frames[s] /\ sem[s] + Asked(s) = frames[s]
      <4>1. Counted(s)
        BY <2>1, <2>10 DEF CountInv
      <4> QED BY <2>1, <2>2, <4>1 DEF Counted, BeforePush, InFrame
    <3>2. Asked(s)' = Asked(s) /\ Asked(s) \in Nat /\ Len(queue[s]) \in Nat /\ sem[s] \in Nat
      BY <2>1 DEF Asked, ResType
    <3>3. BeforePush(s)' /\ InFrame(s)' /\ tpc'[s] # "done"
      BY <2>2 DEF BeforePush, InFrame
    <3>4. queue' = queue /\ sem' = sem
      BY <2>1
    <3> QED BY <2>2, <3>1, <3>2, <3>3, <3>4, SMTT(30) DEF Counted
  <2> QED BY <2>9, <2>10 DEF CountInv
<1>7. ASSUME NEW s \in Sessions, TProduce(s) PROVE CountInv'
  BY <1>7, ZenonT(60) DEF TProduce, CountInv, Counted, Asked, BeforePush, InFrame, ResType, TransType, TGoto, Frame
<1>8. ASSUME NEW s \in Sessions, TConnect(s) PROVE CountInv'
  BY <1>8, ZenonT(60) DEF TConnect, CountInv, Counted, Asked, BeforePush, InFrame, ResType, TransType, TGoto, Link
<1>9. ASSUME NEW s \in Sessions, TImage(s) PROVE CountInv'
  BY <1>9, SMTT(60) DEF TImage, CountInv, Counted, Asked, BeforePush, InFrame, ResType, TransType, TGoto
<1>10. ASSUME NEW s \in Sessions, TAck(s) PROVE CountInv'
  BY <1>10, ZenonT(60) DEF TAck, CountInv, Counted, Asked, BeforePush, InFrame, ResType, TransType, TGoto, Link
<1>11. ASSUME NEW s \in Sessions, TReset(s) PROVE CountInv'
  BY <1>11, SMTT(60) DEF TReset, CountInv, Counted, Asked, BeforePush, InFrame, ResType, TransType, TGoto
<1>12. ASSUME NEW s \in Sessions, TPush(s) PROVE CountInv'
  <2>1. /\ tpc[s] = "push" /\ tpc' = [tpc EXCEPT ![s] = "post"]
        /\ queue' = [queue EXCEPT ![s] = Append(queue[s], Frame(s))]
        /\ UNCHANGED <<rpc, sem, frames, got>>
    BY <1>12 DEF TPush, TGoto
  <2>2. Frame(s) \in Frames /\ queue[s] \in Seq(Frames) /\ Len(got[s]) \in Nat
    BY <2>1, ReadFrame DEF InFrame, BeforePush, ResType
  <2>3. Len(queue'[s]) = Len(queue[s]) + 1 /\ Len(queue[s]) \in Nat
    BY <2>1, <2>2, AppendFacts DEF ResType
  <2>4. tpc'[s] = "post" /\ frames[s] \in Nat /\ sem[s] \in Nat
    BY <2>1 DEF TransType, ResType
  <2>9. ASSUME NEW t \in Sessions, t # s, rpc'[t] \in {"open", "bind", "wait", "recv"}
        PROVE  Counted(t)'
    <3>1. /\ rpc' = rpc /\ sem' = sem /\ queue'[t] = queue[t]
          /\ got' = got /\ frames' = frames /\ tpc'[t] = tpc[t]
      BY <2>1, <2>9 DEF TransType, ResType
    <3> QED BY <2>9, <3>1 DEF CountInv, Counted, Asked, BeforePush, InFrame
  <2>10. ASSUME rpc'[s] \in {"open", "bind", "wait", "recv"}
         PROVE  Counted(s)'
    <3>1. Len(queue[s]) + Asked(s) = frames[s] - 1 /\ sem[s] + Asked(s) = frames[s] - 1
      <4>1. Counted(s)
        BY <2>1, <2>10 DEF CountInv
      <4> QED BY <2>1, <2>4, <4>1 DEF Counted, BeforePush, InFrame
    <3>2. Asked(s)' = Asked(s) /\ Asked(s) \in Nat
      BY <2>1 DEF Asked, ResType
    <3>3. ~BeforePush(s)' /\ InFrame(s)' /\ tpc'[s] # "done"
      BY <2>4 DEF BeforePush, InFrame
    <3>4. frames' = frames /\ sem' = sem
      BY <2>1
    <3>5. PICK n \in Nat, m \in Nat : n = Len(queue[s]) /\ m = Len(queue'[s]) /\ m = n + 1
      BY <2>3
    <3>6. m + Asked(s) = frames[s]
      <4>1. n + Asked(s) = frames[s] - 1
        BY <3>1, <3>5
      <4>2. m = n + 1
        BY <3>5
      <4> QED BY <2>4, <3>2, <4>1, <4>2
    <3>7. Len(queue'[s]) + Asked(s)' = frames'[s]
      BY <3>2, <3>4, <3>5, <3>6
    <3> QED BY <2>4, <3>1, <3>2, <3>3, <3>4, <3>7, SMTT(30) DEF Counted
  <2> QED BY <2>9, <2>10 DEF CountInv
<1>13. ASSUME NEW s \in Sessions, TPost(s) PROVE CountInv'
  <2>1. /\ tpc[s] = "post" /\ tpc' = [tpc EXCEPT ![s] = "read"]
        /\ \/ sem_live[s] /\ sem' = [sem EXCEPT ![s] = sem[s] + 1]
           \/ ~sem_live[s] /\ sem' = sem
        /\ UNCHANGED <<rpc, frames, queue, got>>
    BY <1>13 DEF TPost, TGoto, Post
  <2>2. rpc[s] \in {"bind", "wait", "recv"} => sem'[s] = sem[s] + 1
    BY <2>1 DEF SessionInv, ResType
  <2>3. rpc[s] # "open"
    BY <2>1 DEF SessionInv, BeforePush
  <2>4. tpc'[s] = "read" /\ frames[s] \in Nat /\ sem[s] \in Nat /\ Len(got[s]) \in Nat
    BY <2>1 DEF TransType, ResType
  <2>9. ASSUME NEW t \in Sessions, t # s, rpc'[t] \in {"open", "bind", "wait", "recv"}
        PROVE  Counted(t)'
    <3>1. /\ rpc' = rpc /\ sem'[t] = sem[t] /\ queue' = queue
          /\ got' = got /\ frames' = frames /\ tpc'[t] = tpc[t]
      BY <2>1, <2>9 DEF TransType, ResType
    <3> QED BY <2>9, <3>1 DEF CountInv, Counted, Asked, BeforePush, InFrame
  <2>10. ASSUME rpc'[s] \in {"open", "bind", "wait", "recv"}
         PROVE  Counted(s)'
    <3>1. Len(queue[s]) + Asked(s) = frames[s] /\ sem[s] + Asked(s) = frames[s] - 1
      <4>1. Counted(s)
        BY <2>1, <2>10, <2>3 DEF CountInv
      <4> QED BY <2>1, <2>4, <4>1 DEF Counted, BeforePush, InFrame
    <3>2. Asked(s)' = Asked(s) /\ Asked(s) \in Nat
      BY <2>1 DEF Asked, ResType
    <3>3. ~BeforePush(s)' /\ ~InFrame(s)' /\ tpc'[s] # "done"
      BY <2>4 DEF BeforePush, InFrame
    <3>4. frames' = frames /\ queue' = queue /\ sem'[s] = sem[s] + 1
      BY <2>1, <2>2, <2>3, <2>10
    <3> QED BY <2>4, <3>1, <3>2, <3>3, <3>4, SMTT(60) DEF Counted
  <2> QED BY <2>9, <2>10 DEF CountInv
<1>14. ASSUME NEW s \in Sessions, THangup(s) PROVE CountInv'
  <2>1. /\ tpc[s] = "read" /\ tpc' = [tpc EXCEPT ![s] = "done"]
        /\ \/ frames[s] > 0 /\ sem_live[s] /\ sem' = [sem EXCEPT ![s] = sem[s] + 1]
           \/ ~(frames[s] > 0 /\ sem_live[s]) /\ sem' = sem
        /\ UNCHANGED <<rpc, frames, queue, got>>
    BY <1>14 DEF THangup, TGoto, Post
  <2>2. rpc[s] \in {"bind", "wait", "recv"} =>
          sem'[s] = IF frames[s] > 0 THEN sem[s] + 1 ELSE sem[s]
    BY <2>1 DEF SessionInv, ResType
  <2>3. rpc[s] = "open" => frames[s] = 0 /\ sem'[s] = sem[s]
    BY <2>1 DEF SessionInv, BeforePush
  <2>4. tpc'[s] = "done" /\ frames[s] \in Nat /\ sem[s] \in Nat /\ Len(got[s]) \in Nat
    BY <2>1 DEF TransType, ResType
  <2>9. ASSUME NEW t \in Sessions, t # s, rpc'[t] \in {"open", "bind", "wait", "recv"}
        PROVE  Counted(t)'
    <3>1. /\ rpc' = rpc /\ sem'[t] = sem[t] /\ queue' = queue
          /\ got' = got /\ frames' = frames /\ tpc'[t] = tpc[t]
      BY <2>1, <2>9 DEF TransType, ResType
    <3> QED BY <2>9, <3>1 DEF CountInv, Counted, Asked, BeforePush, InFrame
  <2>10. ASSUME rpc'[s] \in {"open", "bind", "wait", "recv"}
         PROVE  Counted(s)'
    <3>1. Len(queue[s]) + Asked(s) = frames[s] /\ sem[s] + Asked(s) = frames[s]
      <4>1. Counted(s)
        BY <2>1, <2>10, <2>3 DEF CountInv
      <4> QED BY <2>1, <2>4, <4>1 DEF Counted, BeforePush, InFrame
    <3>2. Asked(s)' = Asked(s) /\ Asked(s) \in Nat
      BY <2>1 DEF Asked, ResType
    <3>3. ~BeforePush(s)' /\ ~InFrame(s)'
      BY <2>4 DEF BeforePush, InFrame
    <3>4. /\ frames' = frames /\ queue' = queue
          /\ sem'[s] = IF frames[s] > 0 THEN sem[s] + 1 ELSE sem[s]
      BY <2>1, <2>2, <2>3, <2>4, <2>10
    <3> QED BY <2>4, <3>1, <3>2, <3>3, <3>4 DEF Counted
  <2> QED BY <2>9, <2>10 DEF CountInv
<1>15. ASSUME NEW s \in Sessions, ROpen(s) PROVE CountInv'
  BY <1>15 DEF ROpen, CountInv, Counted, Asked, BeforePush, InFrame, ResType, TransType, RGoto
<1>16. ASSUME NEW s \in Sessions, RBind(s) PROVE CountInv'
  <2>1. /\ rpc[s] = "bind" /\ UNCHANGED <<tpc, frames, sem, queue, got>>
        /\ rpc' = [rpc EXCEPT ![s] = "wait"] \/ rpc' = [rpc EXCEPT ![s] = "stopped"]
    BY <1>16 DEF RBind, RGoto
  <2>2. ASSUME NEW t \in Sessions, rpc'[t] \in {"open", "bind", "wait", "recv"}
        PROVE  Counted(t)'
    <3>1. rpc[t] \in {"open", "bind", "wait", "recv"} /\ (rpc'[t] = "recv" <=> rpc[t] = "recv")
      BY <2>1, <2>2 DEF ResType
    <3>2. Counted(t)
      BY <3>1 DEF CountInv
    <3>3. Asked(t)' = Asked(t)
      BY <2>1, <3>1 DEF Asked
    <3> QED BY <2>1, <3>2, <3>3 DEF Counted, BeforePush, InFrame
  <2> QED BY <2>2 DEF CountInv
<1>17. ASSUME NEW s \in Sessions, RWait(s) PROVE CountInv'
  <2>1. /\ rpc[s] = "wait" /\ sem[s] > 0 /\ sem' = [sem EXCEPT ![s] = sem[s] - 1]
        /\ \/ queue[s] = <<>> /\ queue' = queue /\ rpc' = [rpc EXCEPT ![s] = "erase"]
           \/ /\ queue[s] # <<>> /\ queue' = [queue EXCEPT ![s] = Tail(queue[s])]
              /\ rpc' = [rpc EXCEPT ![s] = "recv"]
        /\ UNCHANGED <<tpc, frames, got>>
    BY <1>17 DEF RWait, RGoto
  <2>2. frames[s] \in Nat /\ sem[s] \in Nat /\ sem'[s] = sem[s] - 1 /\ Len(got[s]) \in Nat
    BY <2>1 DEF TransType, ResType
  <2>3. rpc'[s] # "erase" => rpc'[s] = "recv"
    BY <2>1 DEF ResType
  <2>9. ASSUME NEW t \in Sessions, t # s, rpc'[t] \in {"open", "bind", "wait", "recv"}
        PROVE  Counted(t)'
    <3>1. /\ rpc'[t] = rpc[t] /\ sem'[t] = sem[t] /\ queue'[t] = queue[t]
          /\ got' = got /\ frames' = frames /\ tpc' = tpc
      BY <2>1, <2>9 DEF TransType, ResType
    <3> QED BY <2>9, <3>1 DEF CountInv, Counted, Asked, BeforePush, InFrame
  <2>10. ASSUME rpc'[s] \in {"open", "bind", "wait", "recv"}
         PROVE  Counted(s)'
    <3>1. Counted(s) /\ rpc'[s] # "erase"
      BY <2>1, <2>10 DEF CountInv
    <3>2. Asked(s) = Len(got[s]) /\ Asked(s)' = Len(got[s]) + 1
      <4>1. rpc[s] = "wait" /\ rpc'[s] = "recv" /\ got' = got
        BY <2>1, <2>3, <3>1
      <4> QED BY <2>2, <4>1 DEF Asked
    <3>3. /\ BeforePush(s)' <=> BeforePush(s)
          /\ InFrame(s)' <=> InFrame(s)
          /\ tpc' = tpc /\ frames' = frames
      BY <2>1 DEF BeforePush, InFrame
    <3>0. PICK k \in Nat : k = Len(got[s])
      BY <2>2
    <3>4. PICK m \in Nat, n \in Nat : m = Len(queue'[s]) /\ n = Len(queue[s]) /\ m = n - 1
      <4>1. queue[s] # <<>> /\ queue'[s] = Tail(queue[s]) /\ queue[s] \in Seq(Frames)
        BY <2>1, <3>1 DEF ResType
      <4> QED BY <4>1, HeadFacts, ZenonT(60)
    <3>5. /\ n + k = frames[s] - (IF BeforePush(s) THEN 1 ELSE 0)
          /\ sem[s] + k = frames[s] - (IF InFrame(s) THEN 1 ELSE 0)
                         + (IF tpc[s] = "done" /\ frames[s] > 0 THEN 1 ELSE 0)
      BY <3>0, <3>1, <3>2, <3>4 DEF Counted
    <3>6. m + (k + 1) = n + k
      <4>1. m = n - 1
        BY <3>4
      <4> QED BY <4>1
    <3>7. Len(queue'[s]) + Asked(s)' = frames'[s] - (IF BeforePush(s)' THEN 1 ELSE 0)
      BY <3>0, <3>2, <3>3, <3>4, <3>5, <3>6
    <3>8. sem'[s] + Asked(s)' = frames'[s] - (IF InFrame(s)' THEN 1 ELSE 0)
                         + (IF tpc'[s] = "done" /\ frames'[s] > 0 THEN 1 ELSE 0)
      <4>1. sem'[s] + (k + 1) = sem[s] + k
        BY <2>2, SMTT(30)
      <4> QED BY <3>0, <3>2, <3>3, <3>5, <4>1
    <3> QED BY <3>7, <3>8 DEF Counted
  <2> QED BY <2>9, <2>10 DEF CountInv
<1>18. ASSUME NEW s \in Sessions, RRecv(s) PROVE CountInv'
  <2>1. /\ rpc[s] = "recv"
        /\ \/ /\ \E g \in Frames : got' = [got EXCEPT ![s] = Append(got[s], g)]
              /\ rpc' = [rpc EXCEPT ![s] = "wait"]
           \/ got' = got /\ rpc' = [rpc EXCEPT ![s] = "lost"]
        /\ UNCHANGED <<tpc, frames, sem, queue>>
    BY <1>18 DEF RRecv, RGoto
  <2>2. frames[s] \in Nat /\ sem[s] \in Nat /\ got[s] \in Seq(Frames)
    BY DEF TransType, ResType
  <2>3. rpc'[s] # "lost" =>
          rpc'[s] = "wait" /\ Len(got'[s]) = Len(got[s]) + 1 /\ Len(got[s]) \in Nat
    BY <2>1, <2>2, AppendFacts DEF ResType
  <2>9. ASSUME NEW t \in Sessions, t # s, rpc'[t] \in {"open", "bind", "wait", "recv"}
        PROVE  Counted(t)'
    <3>1. /\ rpc'[t] = rpc[t] /\ sem' = sem /\ queue' = queue
          /\ got'[t] = got[t] /\ frames' = frames /\ tpc' = tpc
      BY <2>1, <2>9 DEF TransType, ResType
    <3> QED BY <2>9, <3>1 DEF CountInv, Counted, Asked, BeforePush, InFrame
  <2>10. ASSUME rpc'[s] \in {"open", "bind", "wait", "recv"}
         PROVE  Counted(s)'
    <3>1. Counted(s) /\ rpc'[s] # "lost"
      BY <2>1, <2>10 DEF CountInv
    <3>2. Asked(s) = Len(got[s]) + 1 /\ Asked(s)' = Len(got[s]) + 1
      <4>1. rpc[s] = "recv" /\ rpc'[s] = "wait" /\ Len(got'[s]) = Len(got[s]) + 1
        BY <2>1, <2>3, <3>1
      <4> QED BY <2>2, <2>3, <3>1, <4>1 DEF Asked
    <3>3. /\ BeforePush(s)' <=> BeforePush(s)
          /\ InFrame(s)' <=> InFrame(s)
          /\ tpc' = tpc /\ frames' = frames /\ queue' = queue /\ sem' = sem
      BY <2>1 DEF BeforePush, InFrame
    <3> QED BY <2>2, <2>3, <3>1, <3>2, <3>3 DEF Counted
  <2> QED BY <2>9, <2>10 DEF CountInv
<1>19. ASSUME NEW s \in Sessions, RFree(s) PROVE CountInv'
  BY <1>19 DEF RFree, CountInv, Counted, Asked, BeforePush, InFrame, ResType, TransType, RGoto
<1>20. ASSUME PListen PROVE CountInv'
  BY <1>20 DEF PListen, CountInv, Counted, Asked, BeforePush, InFrame, ResType, TransType, Spouting
<1>21. ASSUME PAccept PROVE CountInv'
  BY <1>21 DEF PAccept, CountInv, Counted, Asked, BeforePush, InFrame, ResType, TransType, Spouting, Link
<1>22. ASSUME PSize PROVE CountInv'
  BY <1>22 DEF PSize, CountInv, Counted, Asked, BeforePush, InFrame, ResType, TransType, Spouting, Link
<1>23. ASSUME PData PROVE CountInv'
  BY <1>23 DEF PData, CountInv, Counted, Asked, BeforePush, InFrame, ResType, TransType, Spouting, Link, Frame
<1>24. ASSUME PClose PROVE CountInv'
  BY <1>24 DEF PClose, CountInv, Counted, Asked, BeforePush, InFrame, ResType, TransType, Spouting
<1>25. ASSUME PEmit PROVE CountInv'
  BY <1>25 DEF PEmit, CountInv, Counted, Asked, BeforePush, InFrame, ResType, TransType, Spouting
<1>26. ASSUME KEmit PROVE CountInv'
  BY <1>26 DEF KEmit, CountInv, Counted, Asked, BeforePush, InFrame, ResType, TransType
<1>27. ASSUME NEW f \in Frames, BMatch(f) PROVE CountInv'
  BY <1>27 DEF BMatch, CountInv, Counted, Asked, BeforePush, InFrame, ResType, TransType
<1>28. ASSUME NEW f \in Frames, KMatch(f) PROVE CountInv'
  BY <1>28 DEF KMatch, CountInv, Counted, Asked, BeforePush, InFrame, ResType, TransType
<1>29. ASSUME NEW f \in Frames, Lose(f) PROVE CountInv'
  BY <1>29 DEF Lose, CountInv, Counted, Asked, BeforePush, InFrame, ResType, TransType
<1> QED BY <1>1, <1>2, <1>3, <1>4, <1>5, <1>6, <1>7, <1>8, <1>9, <1>10, <1>11, <1>12, <1>13, <1>14, <1>15, <1>16, <1>17, <1>18, <1>19, <1>20, <1>21, <1>22, <1>23, <1>24, <1>25, <1>26, <1>27, <1>28, <1>29, NextSteps

(* The posts of a semaphore. *)
LEMMA SemStep ==
  ASSUME ProcType, TransType, ResType, SpoutType, StormType, FrameInv, SessionInv, SemInv, Next
  PROVE  SemInv'
<1> USE DEF process, finding, transmit, result, spout, storm
<1>1. ASSUME Start PROVE SemInv'
  BY <1>1 DEF Start, SemInv, BeforePush, InFrame, ResType, TransType
<1>2. ASSUME Told PROVE SemInv'
  BY <1>2 DEF Told, SemInv, BeforePush, InFrame, ResType, TransType, SpoutIP
<1>3. ASSUME Here PROVE SemInv'
  BY <1>3 DEF Here, SemInv, BeforePush, InFrame, ResType, TransType, Found
<1>4. ASSUME NEW s \in Sessions, Close(s) PROVE SemInv'
  BY <1>4 DEF Close, SemInv, BeforePush, InFrame, ResType, TransType
<1>5. ASSUME NEW s \in Sessions, Begin(s) PROVE SemInv'
  BY <1>5 DEF Begin, SemInv, BeforePush, InFrame, ResType, TransType
<1>6. ASSUME NEW s \in Sessions, TRead(s) PROVE SemInv'
  BY <1>6 DEF TRead, SemInv, BeforePush, InFrame, ResType, TransType, TGoto
<1>7. ASSUME NEW s \in Sessions, TProduce(s) PROVE SemInv'
  BY <1>7 DEF TProduce, SemInv, BeforePush, InFrame, ResType, TransType, TGoto, Frame
<1>8. ASSUME NEW s \in Sessions, TConnect(s) PROVE SemInv'
  BY <1>8 DEF TConnect, SemInv, BeforePush, InFrame, ResType, TransType, TGoto, Link
<1>9. ASSUME NEW s \in Sessions, TImage(s) PROVE SemInv'
  BY <1>9 DEF TImage, SemInv, BeforePush, InFrame, ResType, TransType, TGoto
<1>10. ASSUME NEW s \in Sessions, TAck(s) PROVE SemInv'
  BY <1>10 DEF TAck, SemInv, BeforePush, InFrame, ResType, TransType, TGoto, Link
<1>11. ASSUME NEW s \in Sessions, TReset(s) PROVE SemInv'
  BY <1>11 DEF TReset, SemInv, BeforePush, InFrame, ResType, TransType, TGoto
<1>12. ASSUME NEW s \in Sessions, TPush(s) PROVE SemInv'
  BY <1>12 DEF TPush, SemInv, BeforePush, InFrame, ResType, TransType, TGoto, Frame
<1>13. ASSUME NEW s \in Sessions, TPost(s) PROVE SemInv'
  BY <1>13 DEF TPost, SemInv, BeforePush, InFrame, ResType, TransType, TGoto, Post
<1>14. ASSUME NEW s \in Sessions, THangup(s) PROVE SemInv'
  BY <1>14, SMTT(30) DEF THangup, SemInv, BeforePush, InFrame, ResType, TransType, TGoto, Post
<1>15. ASSUME NEW s \in Sessions, ROpen(s) PROVE SemInv'
  BY <1>15 DEF ROpen, SemInv, BeforePush, InFrame, ResType, TransType, RGoto
<1>16. ASSUME NEW s \in Sessions, RBind(s) PROVE SemInv'
  BY <1>16 DEF RBind, SemInv, BeforePush, InFrame, ResType, TransType, RGoto
<1>17. ASSUME NEW s \in Sessions, RWait(s) PROVE SemInv'
  BY <1>17 DEF RWait, SemInv, BeforePush, InFrame, ResType, TransType, RGoto
<1>18. ASSUME NEW s \in Sessions, RRecv(s) PROVE SemInv'
  BY <1>18 DEF RRecv, SemInv, BeforePush, InFrame, ResType, TransType, RGoto
<1>19. ASSUME NEW s \in Sessions, RFree(s) PROVE SemInv'
  BY <1>19 DEF RFree, SemInv, BeforePush, InFrame, ResType, TransType, RGoto
<1>20. ASSUME PListen PROVE SemInv'
  BY <1>20 DEF PListen, SemInv, BeforePush, InFrame, ResType, TransType, Spouting
<1>21. ASSUME PAccept PROVE SemInv'
  BY <1>21 DEF PAccept, SemInv, BeforePush, InFrame, ResType, TransType, Spouting, Link
<1>22. ASSUME PSize PROVE SemInv'
  BY <1>22 DEF PSize, SemInv, BeforePush, InFrame, ResType, TransType, Spouting, Link
<1>23. ASSUME PData PROVE SemInv'
  BY <1>23 DEF PData, SemInv, BeforePush, InFrame, ResType, TransType, Spouting, Link, Frame
<1>24. ASSUME PClose PROVE SemInv'
  BY <1>24 DEF PClose, SemInv, BeforePush, InFrame, ResType, TransType, Spouting
<1>25. ASSUME PEmit PROVE SemInv'
  BY <1>25 DEF PEmit, SemInv, BeforePush, InFrame, ResType, TransType, Spouting
<1>26. ASSUME KEmit PROVE SemInv'
  BY <1>26 DEF KEmit, SemInv, BeforePush, InFrame, ResType, TransType
<1>27. ASSUME NEW f \in Frames, BMatch(f) PROVE SemInv'
  BY <1>27 DEF BMatch, SemInv, BeforePush, InFrame, ResType, TransType
<1>28. ASSUME NEW f \in Frames, KMatch(f) PROVE SemInv'
  BY <1>28 DEF KMatch, SemInv, BeforePush, InFrame, ResType, TransType
<1>29. ASSUME NEW f \in Frames, Lose(f) PROVE SemInv'
  BY <1>29 DEF Lose, SemInv, BeforePush, InFrame, ResType, TransType
<1> QED BY <1>1, <1>2, <1>3, <1>4, <1>5, <1>6, <1>7, <1>8, <1>9, <1>10, <1>11, <1>12, <1>13, <1>14, <1>15, <1>16, <1>17, <1>18, <1>19, <1>20, <1>21, <1>22, <1>23, <1>24, <1>25, <1>26, <1>27, <1>28, <1>29, NextSteps

(* What is queued was handed over. *)
LEMMA QueueStep ==
  ASSUME ProcType, TransType, ResType, SpoutType, StormType, FrameInv, LinkInv, PlaceInv, QueueInv, Next
  PROVE  QueueInv'
<1> USE DEF process, finding, transmit, result, spout, storm
<1>a. \A e \in Frames : ~Ahead(e) => ~Ahead(e)'
  BY AheadStays
<1>1. ASSUME Start PROVE QueueInv'
  BY <1>1 DEF Start, QueueInv, Ahead, ResType
<1>2. ASSUME Told PROVE QueueInv'
  BY <1>2, SMTT(30) DEF Told, QueueInv, Ahead, ResType, SpoutIP
<1>3. ASSUME Here PROVE QueueInv'
  BY <1>3 DEF Here, QueueInv, Ahead, ResType, Found
<1>4. ASSUME NEW s \in Sessions, Close(s) PROVE QueueInv'
  BY <1>4 DEF Close, QueueInv, Ahead, ResType
<1>5. ASSUME NEW s \in Sessions, Begin(s) PROVE QueueInv'
  BY <1>5, SMTT(30) DEF Begin, QueueInv, Ahead, ResType
<1>6. ASSUME NEW s \in Sessions, TRead(s) PROVE QueueInv'
  <2>1. UNCHANGED <<queue, got>>
    BY <1>6 DEF TRead
  <2> QED BY <1>a, <2>1, QueueKept, QueueFrom
<1>7. ASSUME NEW s \in Sessions, TProduce(s) PROVE QueueInv'
  <2>1. UNCHANGED <<queue, got>>
    BY <1>7 DEF TProduce
  <2> QED BY <1>a, <2>1, QueueKept, QueueFrom
<1>8. ASSUME NEW s \in Sessions, TConnect(s) PROVE QueueInv'
  <2>1. UNCHANGED <<queue, got>>
    BY <1>8 DEF TConnect
  <2> QED BY <1>a, <2>1, QueueKept, QueueFrom
<1>9. ASSUME NEW s \in Sessions, TImage(s) PROVE QueueInv'
  <2>1. UNCHANGED <<queue, got>>
    BY <1>9 DEF TImage
  <2> QED BY <1>a, <2>1, QueueKept, QueueFrom
<1>10. ASSUME NEW s \in Sessions, TAck(s) PROVE QueueInv'
  <2>1. UNCHANGED <<queue, got>>
    BY <1>10 DEF TAck
  <2> QED BY <1>a, <2>1, QueueKept, QueueFrom
<1>11. ASSUME NEW s \in Sessions, TReset(s) PROVE QueueInv'
  <2>1. UNCHANGED <<queue, got>>
    BY <1>11 DEF TReset
  <2> QED BY <1>a, <2>1, QueueKept, QueueFrom
<1>12. ASSUME NEW s \in Sessions, TPush(s) PROVE QueueInv'
  <2>1. /\ tpc[s] = "push" /\ got' = got /\ frames' = frames
        /\ queue' = [queue EXCEPT ![s] = Append(queue[s], Frame(s))]
        /\ tpc' = [tpc EXCEPT ![s] = "post"]
    BY <1>12 DEF TPush, TGoto
  <2>2. PICK g \in Frames : g = Frame(s) /\ g[1] = s /\ g[2] = frames[s] /\ frames[s] \in Nat
    BY <2>1, ReadFrame DEF InFrame, BeforePush
  <2>3. ~Ahead(g)
    BY <2>1, <2>2 DEF Ahead
  <2>4. queue' = [queue EXCEPT ![s] = Append(queue[s], g)]
    BY <2>1, <2>2
  <2>5. ASSUME NEW t \in Sessions, NEW i \in 1 .. Len(queue'[t])
        PROVE  \E e \in Frames : e = queue'[t][i] /\ ~Ahead(e)'
    <3>1. CASE t = s
      <4>1. queue'[t] = Append(queue[s], g) /\ queue[s] \in Seq(Frames)
        BY <2>4, <3>1 DEF ResType
      <4>2. Len(queue[s]) \in Nat /\ Len(queue'[t]) = Len(queue[s]) + 1
            /\ queue'[t][Len(queue[s]) + 1] = g
            /\ \A k \in 1 .. Len(queue[s]) : queue'[t][k] = queue[s][k]
        BY <4>1, AppendFacts
      <4>3. i = Len(queue[s]) + 1 \/ i \in 1 .. Len(queue[s])
        BY <4>2
      <4> QED BY <1>a, <2>3, <4>2, <4>3, QueueKept
    <3>2. CASE t # s
      <4>1. queue'[t] = queue[t]
        BY <2>4, <3>2 DEF ResType
      <4> QED BY <1>a, <4>1, QueueKept
    <3> QED BY <3>1, <3>2
  <2> QED BY <1>a, <2>1, <2>5, QueueKept, QueueFrom
<1>13. ASSUME NEW s \in Sessions, TPost(s) PROVE QueueInv'
  BY <1>13, SMTT(30) DEF TPost, QueueInv, Ahead, ResType, TGoto, Post
<1>14. ASSUME NEW s \in Sessions, THangup(s) PROVE QueueInv'
  BY <1>14 DEF THangup, QueueInv, Ahead, ResType, TGoto, Post
<1>15. ASSUME NEW s \in Sessions, ROpen(s) PROVE QueueInv'
  BY <1>15 DEF ROpen, QueueInv, Ahead, ResType, RGoto
<1>16. ASSUME NEW s \in Sessions, RBind(s) PROVE QueueInv'
  BY <1>16 DEF RBind, QueueInv, Ahead, ResType, RGoto
<1>17. ASSUME NEW s \in Sessions, RWait(s) PROVE QueueInv'
  <2>1. /\ got' = got
        /\ \/ queue' = queue
           \/ queue[s] # <<>> /\ queue' = [queue EXCEPT ![s] = Tail(queue[s])]
    BY <1>17 DEF RWait
  <2>2. ASSUME NEW t \in Sessions, NEW i \in 1 .. Len(queue'[t])
        PROVE  \E e \in Frames : e = queue'[t][i] /\ ~Ahead(e)'
    <3>1. CASE queue'[t] = queue[t]
      BY <1>a, <3>1, QueueKept
    <3>2. CASE queue'[t] # queue[t]
      <4>1. t = s /\ queue[s] # <<>> /\ queue'[s] = Tail(queue[s])
        BY <2>1, <3>2 DEF ResType
      <4>2. i + 1 \in 1 .. Len(queue[s]) /\ queue'[t][i] = queue[s][i + 1]
        BY <4>1, HeadFacts DEF ResType
      <4> QED BY <1>a, <4>2, QueueKept
    <3> QED BY <3>1, <3>2
  <2> QED BY <1>a, <2>1, <2>2, QueueKept, QueueFrom
<1>18. ASSUME NEW s \in Sessions, RRecv(s) PROVE QueueInv'
  <2>1. PICK g \in Frames :
          /\ net[g] > 0
          /\ got' = got \/ got' = [got EXCEPT ![s] = Append(got[s], g)]
    BY <1>18 DEF RRecv
  <2>2. ~Ahead(g)
    BY <2>1 DEF PlaceInv
  <2>3. ASSUME NEW t \in Sessions, NEW i \in 1 .. Len(got'[t])
        PROVE  \E e \in Frames : e = got'[t][i] /\ ~Ahead(e)'
    <3>1. CASE got'[t] = got[t]
      BY <1>a, <3>1, QueueKept
    <3>2. CASE got'[t] # got[t]
      <4>1. t = s /\ got'[s] = Append(got[s], g) /\ got[s] \in Seq(Frames)
        BY <2>1, <3>2, SMTT(30) DEF ResType
      <4>2. Len(got[s]) \in Nat /\ Len(got'[s]) = Len(got[s]) + 1
            /\ got'[s][Len(got[s]) + 1] = g
            /\ \A k \in 1 .. Len(got[s]) : got'[s][k] = got[s][k]
        BY <4>1, AppendFacts
      <4>3. i = Len(got[s]) + 1 \/ i \in 1 .. Len(got[s])
        BY <4>1, <4>2
      <4> QED BY <1>a, <2>2, <4>1, <4>2, <4>3, QueueKept
    <3> QED BY <3>1, <3>2
  <2>4. queue' = queue
    BY <1>18 DEF RRecv
  <2> QED BY <1>a, <2>3, <2>4, QueueKept, QueueFrom
<1>19. ASSUME NEW s \in Sessions, RFree(s) PROVE QueueInv'
  BY <1>19 DEF RFree, QueueInv, Ahead, ResType, RGoto
<1>20. ASSUME PListen PROVE QueueInv'
  BY <1>20 DEF PListen, QueueInv, Ahead, ResType, Spouting
<1>21. ASSUME PAccept PROVE QueueInv'
  <2>1. UNCHANGED <<queue, got>>
    BY <1>21 DEF PAccept
  <2> QED BY <1>a, <2>1, QueueKept, QueueFrom
<1>22. ASSUME PSize PROVE QueueInv'
  <2>1. UNCHANGED <<queue, got>>
    BY <1>22, SMTT(30) DEF PSize
  <2> QED BY <1>a, <2>1, QueueKept, QueueFrom, SMTT(30)
<1>23. ASSUME PData PROVE QueueInv'
  BY <1>23, SMTT(30) DEF PData, QueueInv, Ahead, ResType, Spouting, Link, Frame
<1>24. ASSUME PClose PROVE QueueInv'
  <2>1. UNCHANGED <<queue, got>>
    BY <1>24 DEF PClose
  <2> QED BY <1>a, <2>1, QueueKept, QueueFrom
<1>25. ASSUME PEmit PROVE QueueInv'
  BY <1>25 DEF PEmit, QueueInv, Ahead, ResType, Spouting
<1>26. ASSUME KEmit PROVE QueueInv'
  BY <1>26 DEF KEmit, QueueInv, Ahead, ResType
<1>27. ASSUME NEW f \in Frames, BMatch(f) PROVE QueueInv'
  BY <1>27 DEF BMatch, QueueInv, Ahead, ResType
<1>28. ASSUME NEW f \in Frames, KMatch(f) PROVE QueueInv'
  BY <1>28 DEF KMatch, QueueInv, Ahead, ResType
<1>29. ASSUME NEW f \in Frames, Lose(f) PROVE QueueInv'
  BY <1>29 DEF Lose, QueueInv, Ahead, ResType
<1> QED BY <1>1, <1>2, <1>3, <1>4, <1>5, <1>6, <1>7, <1>8, <1>9, <1>10, <1>11, <1>12, <1>13, <1>14, <1>15, <1>16, <1>17, <1>18, <1>19, <1>20, <1>21, <1>22, <1>23, <1>24, <1>25, <1>26, <1>27, <1>28, <1>29, NextSteps

(* What was handed over is answered or has a place. *)
LEMMA HandedStep ==
  ASSUME ProcType, TransType, ResType, SpoutType, StormType, FrameInv, LinkInv, ModeInv, PlaceInv, HandedInv, Next
  PROVE  HandedInv'
<1> USE DEF process, finding, transmit, result, spout, storm
<1>a. \A e \in Frames : ~Ahead(e) => ~Ahead(e)'
  BY AheadStays
<1>1. ASSUME Start PROVE HandedInv'
  BY <1>1 DEF Start, HandedInv, Ahead, InSpout, Received, ProcType, StormType
<1>2. ASSUME Told PROVE HandedInv'
  BY <1>2 DEF Told, HandedInv, Ahead, InSpout, Received, ProcType, StormType, SpoutIP
<1>3. ASSUME Here PROVE HandedInv'
  BY <1>3 DEF Here, HandedInv, Ahead, InSpout, Received, ProcType, StormType, Found
<1>4. ASSUME NEW s \in Sessions, Close(s) PROVE HandedInv'
  BY <1>4 DEF Close, HandedInv, Ahead, InSpout, Received, ProcType, StormType
<1>5. ASSUME NEW s \in Sessions, Begin(s) PROVE HandedInv'
  BY <1>5 DEF Begin, HandedInv, Ahead, InSpout, Received, ProcType, StormType
<1>6. ASSUME NEW s \in Sessions, TRead(s) PROVE HandedInv'
  <2>1. /\ UNCHANGED <<kafka, trouble, tuples, spc, img, net, got, link>>
        /\ tpc[s] = "read" /\ frames' = [frames EXCEPT ![s] = frames[s] + 1]
        /\ tpc' = [tpc EXCEPT ![s] = IF kafka THEN "produce" ELSE "connect"]
    BY <1>6 DEF TRead, TGoto
  <2>2. ASSUME NEW e \in Frames, Ahead(e)
        PROVE  Ahead(e)'
    <3>1. e[1] \in Sessions /\ e[2] \in Nat
      BY FrameFacts
    <3>2. CASE e[1] = s
      <4>1. e[2] > frames[s] /\ frames[s] \in Nat
        BY <2>1, <2>2, <3>1, <3>2 DEF Ahead, TransType
      <4>2. frames'[s] = frames[s] + 1 /\ tpc'[s] \in {"produce", "connect"}
        BY <2>1 DEF TransType
      <4> QED BY <3>1, <3>2, <4>1, <4>2 DEF Ahead
    <3>3. CASE e[1] # s
      <4>1. frames'[e[1]] = frames[e[1]] /\ tpc'[e[1]] = tpc[e[1]]
        BY <2>1, <3>1, <3>3 DEF TransType
      <4> QED BY <2>1, <2>2, <4>1 DEF Ahead
    <3> QED BY <3>2, <3>3
  <2>3. ASSUME NEW e \in Frames, ~kafka, ~trouble
        PROVE  Ahead(e)' \/ e \in tuples' \/ InSpout(e)' \/ net'[e] > 0 \/ Received(e)'
    BY <2>1, <2>2, <2>3 DEF HandedInv, InSpout, Received
  <2> QED BY <2>1, <2>3 DEF HandedInv
<1>7. ASSUME NEW s \in Sessions, TProduce(s) PROVE HandedInv'
  BY <1>7, ProduceFacts DEF HandedInv
<1>8. ASSUME NEW s \in Sessions, TConnect(s) PROVE HandedInv'
  BY <1>8 DEF TConnect, HandedInv, Ahead, InSpout, Received, ProcType, StormType, TGoto, Link
<1>9. ASSUME NEW s \in Sessions, TImage(s) PROVE HandedInv'
  BY <1>9 DEF TImage, HandedInv, Ahead, InSpout, Received, ProcType, StormType, TGoto
<1>10. ASSUME NEW s \in Sessions, TAck(s) PROVE HandedInv'
  BY <1>10 DEF TAck, HandedInv, Ahead, InSpout, Received, ProcType, StormType, TGoto, Link
<1>11. ASSUME NEW s \in Sessions, TReset(s) PROVE HandedInv'
  BY <1>11 DEF TReset, HandedInv, Ahead, InSpout, Received, ProcType, StormType, TGoto
<1>12. ASSUME NEW s \in Sessions, TPush(s) PROVE HandedInv'
  BY <1>12 DEF TPush, HandedInv, Ahead, InSpout, Received, ProcType, StormType, TGoto, Frame
<1>13. ASSUME NEW s \in Sessions, TPost(s) PROVE HandedInv'
  BY <1>13 DEF TPost, HandedInv, Ahead, InSpout, Received, ProcType, StormType, TGoto, Post
<1>14. ASSUME NEW s \in Sessions, THangup(s) PROVE HandedInv'
  BY <1>14 DEF THangup, HandedInv, Ahead, InSpout, Received, ProcType, StormType, TGoto, Post
<1>15. ASSUME NEW s \in Sessions, ROpen(s) PROVE HandedInv'
  BY <1>15 DEF ROpen, HandedInv, Ahead, InSpout, Received, ProcType, StormType, RGoto
<1>16. ASSUME NEW s \in Sessions, RBind(s) PROVE HandedInv'
  BY <1>16 DEF RBind, HandedInv, Ahead, InSpout, Received, ProcType, StormType, RGoto
<1>17. ASSUME NEW s \in Sessions, RWait(s) PROVE HandedInv'
  BY <1>17 DEF RWait, HandedInv, Ahead, InSpout, Received, ProcType, StormType, RGoto
<1>18. ASSUME NEW s \in Sessions, RRecv(s) PROVE HandedInv'
  <2>1. /\ UNCHANGED <<kafka, tuples, spc, img, tpc, frames, link>> /\ (trouble => trouble')
    BY <1>18 DEF RRecv, ProcType
  <2>2. PICK g \in Frames :
          /\ net' = [net EXCEPT ![g] = net[g] - 1]
          /\ trouble' \/ got' = [got EXCEPT ![s] = Append(got[s], g)]
    BY <1>18 DEF RRecv
  <2>3. ASSUME NEW e \in Frames, ~kafka', ~trouble'
        PROVE  Ahead(e)' \/ e \in tuples' \/ InSpout(e)' \/ net'[e] > 0 \/ Received(e)'
    <3>0. ~kafka /\ ~trouble
      BY <2>1, <2>3
    <3>1. got' = [got EXCEPT ![s] = Append(got[s], g)] /\ got[s] \in Seq(Frames)
      BY <2>2, <2>3 DEF ResType
    <3>2. /\ got'[s] \in Seq(Frames) /\ Len(got'[s]) = Len(got[s]) + 1 /\ Len(got[s]) \in Nat
          /\ got'[s][Len(got[s]) + 1] = g
          /\ \A i \in 1 .. Len(got[s]) : got'[s][i] = got[s][i]
      BY <3>1, AppendFacts DEF ResType
    <3>3. CASE e = g
      <4>1. g \in ToSet(got'[s])
        BY <3>2, InSet
      <4> QED BY <3>3, <4>1 DEF Received
    <3>4. CASE e # g /\ Received(e)
      <4>1. PICK t \in Sessions : e \in ToSet(got[t])
        BY <3>4 DEF Received
      <4>2. CASE t = s
        <5>1. PICK i \in 1 .. Len(got[s]) : got[s][i] = e
          BY <3>1, <4>1, <4>2, InSet
        <5>2. e \in ToSet(got'[s])
          BY <3>2, <5>1, InSet
        <5> QED BY <5>2 DEF Received
      <4>3. CASE t # s
        <5>1. got'[t] = got[t]
          BY <3>1, <4>3 DEF ResType
        <5> QED BY <4>1, <5>1 DEF Received
      <4> QED BY <4>2, <4>3
    <3>5. CASE e # g /\ ~Received(e)
      <4>1. net'[e] = net[e]
        BY <2>2, <3>5 DEF StormType
      <4>2. Ahead(e)' <=> Ahead(e)
        BY <2>1 DEF Ahead
      <4> QED BY <2>1, <3>0, <3>5, <4>1, <4>2 DEF HandedInv, InSpout
    <3> QED BY <3>3, <3>4, <3>5
  <2> QED BY <2>3 DEF HandedInv
<1>19. ASSUME NEW s \in Sessions, RFree(s) PROVE HandedInv'
  BY <1>19 DEF RFree, HandedInv, Ahead, InSpout, Received, ProcType, StormType, RGoto
<1>20. ASSUME PListen PROVE HandedInv'
  BY <1>20 DEF PListen, HandedInv, Ahead, InSpout, Received, ProcType, StormType, Spouting
<1>21. ASSUME PAccept PROVE HandedInv'
  BY <1>21 DEF PAccept, HandedInv, Ahead, InSpout, Received, ProcType, StormType, Spouting, Link
<1>22. ASSUME PSize PROVE HandedInv'
  BY <1>22 DEF PSize, HandedInv, Ahead, InSpout, Received, ProcType, StormType, Spouting, Link
<1>23. ASSUME PData PROVE HandedInv'
  <2>1. UNCHANGED <<kafka, trouble, tuples, net, got>>
    BY <1>23 DEF PData
  <2>2. PICK g \in Frames : /\ img' = g /\ spc = "data" /\ spc' = "close"
                            /\ \A e \in Frames : Ahead(e) /\ e # g => Ahead(e)'
    BY <1>23, DataFacts
  <2>3. ASSUME NEW e \in Frames, ~kafka, ~trouble
        PROVE  Ahead(e)' \/ e \in tuples' \/ InSpout(e)' \/ net'[e] > 0 \/ Received(e)'
    <3>1. CASE e = g
      BY <2>2, <3>1 DEF InSpout
    <3>2. CASE e # g
      <4>1. Ahead(e) \/ e \in tuples \/ net[e] > 0 \/ Received(e)
        BY <2>2, <2>3 DEF HandedInv, InSpout
      <4>2. Received(e)' <=> Received(e)
        BY <2>1 DEF Received
      <4> QED BY <2>1, <2>2, <3>2, <4>1, <4>2
    <3> QED BY <3>1, <3>2
  <2> QED BY <2>1, <2>3 DEF HandedInv
<1>24. ASSUME PClose PROVE HandedInv'
  <2>1. UNCHANGED <<kafka, trouble, tuples, img, net, got, tpc, frames>>
        /\ spc = "close" /\ spc' = "emit"
        /\ link' = [s \in Sessions |-> IF s \in ToSet(backlog) THEN "reset" ELSE link[s]]
    BY <1>24 DEF PClose, Spouting
  <2>2. \A s \in Sessions : link'[s] = "acked" => link[s] = "acked"
    BY <2>1
  <2>3. \A e \in Frames : Ahead(e) => Ahead(e)'
    BY <2>1, <2>2, FrameFacts DEF Ahead
  <2>4. ASSUME NEW e \in Frames, ~kafka, ~trouble
        PROVE  Ahead(e)' \/ e \in tuples' \/ InSpout(e)' \/ net'[e] > 0 \/ Received(e)'
    BY <2>1, <2>3, <2>4 DEF HandedInv, InSpout, Received
  <2> QED BY <2>1, <2>4 DEF HandedInv
<1>25. ASSUME PEmit PROVE HandedInv'
  BY <1>25 DEF PEmit, HandedInv, Ahead, InSpout, Received, ProcType, StormType, Spouting
<1>26. ASSUME KEmit PROVE HandedInv'
  BY <1>26, SMTT(30) DEF KEmit, HandedInv, Ahead, InSpout, Received, ProcType, StormType
<1>27. ASSUME NEW f \in Frames, BMatch(f) PROVE HandedInv'
  BY <1>27 DEF BMatch, HandedInv, Ahead, InSpout, Received, ProcType, StormType
<1>28. ASSUME NEW f \in Frames, KMatch(f) PROVE HandedInv'
  <2>1. kafka /\ kafka' = kafka
    BY <1>28, PendingFacts DEF KMatch
  <2> QED BY <2>1 DEF HandedInv
<1>29. ASSUME NEW f \in Frames, Lose(f) PROVE HandedInv'
  BY <1>29 DEF Lose, HandedInv, Ahead, InSpout, Received, ProcType, StormType
<1> QED BY <1>1, <1>2, <1>3, <1>4, <1>5, <1>6, <1>7, <1>8, <1>9, <1>10, <1>11, <1>12, <1>13, <1>14, <1>15, <1>16, <1>17, <1>18, <1>19, <1>20, <1>21, <1>22, <1>23, <1>24, <1>25, <1>26, <1>27, <1>28, <1>29, NextSteps

(* The end of a result thread. *)
LEMMA LogoutStep ==
  ASSUME ProcType, TransType, ResType, SpoutType, StormType, FrameInv, SessionInv, CountInv, LogoutMeansHangup, Next
  PROVE  LogoutMeansHangup'
<1> USE DEF process, finding, transmit, result, spout, storm
<1>1. ASSUME Start PROVE LogoutMeansHangup'
  BY <1>1 DEF Start, LogoutMeansHangup, ResType, TransType
<1>2. ASSUME Told PROVE LogoutMeansHangup'
  BY <1>2 DEF Told, LogoutMeansHangup, ResType, TransType, SpoutIP
<1>3. ASSUME Here PROVE LogoutMeansHangup'
  BY <1>3 DEF Here, LogoutMeansHangup, ResType, TransType, Found
<1>4. ASSUME NEW s \in Sessions, Close(s) PROVE LogoutMeansHangup'
  BY <1>4 DEF Close, LogoutMeansHangup, ResType, TransType
<1>5. ASSUME NEW s \in Sessions, Begin(s) PROVE LogoutMeansHangup'
  BY <1>5 DEF Begin, LogoutMeansHangup, ResType, TransType
<1>6. ASSUME NEW s \in Sessions, TRead(s) PROVE LogoutMeansHangup'
  BY <1>6 DEF TRead, LogoutMeansHangup, ResType, TransType, TGoto
<1>7. ASSUME NEW s \in Sessions, TProduce(s) PROVE LogoutMeansHangup'
  BY <1>7 DEF TProduce, LogoutMeansHangup, ResType, TransType, TGoto, Frame
<1>8. ASSUME NEW s \in Sessions, TConnect(s) PROVE LogoutMeansHangup'
  BY <1>8 DEF TConnect, LogoutMeansHangup, ResType, TransType, TGoto, Link
<1>9. ASSUME NEW s \in Sessions, TImage(s) PROVE LogoutMeansHangup'
  BY <1>9 DEF TImage, LogoutMeansHangup, ResType, TransType, TGoto
<1>10. ASSUME NEW s \in Sessions, TAck(s) PROVE LogoutMeansHangup'
  BY <1>10 DEF TAck, LogoutMeansHangup, ResType, TransType, TGoto, Link
<1>11. ASSUME NEW s \in Sessions, TReset(s) PROVE LogoutMeansHangup'
  BY <1>11 DEF TReset, LogoutMeansHangup, ResType, TransType, TGoto
<1>12. ASSUME NEW s \in Sessions, TPush(s) PROVE LogoutMeansHangup'
  BY <1>12 DEF TPush, LogoutMeansHangup, ResType, TransType, TGoto, Frame
<1>13. ASSUME NEW s \in Sessions, TPost(s) PROVE LogoutMeansHangup'
  BY <1>13 DEF TPost, LogoutMeansHangup, ResType, TransType, TGoto, Post
<1>14. ASSUME NEW s \in Sessions, THangup(s) PROVE LogoutMeansHangup'
  BY <1>14 DEF THangup, LogoutMeansHangup, ResType, TransType, TGoto, Post
<1>15. ASSUME NEW s \in Sessions, ROpen(s) PROVE LogoutMeansHangup'
  BY <1>15 DEF ROpen, LogoutMeansHangup, ResType, TransType, RGoto
<1>16. ASSUME NEW s \in Sessions, RBind(s) PROVE LogoutMeansHangup'
  BY <1>16 DEF RBind, LogoutMeansHangup, ResType, TransType, RGoto
<1>17. ASSUME NEW s \in Sessions, RWait(s) PROVE LogoutMeansHangup'
  <2>1. /\ rpc[s] = "wait" /\ sem[s] > 0 /\ sem' = [sem EXCEPT ![s] = sem[s] - 1]
        /\ \/ queue[s] = <<>> /\ queue' = queue /\ rpc' = [rpc EXCEPT ![s] = "erase"]
           \/ rpc' = [rpc EXCEPT ![s] = "recv"] /\ queue' = [queue EXCEPT ![s] = Tail(queue[s])]
        /\ UNCHANGED <<tpc, frames, got>>
    BY <1>17 DEF RWait, RGoto
  <2>2. ASSUME NEW t \in Sessions, t # s, rpc'[t] = "erase"
        PROVE  /\ tpc[t] = "done" /\ queue'[t] = <<>> /\ sem'[t] = 0
               /\ Len(got[t]) = frames[t]
    BY <2>1, <2>2 DEF LogoutMeansHangup, ResType
  <2>3. ASSUME rpc'[s] = "erase"
        PROVE  /\ tpc[s] = "done" /\ queue'[s] = <<>> /\ sem'[s] = 0
               /\ Len(got[s]) = frames[s]
    <3>1. queue[s] = <<>> /\ queue' = queue
      BY <2>1, <2>3 DEF ResType
    <3>2. /\ frames[s] \in Nat /\ sem[s] \in Nat /\ sem'[s] = sem[s] - 1
          /\ Len(got[s]) \in Nat /\ Len(queue[s]) = 0
      BY <2>1, <3>1 DEF TransType, ResType
    <3>3. Counted(s)
      BY <2>1 DEF CountInv
    <3> QED BY <2>1, <3>1, <3>2, <3>3, SMTT(60) DEF Counted, Asked, BeforePush, InFrame
  <2> QED BY <2>1, <2>2, <2>3 DEF LogoutMeansHangup
<1>18. ASSUME NEW s \in Sessions, RRecv(s) PROVE LogoutMeansHangup'
  BY <1>18 DEF RRecv, LogoutMeansHangup, ResType, TransType, RGoto
<1>19. ASSUME NEW s \in Sessions, RFree(s) PROVE LogoutMeansHangup'
  BY <1>19 DEF RFree, LogoutMeansHangup, ResType, TransType, RGoto
<1>20. ASSUME PListen PROVE LogoutMeansHangup'
  BY <1>20 DEF PListen, LogoutMeansHangup, ResType, TransType, Spouting
<1>21. ASSUME PAccept PROVE LogoutMeansHangup'
  BY <1>21 DEF PAccept, LogoutMeansHangup, ResType, TransType, Spouting, Link
<1>22. ASSUME PSize PROVE LogoutMeansHangup'
  BY <1>22 DEF PSize, LogoutMeansHangup, ResType, TransType, Spouting, Link
<1>23. ASSUME PData PROVE LogoutMeansHangup'
  BY <1>23 DEF PData, LogoutMeansHangup, ResType, TransType, Spouting, Link, Frame
<1>24. ASSUME PClose PROVE LogoutMeansHangup'
  BY <1>24 DEF PClose, LogoutMeansHangup, ResType, TransType, Spouting
<1>25. ASSUME PEmit PROVE LogoutMeansHangup'
  BY <1>25 DEF PEmit, LogoutMeansHangup, ResType, TransType, Spouting
<1>26. ASSUME KEmit PROVE LogoutMeansHangup'
  BY <1>26 DEF KEmit, LogoutMeansHangup, ResType, TransType
<1>27. ASSUME NEW f \in Frames, BMatch(f) PROVE LogoutMeansHangup'
  BY <1>27 DEF BMatch, LogoutMeansHangup, ResType, TransType
<1>28. ASSUME NEW f \in Frames, KMatch(f) PROVE LogoutMeansHangup'
  BY <1>28 DEF KMatch, LogoutMeansHangup, ResType, TransType
<1>29. ASSUME NEW f \in Frames, Lose(f) PROVE LogoutMeansHangup'
  BY <1>29 DEF Lose, LogoutMeansHangup, ResType, TransType
<1> QED BY <1>1, <1>2, <1>3, <1>4, <1>5, <1>6, <1>7, <1>8, <1>9, <1>10, <1>11, <1>12, <1>13, <1>14, <1>15, <1>16, <1>17, <1>18, <1>19, <1>20, <1>21, <1>22, <1>23, <1>24, <1>25, <1>26, <1>27, <1>28, <1>29, NextSteps

-----------------------------------------------------------------------------
(* Init *)

\* The initial states are in the invariant.
LEMMA InitIInv ==
  ASSUME Init
  PROVE  IInv
<1> USE DEF Init
<1>1. ProcType /\ TransType
  <2>1. ProcType
    BY DEF ProcType
  <2>2. \A s \in Sessions : FramesOf[s] >= 0
    BY BoundsAssumption
  <2>3. TransType
    BY <2>2 DEF TransType
  <2> QED BY <2>1, <2>3
<1>2. ResType /\ SpoutType /\ StormType
  BY BoundsAssumption DEF ResType, SpoutType, StormType
<1>3. FrameInv /\ ModeInv /\ PortInv
  BY SessionsAssumption DEF FrameInv, ModeInv, PortInv, HasPort, InFrame, BeforePush
<1>4. LinkInv
  BY DEF LinkInv
<1>5. PlaceInv
  BY DEF PlaceInv, InSpout
<1>6. NetInv
  <2>1. \A f \in Frames : Receptions(f) = {}
    BY DEF Receptions
  <2>2. IsFiniteSet({}) /\ Cardinality({}) = 0
    BY FS_EmptySet
  <2>3. ASSUME NEW f \in Frames
        PROVE  IsFiniteSet(Receptions(f)) /\ Cardinality(Receptions(f)) + net[f] <= Emissions(f)
    <3>1. Receptions(f) = {} /\ net[f] = 0 /\ replays[f] = 0
      BY <2>1
    <3>2. Cardinality(Receptions(f)) = 0 /\ IsFiniteSet(Receptions(f))
      BY <2>2, <3>1
    <3> QED BY <3>1, <3>2 DEF Emissions
  <2> QED BY <2>3 DEF NetInv
<1>7. SessionInv
  BY DEF SessionInv
<1>8. CountInv /\ SemInv
  BY DEF CountInv, SemInv, InFrame, BeforePush
<1>9. QueueInv
  BY DEF QueueInv
<1>10. HandedInv
  BY FrameFacts DEF HandedInv, Ahead
<1>11. LogoutMeansHangup
  BY DEF LogoutMeansHangup
<1> QED BY <1>1, <1>2, <1>3, <1>4, <1>5, <1>6, <1>7, <1>8, <1>9, <1>10, <1>11 DEF IInv

\* Every action keeps every part of the invariant.
LEMMA StepIInv ==
  ASSUME IInv, Next
  PROVE  IInv'
<1> USE DEF IInv
<1>1. ProcType' /\ TransType' /\ ResType' /\ SpoutType' /\ StormType'
  BY ProcTypeStep, TransTypeStep, ResTypeStep, SpoutTypeStep, StormTypeStep
<1>2. FrameInv' /\ ModeInv' /\ PortInv' /\ LinkInv'
  BY FrameStep, ModeStep, PortStep, LinkStep
<1>3. PlaceInv' /\ NetInv'
  BY PlaceStep, NetStep
<1>4. SessionInv' /\ CountInv' /\ SemInv'
  BY SessionStep, CountStep, SemStep
<1>5. QueueInv' /\ HandedInv' /\ LogoutMeansHangup'
  BY QueueStep, HandedStep, LogoutStep
<1> QED BY <1>1, <1>2, <1>3, <1>4, <1>5

(* A step that changes nothing. *)
LEMMA StutterIInv ==
  ASSUME IInv, UNCHANGED vars
  PROVE  IInv'
<1> USE DEF vars, process, finding, transmit, result, spout, storm
<1>1. ProcType' /\ TransType'
  BY DEF IInv, ProcType, TransType
<1>6. ResType' /\ SpoutType'
  BY DEF IInv, ResType, SpoutType
<1>7. StormType'
  BY DEF IInv, StormType
<1>2. FrameInv' /\ ModeInv' /\ PortInv' /\ LinkInv'
  BY SMTT(30) DEF IInv, FrameInv, ModeInv, PortInv, LinkInv, HasPort, InFrame, BeforePush
<1>3. PlaceInv' /\ NetInv'
  BY DEF IInv, PlaceInv, NetInv, Emissions, Receptions, Ahead, InSpout, InTopic, ToMatch
<1>4. SessionInv' /\ CountInv' /\ SemInv'
  BY ZenonT(60) DEF IInv, SessionInv, CountInv, SemInv, Counted, Asked, HasPort, InFrame, BeforePush
<1>5. QueueInv' /\ HandedInv' /\ LogoutMeansHangup'
  BY DEF IInv, QueueInv, HandedInv, LogoutMeansHangup, Ahead, InSpout, Received
<1> QED BY <1>1, <1>2, <1>3, <1>4, <1>5, <1>6, <1>7 DEF IInv

(* The inductive invariant holds in every behaviour, whatever the sessions,  *)
(* their frames and the bounds of Kafka, with loss or without.               *)
THEOREM Invariance == Spec => []IInv
<1>1. Init => IInv
  BY InitIInv
<1>2. IInv /\ [Next]_vars => IInv'
  BY StepIInv, StutterIInv
<1> QED BY <1>1, <1>2, PTL DEF Spec

(* The results received and on the way are no more than the emissions.       *)
LEMMA ResultsCounted ==
  ASSUME StormType, NetInv, NEW f \in Frames
  PROVE  /\ Cardinality(Receptions(f)) \in Nat
         /\ Cardinality(Receptions(f)) + net[f] <= replays[f] + 1
<1>1. replays[f] \in Nat
  BY DEF StormType
<1>2. Cardinality(Receptions(f)) \in Nat
  BY FS_CardinalityType DEF NetInv
<1>3. Cardinality(Receptions(f)) + net[f] <= replays[f] + (IF ToMatch(f) THEN 0 ELSE 1)
  BY DEF NetInv, Emissions
<1>4. replays[f] + (IF ToMatch(f) THEN 0 ELSE 1) <= replays[f] + 1
  BY <1>1
<1>5. net[f] \in Nat
  BY DEF StormType
<1> QED BY <1>1, <1>2, <1>3, <1>4, <1>5

(* Every variable has its type: a semaphore never counts more than one post  *)
(* for each frame and one for the end, a frame's datagrams are never more    *)
(* than its tuple's emissions.                                               *)
THEOREM TypeCorrect == Spec => []TypeOK
<1>1. IInv => TypeOK
  <2> SUFFICES ASSUME IInv PROVE TypeOK
    OBVIOUS
  <2>1. \A s \in Sessions : frames[s] \in 0 .. FramesOf[s] /\ sem[s] \in 0 .. FramesOf[s] + 1
    <3> SUFFICES ASSUME NEW s \in Sessions
                 PROVE  frames[s] \in 0 .. FramesOf[s] /\ sem[s] \in 0 .. FramesOf[s] + 1
      OBVIOUS
    <3>1. /\ frames[s] \in Nat /\ frames[s] <= FramesOf[s] /\ sem[s] \in Nat
          /\ FramesOf[s] \in Nat
      BY BoundsAssumption DEF IInv, TransType, ResType
    <3>2. sem[s] <= frames[s] - (IF InFrame(s) THEN 1 ELSE 0)
                    + (IF tpc[s] = "done" THEN 1 ELSE 0)
      BY DEF IInv, SemInv
    <3>3. sem[s] <= frames[s] + 1
      BY <3>1, <3>2
    <3> QED BY <3>1, <3>3
  <2>2. net \in [Frames -> 0 .. MaxReplays + 1]
    <3>1. net \in [Frames -> Nat] /\ replays \in [Frames -> 0 .. MaxReplays]
      BY DEF IInv, StormType
    <3>2. ASSUME NEW f \in Frames
          PROVE  net[f] \in 0 .. MaxReplays + 1
      <4>1. net[f] \in Nat /\ replays[f] \in Nat /\ replays[f] <= MaxReplays /\ MaxReplays \in Nat
        BY <3>1, BoundsAssumption
      <4>2. /\ Cardinality(Receptions(f)) \in Nat
            /\ Cardinality(Receptions(f)) + net[f] <= replays[f] + 1
        BY <4>1, ResultsCounted DEF IInv
      <4> QED BY <4>1, <4>2
    <3> QED BY <3>1, <3>2
  <2>3. ProcType /\ TransType /\ ResType /\ SpoutType /\ StormType
    BY DEF IInv
  <2> QED BY <2>1, <2>2, <2>3 DEF TypeOK, ProcType, TransType, ResType, SpoutType, StormType
<1> QED BY <1>1, Invariance, PTL

(* server_result logs a user out only after the client's end, when a         *)
(* datagram has come for every frame it sent.                                *)
THEOREM LogoutAfterHangup == Spec => []LogoutMeansHangup
<1>1. IInv => LogoutMeansHangup
  BY DEF IInv
<1> QED BY <1>1, Invariance, PTL

(* server_result never waits for a result that nobody owes it: a frame is    *)
(* queued only when the spout, a bolt or the network has it.                 *)
THEOREM QueuedAreHanded == Spec => []QueuedFramesHandedOver
<1>1. IInv => QueuedFramesHandedOver
  <2> SUFFICES ASSUME IInv, ~kafka, ~trouble, NEW s \in Sessions, NEW i \in 1 .. Len(queue[s])
               PROVE  \/ queue[s][i] \in tuples \/ net[queue[s][i]] > 0 \/ Received(queue[s][i])
                      \/ spc \in {"close", "emit"} /\ img = queue[s][i]
    BY DEF QueuedFramesHandedOver
  <2>1. queue[s][i] \in Frames
    BY DEF IInv, ResType
  <2>2. ~Ahead(queue[s][i])
    BY DEF IInv, QueueInv
  <2> QED BY <2>1, <2>2 DEF IInv, HandedInv, InSpout
<1> QED BY <1>1, Invariance, PTL

(* The results of one user reach another only when the user's own result     *)
(* thread has not got the port.                                              *)
THEOREM ForeignWithoutPort == Spec => []ForeignResultsOnlyWithoutPort
<1>1. IInv => ForeignResultsOnlyWithoutPort
  <2> SUFFICES ASSUME IInv, NEW s \in Sessions, NEW i \in 1 .. Len(got[s]), got[s][i][1] # s
               PROVE  rpc[got[s][i][1]] \in {"open", "bind", "stopped"}
    BY DEF ForeignResultsOnlyWithoutPort
  <2>1. PICK f \in Frames : f = got[s][i]
    BY DEF IInv, ResType
  <2>2. f[1] \in Sessions /\ f[2] >= 1 /\ f[2] \in Nat
    BY FrameFacts
  <2>3. ~Ahead(f)
    BY <2>1 DEF IInv, QueueInv
  <2>4. tpc[f[1]] # "idle"
    BY <2>2, <2>3 DEF IInv, Ahead, FrameInv
  <2>5. rpc[f[1]] # "idle"
    BY <2>2, <2>4 DEF IInv, SessionInv
  <2>6. HasPort(s)
    <3>1. got[s] # <<>>
      BY DEF IInv, ResType
    <3> QED BY <3>1 DEF IInv, SessionInv
  <2>7. ~HasPort(f[1])
    BY <2>1, <2>2, <2>6 DEF IInv, PortInv
  <2> QED BY <2>1, <2>2, <2>5, <2>7 DEF IInv, HasPort, ResType
<1> QED BY <1>1, Invariance, PTL

(* A result comes once, to one user, and again only as often as Kafka's spout *)
(* has emitted the tuple of its frame again.                                  *)
THEOREM ResultsPerEmission == Spec => []OneResultPerEmission
<1>1. IInv => OneResultPerEmission
  <2> SUFFICES ASSUME IInv, NEW f \in Frames
               PROVE  Cardinality(Receptions(f)) + net[f] <= 1 + replays[f]
    BY DEF OneResultPerEmission
  <2>1. StormType /\ NetInv /\ replays[f] \in Nat
    BY DEF IInv, StormType
  <2> QED BY <2>1, ResultsCounted
<1> QED BY <1>1, Invariance, PTL
=============================================================================
