-------------------------- MODULE OrbitSessionProofs --------------------------
(* Proofs about OrbitSession.  The two sides work out by themselves how many *)
(* messages a frame has, and what waits at the server's socket is always what*)
(* its loop has still to read; posts and names in the queue go together; and *)
(* a caller in lockstep has one frame on its way at a time.                  *)
EXTENDS OrbitSession, SequenceTheorems, TLAPS

Wire == to_server["transmit"]
Bytes == [k \in Nat |-> Chunk * k]
HeaderLast == Wire # <<>> /\ Wire[Len(Wire)].kind = "header"
DataCount == Len(Wire) - (IF HeaderLast THEN 1 ELSE 0)
InFrame == tpc \in {"header", "ok", "chunks", "release"}

(* Types *)

CallerType ==
  /\ java \in BOOLEAN /\ program \in {"run", "exited"}
  /\ user \in {"idle", "sending", "getting", "stopping"}
  /\ globalStop \in BOOLEAN /\ lockstep \in BOOLEAN
  /\ asked \in 0 .. MaxFrames /\ imgSize \in Sizes \cup {0}
  /\ taken \in Seq(Names) /\ resultQueue \in Seq(Names)

ClientType ==
  /\ begun \in Nat /\ sendStartSem \in Nat /\ sendEndSem \in Nat /\ resultSem \in Nat
  /\ tpc \in {"connect", "login", "wait", "header", "ok", "chunks", "release", "ended"}
  /\ remain \in Nat /\ rpc \in {"connect", "login", "recv", "signal", "ended"}
  /\ sizes \subseteq Sizes

SocketType ==
  /\ statusMap \in [Socks -> {"none", "open", "closed"}]
  /\ toClose \subseteq Socks /\ telling \subseteq Socks
  /\ open \in [Socks -> {"none", "open", "closed"}]
  /\ to_server \in [Socks -> Seq(Messages)]
  /\ to_client \in [Socks -> Seq(Names \cup {Ok})]

ServerType ==
  /\ server \in {"up", "crashed"}
  /\ spc \in {"none", "header", "data", "save", "push", "post", "ended"}
  /\ frame \in Names /\ file_size \in Sizes \cup {0} /\ received_size \in Nat
  /\ sem_match \in BOOLEAN /\ torn \in BOOLEAN /\ unsaved \in BOOLEAN
  /\ rsp \in {"none", "wait", "ended"}

SizeType == \A i \in 1 .. Len(Wire) : Wire[i].kind = "header" => Wire[i].size \in Sizes

HeapType ==
  /\ sem \in Nat /\ sem_live \in BOOLEAN /\ queue \in Seq(Names) /\ queue_live \in BOOLEAN
  /\ jobs \in Seq(Names) /\ answers \in Seq(Names) /\ file \in [Names -> Names]

(* The client *)

\* The caller, the permits of the two semaphores and the transmit thread go
\* round together.
CallerInv ==
  /\ java =>
       /\ user \in {"idle", "getting"} =>
            /\ ~globalStop /\ sendStartSem = 0 /\ sendEndSem = 0 /\ ~InFrame /\ begun = asked
            /\ tpc # "ended"
       /\ user = "sending" =>
            /\ ~globalStop /\ tpc # "ended"
            /\ \/ sendStartSem = 1 /\ sendEndSem = 0 /\ ~InFrame /\ begun + 1 = asked
               \/ /\ sendStartSem = 0 /\ sendEndSem = 0 /\ InFrame
                  /\ begun + (IF tpc = "header" THEN 1 ELSE 0) = asked
               \/ sendStartSem = 0 /\ sendEndSem = 1 /\ ~InFrame /\ begun = asked
       /\ user = "stopping" =>
            /\ globalStop /\ sendStartSem \in 0 .. 1 /\ sendEndSem = 0 /\ ~InFrame
            /\ begun = asked
       /\ asked > 0 => imgSize \in Sizes
  /\ ~java =>
       /\ user = "idle" /\ ~globalStop /\ sendEndSem = 0
       /\ tpc \notin {"release", "ended"}
       /\ sendStartSem + begun + (IF tpc = "header" THEN 1 ELSE 0) = asked
  /\ tpc \in {"connect", "login"} => begun = 0
  /\ tpc \in {"ok", "chunks", "release"} => begun > 0

ResultInv ==
  /\ java => resultSem + (IF rpc = "signal" THEN 1 ELSE 0) = Len(resultQueue)
  /\ ~java => resultQueue = <<>> /\ resultSem = 0 /\ rpc \notin {"signal", "ended"}

SocketInv ==
  /\ statusMap["transmit"] = "none" <=> tpc = "connect"
  /\ statusMap["result"] = "none" <=> rpc = "connect"
  /\ \A s \in Socks :
       /\ open[s] = "none" <=> statusMap[s] = "none"
       /\ open[s] = "closed" => statusMap[s] = "closed"
       /\ statusMap[s] = "closed" => java /\ user = "stopping"
       /\ open[s] # "open" => to_server[s] = <<>>
       /\ s \in toClose => statusMap[s] # "none"
       /\ s \in telling => statusMap[s] = "closed"

\* The answer to the login comes before all results.
AnswerInv ==
  /\ rpc = "connect" => rsp = "none"
  /\ rsp = "none" => /\ rpc \in {"connect", "login"}
                     /\ to_client["result"] = <<>> /\ jobs = <<>> /\ answers = <<>>
  /\ rpc = "login" /\ rsp # "none" =>
       to_client["result"] # <<>> /\ to_client["result"][1] = Ok
  /\ \A i \in 1 .. Len(to_client["result"]) :
       to_client["result"][i] = Ok => i = 1 /\ rpc = "login"

(* The server *)

\* Before its login is read, nothing of a session is there.
StartInv ==
  /\ spc = "none" => /\ tpc \in {"connect", "login"} /\ to_client["transmit"] = <<>>
                     /\ Wire \in {<<>>, <<Login>>} /\ queue = <<>>
  /\ spc # "none" => tpc # "connect"
  /\ spc # "none" /\ begun = 0 => spc \in {"header", "ended"} /\ Wire = <<>>

\* What server_transmit and server_result have made, and not deleted.
LifeInv ==
  /\ spc = "none" => ~sem_match /\ ~torn /\ ~unsaved
  /\ sem_live <=> rsp = "wait"
  /\ sem_match => rsp # "none"
  /\ rsp = "ended" => sem_match
  /\ sem > 0 => sem_match
  /\ queue_live <=> spc # "none" /\ ~unsaved /\ rsp # "ended"
  /\ unsaved => spc = "ended"
  /\ torn => open["transmit"] = "closed"

\* A login for each socket that was accepted, until the session is left.
UserInv ==
  /\ user_map \in 0 .. 2
  /\ spc = "none" \/ rsp = "none" => user_map <= 1
  /\ spc = "none" /\ rsp = "none" => user_map = 0

\* As long as a frame was neither cut off nor left unsaved, a post goes with each
\* name in the queue, and one with the end.
TokenInv ==
  server = "up" /\ ~torn /\ ~unsaved =>
    /\ rsp # "ended" =>
         sem + (IF spc = "post" THEN 1 ELSE 0)
           = Len(queue) + (IF spc = "ended" THEN 1 ELSE 0)
    /\ rsp = "ended" => spc = "ended"

(* The messages *)

\* The data messages that wait are the last of the frame the server reads.
Complete ==
  /\ DataCount >= 1 /\ Bytes[DataCount - 1] < file_size - received_size
  /\ file_size - received_size <= Bytes[DataCount]

Sending == tpc \in {"ok", "chunks"} /\ remain > 0 /\ ~HeaderLast

RemainInv ==
  /\ tpc = "ok" => remain > 0
  /\ java /\ tpc \in {"ok", "chunks"} /\ ~WholeChunks =>
       remain > 0 /\ \A d \in Nat : remain # Chunk * d

HeaderInv ==
  ~WholeChunks => \A i \in 1 .. Len(Wire) : Wire[i].kind = "header" =>
    /\ i = Len(Wire) /\ Wire[i].frame = begun /\ Wire[i].size = remain
    /\ tpc = "ok" /\ to_client["transmit"] = <<>>

StepInv ==
  ~WholeChunks /\ open["transmit"] = "open" /\ spc # "none" =>
    /\ Len(to_client["transmit"]) <= 1
    /\ tpc \notin {"login", "ok"} => to_client["transmit"] = <<>>
    /\ tpc = "login" => spc = "header" /\ Wire = <<>>
    /\ tpc = "ok" /\ ~HeaderLast => spc = "data" /\ Wire = <<>>

WireInv ==
  ~WholeChunks /\ open["transmit"] = "open" /\ spc # "none" =>
    /\ spc # "data" =>
         /\ \A i \in 1 .. Len(Wire) : Wire[i].kind = "header"
         /\ tpc = "chunks" => remain = 0
    /\ spc = "data" =>
         /\ file_size > received_size
         /\ \A i \in 1 .. Len(Wire) - 1 : Wire[i].kind = "data"
         /\ Wire # <<>> => Wire[Len(Wire)].kind # "login"
         /\ IF Sending THEN file_size - received_size = remain + Bytes[DataCount]
                       ELSE Complete

(* The results *)

Queued == Len(queue)
Matching == Len(jobs)
Matched == Len(answers)
Sent == Len(to_client["result"])
Held == Len(resultQueue)
Taken == Len(taken)
Waiting == Queued + Matching + Matched + Sent + Held + (IF spc = "push" THEN 1 ELSE 0)
Coming == (IF HeaderLast THEN 1 ELSE 0) + (IF spc \in {"data", "save"} THEN 1 ELSE 0)
LoginAnswer == IF rpc = "login" /\ rsp # "none" THEN 1 ELSE 0

Lockstep == java /\ lockstep /\ ~WholeChunks /\ ~globalStop

\* All that was made of the frames begun, and not taken, is one frame.
CountInv ==
  Lockstep =>
    /\ Taken <= asked /\ asked <= Taken + 1
    /\ Waiting + Coming + Taken <= begun + LoginAnswer

\* It is the frame asked for last.
OwnInv ==
  Lockstep =>
    /\ \A i \in 1 .. Len(resultQueue) : resultQueue[i] = asked
    /\ \A i \in 1 .. Len(to_client["result"]) : to_client["result"][i] \in {Ok, asked}
    /\ \A i \in 1 .. Len(answers) : answers[i] = asked
    /\ \A i \in 1 .. Len(jobs) : jobs[i] = 1
    /\ \A i \in 1 .. Len(queue) : queue[i] = 1
    /\ queue # <<>> \/ jobs # <<>> \/ spc = "push" => file[1] = asked
    /\ spc \in {"data", "save", "push"} => frame = asked

IInv ==
  /\ CallerType /\ ClientType /\ SocketType /\ ServerType /\ SizeType /\ HeapType
  /\ CallerInv /\ ResultInv /\ SocketInv /\ AnswerInv
  /\ StartInv /\ LifeInv /\ UserInv /\ TokenInv
  /\ RemainInv /\ HeaderInv /\ StepInv /\ WireInv /\ CountInv /\ OwnInv
  /\ CrashesOnly /\ OwnResult
-----------------------------------------------------------------------------
(* The steps of Next, one disjunct each. *)
LEMMA NextSteps ==
  ASSUME Next
  PROVE  \/ TConnect \/ TLogin \/ TAcquire \/ THeader \/ TOk \/ JChunk \/ LChunk \/ LUnlock
         \/ TRelease \/ RConnect \/ RLogin \/ ROffer \/ RRelease \/ ExitOnError
         \/ SendImageReturns \/ GetResultReturns \/ Exit
         \/ SendImage \/ GetResult \/ Stop \/ LSpawn \/ LExit
         \/ \E s \in Socks : Close(s) \/ Tell(s)
         \/ (Up /\ SAccept) \/ (Up /\ SHeader) \/ (Up /\ SHeaderFails) \/ (Up /\ SData)
         \/ (Up /\ SDataFails) \/ (Up /\ SSave) \/ (Up /\ SPush) \/ (Up /\ SPost)
         \/ (Up /\ RAccept) \/ (Up /\ RLeave) \/ (Up /\ RMatch) \/ (Up /\ RDead)
         \/ (Up /\ ChildMatch) \/ (Up /\ ChildSend)
         \/ \E s \in Socks : Up /\ NoLogin(s)
<1> DEFINE refused == \E s \in Socks : Up /\ NoLogin(s)
<1>1. ASSUME NEW s \in Socks, Up, NoLogin(s) PROVE refused
  BY <1>1
<1>2. Up /\ (NoLogin("transmit") \/ NoLogin("result")) => refused
  <2>1. "transmit" \in Socks /\ "result" \in Socks
    BY DEF Socks
  <2> HIDE DEF refused
  <2> QED BY <1>1, <2>1
<1> HIDE DEF refused
<1>3. CASE Up /\ ServerTransmit
  <2>1. \/ SAccept \/ SHeader \/ SHeaderFails \/ SData \/ SDataFails \/ SSave \/ SPush
        \/ SPost \/ NoLogin("transmit")
    BY <1>3 DEF ServerTransmit
  <2>2. NoLogin("transmit") => refused
    BY <1>2, <1>3
  <2> QED BY <1>3, <2>1, <2>2 DEF refused
<1>4. CASE Up /\ (ServerResult \/ Child)
  <2>1. RAccept \/ RLeave \/ RMatch \/ RDead \/ ChildMatch \/ ChildSend \/ NoLogin("result")
    BY <1>4 DEF ServerResult, Child
  <2>2. NoLogin("result") => refused
    BY <1>2, <1>4
  <2> QED BY <1>4, <2>1, <2>2 DEF refused
<1>5. CASE TransmitThread \/ ResultThread \/ Returns
  BY <1>5 DEF TransmitThread, ResultThread, Returns
<1>6. CASE End \/ Environment
  BY <1>6 DEF End, Environment
<1> QED BY <1>3, <1>4, <1>5, <1>6 DEF Next, refused

(* A sequence without its head, with one more element, without one of them.  *)
LEMMA HeadFacts ==
  ASSUME NEW S, NEW q \in Seq(S), q # <<>>
  PROVE  /\ Len(q) \in Nat /\ Len(q) >= 1 /\ q[1] \in S /\ Head(q) = q[1]
         /\ Tail(q) \in Seq(S) /\ Len(Tail(q)) = Len(q) - 1
         /\ \A i \in 1 .. Len(Tail(q)) : i + 1 \in 1 .. Len(q) /\ Tail(q)[i] = q[i + 1]
<1>1. /\ Len(q) \in Nat /\ Len(q) >= 1 /\ q[1] \in S /\ Head(q) = q[1]
      /\ Tail(q) \in Seq(S) /\ Len(Tail(q)) = Len(q) - 1
  OBVIOUS
<1>2. \A i \in 1 .. Len(Tail(q)) : i + 1 \in 1 .. Len(q) /\ Tail(q)[i] = q[i + 1]
  BY <1>1, HeadTailProperties
<1> QED BY <1>1, <1>2

(* A sequence with one more element at its end. *)
LEMMA AppendFacts ==
  ASSUME NEW S, NEW q \in Seq(S), NEW e \in S
  PROVE  /\ Append(q, e) \in Seq(S) /\ Append(q, e) # <<>> /\ Len(q) \in Nat
         /\ Len(Append(q, e)) = Len(q) + 1 /\ Append(q, e)[Len(q) + 1] = e
         /\ \A i \in 1 .. Len(q) : Append(q, e)[i] = q[i]
OBVIOUS

\* An element of a sequence is of its elements' set.
LEMMA ElementOf ==
  ASSUME NEW S, NEW q \in Seq(S), NEW i \in 1 .. Len(q)
  PROVE  q[i] \in S
OBVIOUS

(* A part of a sequence. *)
LEMMA Part ==
  ASSUME NEW S, NEW q \in Seq(S), NEW m \in Nat, NEW n \in Nat, m >= 1, n <= Len(q), m <= n + 1
  PROVE  /\ SubSeq(q, m, n) \in Seq(S) /\ Len(SubSeq(q, m, n)) = n - m + 1
         /\ \A i \in 1 .. n - m + 1 : SubSeq(q, m, n)[i] = q[m + i - 1]
<1>1. \A i \in m .. n : q[i] \in S
  OBVIOUS
<1>2. m \in Int /\ n \in Int
  OBVIOUS
<1>3. /\ SubSeq(q, m, n) \in Seq(S)
      /\ Len(SubSeq(q, m, n)) = IF m <= n THEN n - m + 1 ELSE 0
      /\ \A i \in 1 .. n - m + 1 : SubSeq(q, m, n)[i] = q[m + i - 1]
  BY <1>1, <1>2, SubSeqProperties
<1> QED BY <1>2, <1>3

(* A sequence without its k-th element. *)
LEMMA RemoveFacts ==
  ASSUME NEW S, NEW q \in Seq(S), NEW k \in DOMAIN q
  PROVE  /\ RemoveAt(q, k) \in Seq(S) /\ Len(q) \in Nat /\ Len(q) >= 1 /\ k \in 1 .. Len(q)
         /\ q[k] \in S /\ Len(RemoveAt(q, k)) = Len(q) - 1
         /\ \A i \in 1 .. Len(RemoveAt(q, k)) : \E j \in 1 .. Len(q) : RemoveAt(q, k)[i] = q[j]
<1>1. k \in 1 .. Len(q) /\ Len(q) \in Nat /\ q[k] \in S /\ k \in Nat
  OBVIOUS
<1> DEFINE a == SubSeq(q, 1, k - 1)
           b == SubSeq(q, k + 1, Len(q))
<1>2. RemoveAt(q, k) = a \o b
  BY DEF RemoveAt
<1>3. /\ a \in Seq(S) /\ Len(a) = k - 1
      /\ \A i \in 1 .. k - 1 : a[i] = q[i]
  <2>1. k - 1 \in Nat /\ 1 \in Nat /\ 1 >= 1 /\ k - 1 <= Len(q) /\ 1 <= (k - 1) + 1
    BY <1>1
  <2>2. /\ a \in Seq(S) /\ Len(a) = (k - 1) - 1 + 1
        /\ \A i \in 1 .. (k - 1) - 1 + 1 : a[i] = q[1 + i - 1]
    BY <2>1, Part
  <2> HIDE DEF a
  <2> QED BY <1>1, <2>2
<1>4. /\ b \in Seq(S) /\ Len(b) = Len(q) - k
      /\ \A i \in 1 .. Len(q) - k : b[i] = q[k + i]
  <2>1. k + 1 \in Nat /\ Len(q) \in Nat /\ k + 1 >= 1 /\ Len(q) <= Len(q) /\ k + 1 <= Len(q) + 1
    BY <1>1
  <2>2. /\ b \in Seq(S) /\ Len(b) = Len(q) - (k + 1) + 1
        /\ \A i \in 1 .. Len(q) - (k + 1) + 1 : b[i] = q[(k + 1) + i - 1]
    BY <2>1, Part
  <2> HIDE DEF b
  <2> QED BY <1>1, <2>2
<1> HIDE DEF a, b
<1> DEFINE r == a \o b
<1>a. a \in Seq(S) /\ b \in Seq(S)
  BY <1>3, <1>4, Zenon
<1>5. r \in Seq(S) /\ Len(r) = Len(a) + Len(b)
  BY <1>a
<1>6. \A i \in 1 .. Len(a) + Len(b) : r[i] = IF i <= Len(a) THEN a[i] ELSE b[i - Len(a)]
  BY <1>a
<1> HIDE DEF r
<1>7. Len(r) = Len(q) - 1 /\ Len(a) + Len(b) = Len(q) - 1
  BY <1>1, <1>3, <1>4, <1>5, SMTT(30)
<1>8. ASSUME NEW i \in 1 .. Len(r) PROVE \E j \in 1 .. Len(q) : r[i] = q[j]
  <2>1. i \in 1 .. Len(q) - 1 /\ r[i] = IF i <= k - 1 THEN a[i] ELSE b[i - (k - 1)]
    <3>1. i \in 1 .. Len(q) - 1 /\ i \in 1 .. Len(a) + Len(b)
      BY <1>7
    <3>2. Len(a) = k - 1
      BY <1>3, Zenon
    <3> QED BY <1>6, <3>1, <3>2
  <2>2. CASE i <= k - 1
    <3>1. i \in 1 .. k - 1 /\ i \in 1 .. Len(q)
      BY <1>1, <2>1, <2>2
    <3>2. r[i] = q[i]
      BY <1>3, <2>1, <2>2, <3>1
    <3> QED BY <3>1, <3>2
  <2>3. CASE ~(i <= k - 1)
    <3> DEFINE n == i - (k - 1)
    <3>1. n \in 1 .. Len(q) - k /\ k + n \in 1 .. Len(q)
      BY <1>1, <2>1, <2>3, SMTT(30)
    <3>2. r[i] = b[n]
      BY <2>1, <2>3
    <3> HIDE DEF n
    <3>3. b[n] = q[k + n]
      BY <1>4, <3>1
    <3> QED BY <3>1, <3>2, <3>3
  <2> QED BY <2>2, <2>3, Zenon
<1>9. RemoveAt(q, k) = r
  BY <1>2 DEF r
<1>10. Len(q) >= 1
  BY <1>1
<1> QED BY <1>1, <1>5, <1>7, <1>8, <1>9, <1>10, Zenon

(* The sequence r holds nothing that is not in the sequence q. *)
Fewer(q, r) == \A i \in 1 .. Len(r) : \E h \in 1 .. Len(q) : r[i] = q[h]

\* Removing a name puts nothing new into the sequence.
LEMMA FewerNames ==
  ASSUME NEW q \in Seq(Names), NEW k \in DOMAIN q
  PROVE  Fewer(q, RemoveAt(q, k))
<1>1. \A i \in 1 .. Len(RemoveAt(q, k)) : \E h \in 1 .. Len(q) : RemoveAt(q, k)[i] = q[h]
  BY RemoveFacts
<1> QED BY <1>1 DEF Fewer

(* The bytes of full messages. *)
LEMMA BytesFacts ==
  /\ Chunk \in Nat /\ Chunk >= 1 /\ Bytes[0] = 0
  /\ \A k \in Nat : /\ Bytes[k] \in Nat /\ Bytes[k + 1] = Bytes[k] + Chunk
                    /\ k >= 1 => Bytes[k] >= Chunk /\ Bytes[k - 1] = Bytes[k] - Chunk
                    /\ k >= 2 => Bytes[k] > Chunk /\ Bytes[k - 1] >= Chunk
<1>1. Chunk \in Nat /\ Chunk >= 1 /\ Bytes[0] = 0
  BY ChunkAssumption DEF Bytes
<1>2. \A k \in Nat : Bytes[k] \in Nat /\ Bytes[k + 1] = Bytes[k] + Chunk
  BY <1>1 DEF Bytes
<1>3. ASSUME NEW k \in Nat, k >= 1 PROVE Bytes[k] >= Chunk /\ Bytes[k - 1] = Bytes[k] - Chunk
  <2>1. k - 1 \in Nat /\ (k - 1) + 1 = k
    BY <1>3
  <2> QED BY <1>1, <1>2, <2>1
<1>4. ASSUME NEW k \in Nat, k >= 2 PROVE Bytes[k] > Chunk /\ Bytes[k - 1] >= Chunk
  <2>1. k - 1 \in Nat /\ k - 1 >= 1
    BY <1>4
  <2> QED BY <1>1, <1>2, <1>3, <1>4, <2>1
<1> QED BY <1>1, <1>2, <1>3, <1>4

(* The server takes a full message, or the last one, of what is left.        *)
LEMMA LastMessage ==
  ASSUME NEW k \in Nat, k >= 1, NEW left \in Int, left <= Chunk
  PROVE  /\ \A r \in Nat : r > 0 => left # r + Bytes[k]
         /\ Bytes[k - 1] < left => k = 1
<1>1. Chunk \in Nat /\ Bytes[k] \in Nat /\ Bytes[k] >= Chunk
  BY BytesFacts
<1>2. ASSUME NEW r \in Nat, r > 0 PROVE left # r + Bytes[k]
  BY <1>1, <1>2
<1>3. ASSUME Bytes[k - 1] < left PROVE k = 1
  <2>1. CASE k >= 2
    <3>1. k - 1 \in Nat
      BY <2>1
    <3>2. Bytes[k - 1] \in Nat /\ Bytes[k - 1] >= Chunk
      BY <2>1, <3>1, BytesFacts
    <3> QED BY <1>1, <1>3, <3>2
  <2> QED BY <2>1
<1> QED BY <1>2, <1>3

(* While more is left, the count of messages goes down by one. *)
LEMMA FullMessage ==
  ASSUME NEW k \in Nat, k >= 1, NEW left \in Int, left > Chunk
  PROVE  /\ \A r \in Nat : left = r + Bytes[k] => left - Chunk = r + Bytes[k - 1]
         /\ Bytes[k - 1] < left /\ left <= Bytes[k]
              => /\ k - 1 >= 1 /\ Bytes[(k - 1) - 1] < left - Chunk
                 /\ left - Chunk <= Bytes[k - 1]
<1>1. /\ Chunk \in Nat /\ Bytes[k] \in Nat /\ Bytes[k - 1] = Bytes[k] - Chunk
      /\ k - 1 \in Nat
  BY BytesFacts
<1>2. ASSUME NEW r \in Nat, left = r + Bytes[k] PROVE left - Chunk = r + Bytes[k - 1]
  BY <1>1, <1>2
<1>3. ASSUME Bytes[k - 1] < left, left <= Bytes[k]
      PROVE  /\ k - 1 >= 1 /\ Bytes[(k - 1) - 1] < left - Chunk
             /\ left - Chunk <= Bytes[k - 1]
  <2>1. k - 1 >= 1
    <3>1. k = 1 => Bytes[k - 1] = 0
      BY BytesFacts
    <3> QED BY <1>1, <1>3, <3>1
  <2>2. Bytes[(k - 1) - 1] = Bytes[k - 1] - Chunk /\ Bytes[k - 1] \in Nat
    BY <1>1, <2>1, BytesFacts
  <2> QED BY <1>1, <1>3, <2>1, <2>2
<1> QED BY <1>2, <1>3

(* What is left over when a number is divided by Chunk. *)
LEMMA NotWhole ==
  ASSUME NEW n \in Nat, n % Chunk # 0
  PROVE  \A d \in Nat : n # Chunk * d
<1>1. ASSUME NEW d \in Nat, n = Chunk * d PROVE n % Chunk = 0
  BY <1>1, ChunkAssumption
<1> QED BY <1>1

(* Taking one full message away leaves no whole number of them. *)
LEMMA NotWholeLess ==
  ASSUME NEW n \in Nat, n >= Chunk, \A d \in Nat : n # Chunk * d
  PROVE  n - Chunk > 0 /\ \A d \in Nat : n - Chunk # Chunk * d
<1>1. n # Chunk * 1 /\ Chunk * 1 = Chunk /\ Chunk \in Nat
  BY ChunkAssumption
<1>2. ASSUME NEW d \in Nat, n - Chunk = Chunk * d PROVE FALSE
  <2>1. d + 1 \in Nat /\ Chunk * (d + 1) = Chunk * d + Chunk
    BY <1>1
  <2> QED BY <1>1, <1>2, <2>1
<1> QED BY <1>1, <1>2

(* No frame is begun that was not asked for. *)
LEMMA BegunAsked ==
  ASSUME CallerType, ClientType, CallerInv
  PROVE  begun <= asked
BY DEF CallerInv, CallerType, ClientType

(* Once the server has read a header, a frame was begun. *)
LEMMA FrameBegun ==
  ASSUME CallerType, ClientType, CallerInv, StartInv, spc \in {"data", "save", "push", "post"}
  PROVE  begun >= 1 /\ asked >= 1 /\ MaxFrames >= 1 /\ 1 \in Names /\ begun <= asked
<1>1. begun # 0
  BY Zenon DEF StartInv
<1>2. begun <= asked
  BY BegunAsked, Zenon
<1> QED BY <1>1, <1>2, FramesAssumption DEF Names, CallerType, ClientType

(* What the operations on the sockets do to the messages for server_transmit. *)
LEMMA WireMessages ==
  ASSUME SocketType
  PROVE  /\ Wire \in Seq(Messages) /\ Len(Wire) \in Nat
         /\ \A i \in 1 .. Len(Wire) : Wire[i] \in Messages
         /\ to_client["transmit"] \in Seq(Names \cup {Ok})
BY DEF SocketType, Wire, Socks

(* A message that is sent is the last one that waits, unless a socket is closed. *)
LEMMA Putting ==
  ASSUME SocketType, NEW m \in Messages, Put("transmit", m)
  PROVE  /\ open["transmit"] = "open" /\ statusMap["transmit"] = "open"
           => /\ Wire' = Append(Wire, m) /\ Wire' # <<>> /\ Len(Wire') = Len(Wire) + 1
              /\ Wire'[Len(Wire) + 1] = m
              /\ \A i \in 1 .. Len(Wire) : Wire'[i] = Wire[i]
         /\ ~(open["transmit"] = "open" /\ statusMap["transmit"] = "open") => Wire' = Wire
         /\ to_server'["result"] = to_server["result"]
<1>1. ~(open["transmit"] = "open" /\ statusMap["transmit"] = "open") => Wire' = Wire
  BY DEF Put, Wire
<1>2. to_server'["result"] = to_server["result"]
  BY DEF Put, SocketType, Socks
<1>3. ASSUME open["transmit"] = "open", statusMap["transmit"] = "open"
      PROVE  Wire' = Append(Wire, m)
  BY <1>3 DEF Put, SocketType, Socks, Wire
<1> QED BY <1>1, <1>2, <1>3, WireMessages, AppendFacts, SMTT(30)

(* What recv() takes is the first message. *)
LEMMA Taking ==
  ASSUME SocketType, Arrived("transmit"), Take("transmit")
  PROVE  /\ open["transmit"] = "open" /\ Len(Wire) \in Nat /\ Len(Wire) >= 1
         /\ Wire # <<>> /\ Head(to_server["transmit"]) = Wire[1] /\ Wire[1] \in Messages
         /\ Wire' = Tail(Wire) /\ Len(Wire') = Len(Wire) - 1
         /\ \A i \in 1 .. Len(Wire') : i + 1 \in 1 .. Len(Wire) /\ Wire'[i] = Wire[i + 1]
         /\ to_server'["result"] = to_server["result"]
<1>1. Wire' = Tail(Wire) /\ to_server'["result"] = to_server["result"]
  BY DEF Take, Wire, SocketType, Socks
<1>2. open["transmit"] = "open" /\ Wire # <<>>
  BY DEF Arrived, Wire
<1> QED BY <1>1, <1>2, WireMessages, HeadFacts DEF Wire

(* An answer on the transmit socket leaves the result socket alone. *)
LEMMA Answering ==
  ASSUME SocketType, open["transmit"] = "open", Back("transmit", Ok)
  PROVE  /\ to_client'["transmit"] = Append(to_client["transmit"], Ok)
         /\ to_client'["result"] = to_client["result"]
BY DEF Back, SocketType, Socks

(* A header that is the last message stays the last one. *)
LEMMA TakingHeader ==
  ASSUME SocketType, Arrived("transmit"), Take("transmit"), HeaderLast'
  PROVE  HeaderLast
<1>1. Len(Wire) \in Nat /\ Len(Wire') = Len(Wire) - 1 /\ Wire # <<>>
      /\ \A i \in 1 .. Len(Wire') : Wire'[i] = Wire[i + 1]
  BY Taking
<1>2. Wire' # <<>> /\ Wire'[Len(Wire')].kind = "header"
  BY DEF HeaderLast
<1>3. Len(Wire') \in 1 .. Len(Wire')
  <2>1. Wire' = Tail(Wire)
    BY Taking
  <2>2. Len(Wire') # 0
    BY <1>1, <1>2, <2>1, WireMessages, HeadFacts
  <2> QED BY <1>1, <2>2
<1>4. Wire'[Len(Wire')] = Wire[Len(Wire)]
  BY <1>1, <1>3
<1> QED BY <1>1, <1>2, <1>4 DEF HeaderLast

(* What is counted are numbers, and how the count goes on. *)
LEMMA Numbers ==
  ASSUME CallerType, ClientType, SocketType, HeapType
  PROVE  /\ Queued \in Nat /\ Matching \in Nat /\ Matched \in Nat /\ Sent \in Nat
         /\ Held \in Nat /\ Taken \in Nat /\ begun \in Nat /\ asked \in Nat
         /\ Waiting \in Nat /\ Coming \in 0 .. 2 /\ LoginAnswer \in 0 .. 1
<1>1. /\ Queued \in Nat /\ Matching \in Nat /\ Matched \in Nat /\ Sent \in Nat
      /\ Held \in Nat /\ Taken \in Nat
  BY DEF CallerType, SocketType, HeapType, Socks, Queued, Matching, Matched, Sent, Held, Taken
<1>2. begun \in Nat /\ asked \in Nat
  BY FramesAssumption DEF CallerType, ClientType
<1>3. Waiting \in Nat
  BY <1>1 DEF Waiting
<1>4. Coming \in 0 .. 2 /\ LoginAnswer \in 0 .. 1
  BY DEF Coming, LoginAnswer
<1> QED BY <1>1, <1>2, <1>3, <1>4

(* The count is kept by a step that changes none of its terms. *)
LEMMA CountSame ==
  ASSUME CountInv, Lockstep' => Lockstep, UNCHANGED <<asked, taken, begun>>,
         Waiting' = Waiting, Coming' = Coming, LoginAnswer' = LoginAnswer
  PROVE  CountInv'
<1>1. Taken' = Taken
  BY DEF Taken
<1> QED BY <1>1 DEF CountInv

(* The count is kept by a step that makes no more than it uses up. *)
LEMMA CountKept ==
  ASSUME CallerType, ClientType, SocketType, HeapType, CountInv,
         Lockstep' => /\ Lockstep /\ UNCHANGED <<asked, taken>>
                      /\ Waiting' \in Int /\ Coming' \in Int /\ LoginAnswer' \in Int
                      /\ begun' \in Int
                      /\ Waiting' + Coming' + begun + LoginAnswer
                           <= Waiting + Coming + begun' + LoginAnswer'
  PROVE  CountInv'
<1>1. SUFFICES ASSUME Lockstep' PROVE CountInv'
  BY DEF CountInv
<1>2. /\ Taken <= asked /\ asked <= Taken + 1
      /\ Waiting + Coming + Taken <= begun + LoginAnswer
  BY <1>1 DEF CountInv
<1>3. UNCHANGED <<asked, Taken>>
  BY <1>1 DEF Taken
<1>4. Waiting' + Coming' + Taken <= begun' + LoginAnswer'
  BY <1>1, <1>2, Numbers
<1> QED BY <1>2, <1>3, <1>4 DEF CountInv

-----------------------------------------------------------------------------
(* Types are kept: the caller. *)
LEMMA CallerTypeStep ==
  ASSUME CallerType, ClientType, SocketType, CallerInv, ResultInv, AnswerInv, Next
  PROVE  CallerType'
<1> USE DEF caller, sems, cthreads, ends, cvars, net, transmit, heap, matching, svars
<1>1. ASSUME TConnect PROVE CallerType'
  BY <1>1 DEF TConnect, CallerType, Connect, Runs
<1>2. ASSUME TLogin PROVE CallerType'
  BY <1>2 DEF TLogin, CallerType, Heard, Hear, Runs
<1>3. ASSUME TAcquire PROVE CallerType'
  BY <1>3 DEF TAcquire, CallerType, Runs
<1>4. ASSUME THeader PROVE CallerType'
  BY <1>4 DEF THeader, CallerType, Put, Header, Runs
<1>5. ASSUME TOk PROVE CallerType'
  BY <1>5 DEF TOk, CallerType, Heard, Hear, Runs
<1>6. ASSUME JChunk PROVE CallerType'
  BY <1>6 DEF JChunk, CallerType, Put, Data, Runs
<1>7. ASSUME LChunk PROVE CallerType'
  BY <1>7 DEF LChunk, CallerType, Put, Data, Runs
<1>8. ASSUME LUnlock PROVE CallerType'
  BY <1>8 DEF LUnlock, CallerType, Runs
<1>9. ASSUME TRelease PROVE CallerType'
  BY <1>9 DEF TRelease, CallerType, Runs
<1>10. ASSUME RConnect PROVE CallerType'
  BY <1>10 DEF RConnect, CallerType, Connect, Runs
<1>11. ASSUME RLogin PROVE CallerType'
  BY <1>11 DEF RLogin, CallerType, Heard, Hear, Runs
<1>12. ASSUME ROffer PROVE CallerType'
  <2>1. to_client["result"] \in Seq(Names \cup {Ok}) /\ to_client["result"] # <<>>
        /\ rpc = "recv"
    BY <1>12 DEF ROffer, Heard, SocketType, Socks
  <2>2. Head(to_client["result"]) = to_client["result"][1]
        /\ to_client["result"][1] \in Names \cup {Ok} /\ 1 \in 1 .. Len(to_client["result"])
    BY <2>1, HeadFacts
  <2>3. Head(to_client["result"]) \in Names
    BY <2>1, <2>2 DEF AnswerInv
  <2>4. resultQueue' = Append(resultQueue, Head(to_client["result"])) \/ resultQueue' = resultQueue
    BY <1>12 DEF ROffer
  <2>5. taken' = Append(taken, Head(to_client["result"])) \/ taken' = taken
    BY <1>12 DEF ROffer
  <2>6. taken' \in Seq(Names) /\ resultQueue' \in Seq(Names)
    <3> DEFINE r == Head(to_client["result"])
    <3>1. \A q \in Seq(Names) : Append(q, r) \in Seq(Names)
      BY <2>3
    <3>2. taken \in Seq(Names) /\ resultQueue \in Seq(Names)
      BY DEF CallerType
    <3> QED BY <2>4, <2>5, <3>1, <3>2
  <2>7. UNCHANGED <<java, program, user, globalStop, lockstep, asked, imgSize>>
    BY <1>12 DEF ROffer
  <2> QED BY <2>6, <2>7 DEF CallerType
<1>13. ASSUME RRelease PROVE CallerType'
  BY <1>13 DEF RRelease, CallerType, Runs
<1>14. ASSUME ExitOnError PROVE CallerType'
  BY <1>14 DEF ExitOnError, CallerType, Runs
<1>15. ASSUME SendImageReturns PROVE CallerType'
  BY <1>15 DEF SendImageReturns, CallerType, Runs
<1>16. ASSUME GetResultReturns PROVE CallerType'
  <2>1. java /\ resultQueue # <<>>
    BY <1>16 DEF GetResultReturns, ResultInv, CallerInv, ClientType, CallerType
  <2>2. Head(resultQueue) \in Names /\ Tail(resultQueue) \in Seq(Names)
    BY <2>1, HeadFacts DEF CallerType
  <2> QED BY <1>16, <2>2 DEF GetResultReturns, CallerType, Runs
<1>17. ASSUME Exit PROVE CallerType'
  BY <1>17 DEF Exit, CallerType, Runs
<1>18. ASSUME SendImage PROVE CallerType'
  BY <1>18, FramesAssumption DEF SendImage, CallerType, Idle, Runs
<1>19. ASSUME GetResult PROVE CallerType'
  BY <1>19 DEF GetResult, CallerType, Idle, Runs
<1>20. ASSUME Stop PROVE CallerType'
  BY <1>20 DEF Stop, CallerType, Idle, Runs
<1>21. ASSUME LSpawn PROVE CallerType'
  BY <1>21, FramesAssumption DEF LSpawn, CallerType, Runs
<1>22. ASSUME LExit PROVE CallerType'
  BY <1>22 DEF LExit, CallerType, Runs
<1>23. ASSUME NEW s \in Socks, Close(s) PROVE CallerType'
  BY <1>23 DEF Close, CallerType, Runs
<1>24. ASSUME NEW s \in Socks, Tell(s) PROVE CallerType'
  BY <1>24 DEF Tell, CallerType, Runs
<1>25. ASSUME Up /\ SAccept PROVE CallerType'
  BY <1>25 DEF SAccept, CallerType, Arrived, Take, Back, Up
<1>26. ASSUME Up /\ SHeader PROVE CallerType'
  BY <1>26 DEF SHeader, CallerType, Arrived, Take, Back, Up
<1>27. ASSUME Up /\ SHeaderFails PROVE CallerType'
  BY <1>27 DEF SHeaderFails, CallerType, Gone, Signal, Undefined, Up
<1>28. ASSUME Up /\ SData PROVE CallerType'
  BY <1>28 DEF SData, CallerType, Arrived, Take, Chunked, Up
<1>29. ASSUME Up /\ SDataFails PROVE CallerType'
  BY <1>29 DEF SDataFails, CallerType, Gone, Signal, Undefined, Chunked, Up
<1>30. ASSUME Up /\ SSave PROVE CallerType'
  BY <1>30 DEF SSave, CallerType, Name, Up
<1>31. ASSUME Up /\ SPush PROVE CallerType'
  BY <1>31 DEF SPush, CallerType, Undefined, Name, Up
<1>32. ASSUME Up /\ SPost PROVE CallerType'
  BY <1>32 DEF SPost, CallerType, Undefined, Up
<1>33. ASSUME Up /\ RAccept PROVE CallerType'
  BY <1>33 DEF RAccept, CallerType, Arrived, Take, Back, Up
<1>34. ASSUME Up /\ RLeave PROVE CallerType'
  BY <1>34 DEF RLeave, CallerType, Up
<1>35. ASSUME Up /\ RMatch PROVE CallerType'
  BY <1>35 DEF RMatch, CallerType, Up
<1>36. ASSUME Up /\ RDead PROVE CallerType'
  BY <1>36 DEF RDead, CallerType, Up
<1>37. ASSUME Up /\ ChildMatch PROVE CallerType'
  BY <1>37 DEF ChildMatch, CallerType, Up
<1>38. ASSUME Up /\ ChildSend PROVE CallerType'
  BY <1>38 DEF ChildSend, CallerType, Back, Up
<1>39. ASSUME NEW s \in Socks, Up /\ NoLogin(s) PROVE CallerType'
  BY <1>39 DEF NoLogin, CallerType, Gone, Up
<1> QED BY <1>1, <1>2, <1>3, <1>4, <1>5, <1>6, <1>7, <1>8, <1>9, <1>10, <1>11, <1>12,
           <1>13, <1>14, <1>15, <1>16, <1>17, <1>18, <1>19, <1>20, <1>21, <1>22, <1>23,
           <1>24, <1>25, <1>26, <1>27, <1>28, <1>29, <1>30, <1>31, <1>32, <1>33, <1>34,
           <1>35, <1>36, <1>37, <1>38, <1>39, NextSteps

(* The client's threads. *)
LEMMA ClientTypeStep ==
  ASSUME CallerType, ClientType, CallerInv, Next
  PROVE  ClientType'
<1> USE DEF caller, sems, cthreads, ends, cvars, net, transmit, heap, matching, svars
<1>1. ASSUME TConnect PROVE ClientType'
  BY <1>1 DEF TConnect, CallerType, ClientType, Connect, Runs
<1>2. ASSUME TLogin PROVE ClientType'
  BY <1>2 DEF TLogin, CallerType, ClientType, Heard, Hear, Runs
<1>3. ASSUME TAcquire PROVE ClientType'
  BY <1>3 DEF TAcquire, CallerType, ClientType, Runs
<1>4. ASSUME THeader PROVE ClientType'
  <2>1. asked > 0 /\ (java => imgSize \in Sizes)
    BY <1>4, FramesAssumption DEF THeader, CallerInv, InFrame, CallerType, ClientType
  <2> QED BY <1>4, <2>1, SizesAssumption DEF THeader, ClientType, CallerType, Put, Header, Runs
<1>5. ASSUME TOk PROVE ClientType'
  BY <1>5 DEF TOk, CallerType, ClientType, Heard, Hear, Runs
<1>6. ASSUME JChunk PROVE ClientType'
  BY <1>6, ChunkAssumption DEF JChunk, ClientType, Put, Data, Runs
<1>7. ASSUME LChunk PROVE ClientType'
  BY <1>7, ChunkAssumption DEF LChunk, ClientType, Put, Data, Runs
<1>8. ASSUME LUnlock PROVE ClientType'
  BY <1>8 DEF LUnlock, CallerType, ClientType, Runs
<1>9. ASSUME TRelease PROVE ClientType'
  BY <1>9 DEF TRelease, CallerType, ClientType, Runs
<1>10. ASSUME RConnect PROVE ClientType'
  BY <1>10 DEF RConnect, CallerType, ClientType, Connect, Runs
<1>11. ASSUME RLogin PROVE ClientType'
  BY <1>11 DEF RLogin, CallerType, ClientType, Heard, Hear, Runs
<1>12. ASSUME ROffer PROVE ClientType'
  BY <1>12 DEF ROffer, CallerType, ClientType, Heard, Hear, Runs
<1>13. ASSUME RRelease PROVE ClientType'
  BY <1>13 DEF RRelease, CallerType, ClientType, Runs
<1>14. ASSUME ExitOnError PROVE ClientType'
  BY <1>14 DEF ExitOnError, CallerType, ClientType, Runs
<1>15. ASSUME SendImageReturns PROVE ClientType'
  BY <1>15 DEF SendImageReturns, CallerType, ClientType, Runs
<1>16. ASSUME GetResultReturns PROVE ClientType'
  BY <1>16 DEF GetResultReturns, CallerType, ClientType, Runs
<1>17. ASSUME Exit PROVE ClientType'
  BY <1>17 DEF Exit, CallerType, ClientType, Runs
<1>18. ASSUME SendImage PROVE ClientType'
  BY <1>18 DEF SendImage, CallerType, ClientType, Idle, Runs
<1>19. ASSUME GetResult PROVE ClientType'
  BY <1>19 DEF GetResult, CallerType, ClientType, Idle, Runs
<1>20. ASSUME Stop PROVE ClientType'
  BY <1>20 DEF Stop, CallerType, ClientType, Idle, Runs
<1>21. ASSUME LSpawn PROVE ClientType'
  BY <1>21 DEF LSpawn, CallerType, ClientType, Runs
<1>22. ASSUME LExit PROVE ClientType'
  BY <1>22 DEF LExit, CallerType, ClientType, Runs
<1>23. ASSUME NEW s \in Socks, Close(s) PROVE ClientType'
  BY <1>23 DEF Close, CallerType, ClientType, Runs
<1>24. ASSUME NEW s \in Socks, Tell(s) PROVE ClientType'
  BY <1>24 DEF Tell, CallerType, ClientType, Runs
<1>25. ASSUME Up /\ SAccept PROVE ClientType'
  BY <1>25 DEF SAccept, CallerType, ClientType, Arrived, Take, Back, Up
<1>26. ASSUME Up /\ SHeader PROVE ClientType'
  BY <1>26 DEF SHeader, CallerType, ClientType, Arrived, Take, Back, Up
<1>27. ASSUME Up /\ SHeaderFails PROVE ClientType'
  BY <1>27 DEF SHeaderFails, CallerType, ClientType, Gone, Signal, Undefined, Up
<1>28. ASSUME Up /\ SData PROVE ClientType'
  BY <1>28 DEF SData, CallerType, ClientType, Arrived, Take, Chunked, Up
<1>29. ASSUME Up /\ SDataFails PROVE ClientType'
  BY <1>29 DEF SDataFails, CallerType, ClientType, Gone, Signal, Undefined, Chunked, Up
<1>30. ASSUME Up /\ SSave PROVE ClientType'
  BY <1>30 DEF SSave, CallerType, ClientType, Name, Up
<1>31. ASSUME Up /\ SPush PROVE ClientType'
  BY <1>31 DEF SPush, CallerType, ClientType, Undefined, Name, Up
<1>32. ASSUME Up /\ SPost PROVE ClientType'
  BY <1>32 DEF SPost, CallerType, ClientType, Undefined, Up
<1>33. ASSUME Up /\ RAccept PROVE ClientType'
  BY <1>33 DEF RAccept, CallerType, ClientType, Arrived, Take, Back, Up
<1>34. ASSUME Up /\ RLeave PROVE ClientType'
  BY <1>34 DEF RLeave, CallerType, ClientType, Up
<1>35. ASSUME Up /\ RMatch PROVE ClientType'
  BY <1>35 DEF RMatch, CallerType, ClientType, Up
<1>36. ASSUME Up /\ RDead PROVE ClientType'
  BY <1>36 DEF RDead, CallerType, ClientType, Up
<1>37. ASSUME Up /\ ChildMatch PROVE ClientType'
  BY <1>37 DEF ChildMatch, CallerType, ClientType, Up
<1>38. ASSUME Up /\ ChildSend PROVE ClientType'
  BY <1>38 DEF ChildSend, CallerType, ClientType, Back, Up
<1>39. ASSUME NEW s \in Socks, Up /\ NoLogin(s) PROVE ClientType'
  BY <1>39 DEF NoLogin, CallerType, ClientType, Gone, Up
<1> QED BY <1>1, <1>2, <1>3, <1>4, <1>5, <1>6, <1>7, <1>8, <1>9, <1>10, <1>11, <1>12,
           <1>13, <1>14, <1>15, <1>16, <1>17, <1>18, <1>19, <1>20, <1>21, <1>22, <1>23,
           <1>24, <1>25, <1>26, <1>27, <1>28, <1>29, <1>30, <1>31, <1>32, <1>33, <1>34,
           <1>35, <1>36, <1>37, <1>38, <1>39, NextSteps

(* The result thread takes the head of what its socket received.              *)
LEMMA ResultHeard ==
  ASSUME SocketType, Heard("result"), Hear("result"),
         UNCHANGED <<statusMap, toClose, telling, open, to_server>>
  PROVE  SocketType'
<1>1. "result" \in Socks
  BY DEF Socks
<1>2. to_client["result"] \in Seq(Names \cup {Ok}) /\ to_client["result"] # <<>>
  BY <1>1 DEF SocketType, Heard
<1>3. Tail(to_client["result"]) \in Seq(Names \cup {Ok})
  BY <1>2, HeadFacts
<1>4. to_client' = [to_client EXCEPT !["result"] = Tail(to_client["result"])]
  BY DEF Hear
<1>5. to_client \in [Socks -> Seq(Names \cup {Ok})]
  BY DEF SocketType
<1>6. to_client' \in [Socks -> Seq(Names \cup {Ok})]
  BY <1>3, <1>4, <1>5, ZenonT(60)
<1> QED BY <1>6 DEF SocketType

(* The sockets. *)
LEMMA SocketTypeStep ==
  ASSUME CallerType, ClientType, SocketType, HeapType, CallerInv, Next
  PROVE  SocketType'
<1> USE DEF caller, sems, cthreads, ends, cvars, net, transmit, heap, matching, svars
<1>1. ASSUME TConnect PROVE SocketType'
  <2>1. Login \in Messages
    BY FramesAssumption, ChunkAssumption DEF Login, Messages
  <2>2. <<Login>> \in Seq(Messages)
    BY <2>1
  <2>3. to_server' = [to_server EXCEPT !["transmit"] = <<Login>>]
    BY <1>1 DEF TConnect, Connect
  <2>4. to_server' \in [Socks -> Seq(Messages)]
    BY <2>2, <2>3 DEF SocketType
  <2>5. /\ open' = [open EXCEPT !["transmit"] = "open"]
        /\ statusMap' = [statusMap EXCEPT !["transmit"] = "open"]
        /\ UNCHANGED <<toClose, telling, to_client>>
    BY <1>1 DEF TConnect, Connect
  <2>6. /\ open' \in [Socks -> {"none", "open", "closed"}]
        /\ statusMap' \in [Socks -> {"none", "open", "closed"}]
    BY <2>5 DEF SocketType
  <2> QED BY <2>4, <2>5, <2>6 DEF SocketType
<1>2. ASSUME TLogin PROVE SocketType'
  BY <1>2 DEF TLogin, SocketType, Socks, Heard, Hear, Runs
<1>3. ASSUME TAcquire PROVE SocketType'
  BY <1>3 DEF TAcquire, SocketType, Socks, Runs
<1>4. ASSUME THeader PROVE SocketType'
  <2>1. PICK n \in Sizes \cup {0} : Put("transmit", Header(begun + 1, n))
        /\ (~java => n \in Sizes) /\ (java => n = imgSize)
    BY <1>4 DEF THeader, CallerType
  <2>2. tpc = "header" /\ begun + 1 \in 0 .. MaxFrames /\ n \in Sizes
    BY <1>4, <2>1, FramesAssumption DEF THeader, CallerInv, InFrame, CallerType, ClientType
  <2>3. Header(begun + 1, n) \in Messages
    BY <2>2 DEF Header, Messages
  <2>4. to_server' \in [Socks -> Seq(Messages)]
    <3>1. \A s \in Socks : Append(to_server[s], Header(begun + 1, n)) \in Seq(Messages)
      BY <2>3 DEF SocketType
    <3> QED BY <2>1, <3>1 DEF Put, SocketType
  <2> QED BY <1>4, <2>4 DEF THeader, SocketType
<1>5. ASSUME TOk PROVE SocketType'
  BY <1>5 DEF TOk, SocketType, Socks, Heard, Hear, Runs
<1>6. ASSUME JChunk PROVE SocketType'
  <2>1. PICK n \in 0 .. Chunk : Put("transmit", Data(begun, n))
    BY <1>6, ChunkAssumption DEF JChunk, LChunk, ClientType
  <2>2. begun \in 0 .. MaxFrames
    BY <1>6, FramesAssumption DEF JChunk, LChunk, CallerInv, InFrame, CallerType, ClientType
  <2>3. Data(begun, n) \in Messages
    BY <2>2 DEF Data, Messages
  <2>4. to_server' \in [Socks -> Seq(Messages)]
    <3>1. \A s \in Socks : Append(to_server[s], Data(begun, n)) \in Seq(Messages)
      BY <2>3 DEF SocketType
    <3> QED BY <2>1, <3>1 DEF Put, SocketType
  <2> QED BY <1>6, <2>4 DEF JChunk, LChunk, SocketType
<1>7. ASSUME LChunk PROVE SocketType'
  <2>1. PICK n \in 0 .. Chunk : Put("transmit", Data(begun, n))
    BY <1>7, ChunkAssumption DEF JChunk, LChunk, ClientType
  <2>2. begun \in 0 .. MaxFrames
    BY <1>7, FramesAssumption DEF JChunk, LChunk, CallerInv, InFrame, CallerType, ClientType
  <2>3. Data(begun, n) \in Messages
    BY <2>2 DEF Data, Messages
  <2>4. to_server' \in [Socks -> Seq(Messages)]
    <3>1. \A s \in Socks : Append(to_server[s], Data(begun, n)) \in Seq(Messages)
      BY <2>3 DEF SocketType
    <3> QED BY <2>1, <3>1 DEF Put, SocketType
  <2> QED BY <1>7, <2>4 DEF JChunk, LChunk, SocketType
<1>8. ASSUME LUnlock PROVE SocketType'
  BY <1>8 DEF LUnlock, SocketType, Socks, Runs
<1>9. ASSUME TRelease PROVE SocketType'
  BY <1>9 DEF TRelease, SocketType, Socks, Runs
<1>10. ASSUME RConnect PROVE SocketType'
  <2>1. Login \in Messages
    BY FramesAssumption, ChunkAssumption DEF Login, Messages
  <2>2. <<Login>> \in Seq(Messages)
    BY <2>1
  <2>3. to_server' = [to_server EXCEPT !["result"] = <<Login>>]
    BY <1>10 DEF RConnect, Connect
  <2>4. to_server' \in [Socks -> Seq(Messages)]
    BY <2>2, <2>3 DEF SocketType
  <2>5. /\ open' = [open EXCEPT !["result"] = "open"]
        /\ statusMap' = [statusMap EXCEPT !["result"] = "open"]
        /\ UNCHANGED <<toClose, telling, to_client>>
    BY <1>10 DEF RConnect, Connect
  <2>6. /\ open' \in [Socks -> {"none", "open", "closed"}]
        /\ statusMap' \in [Socks -> {"none", "open", "closed"}]
    BY <2>5 DEF SocketType
  <2> QED BY <2>4, <2>5, <2>6 DEF SocketType
<1>11. ASSUME RLogin PROVE SocketType'
  BY <1>11, ResultHeard DEF RLogin
<1>12. ASSUME ROffer PROVE SocketType'
  BY <1>12, ResultHeard DEF ROffer
<1>13. ASSUME RRelease PROVE SocketType'
  BY <1>13 DEF RRelease, SocketType, Socks, Runs
<1>14. ASSUME ExitOnError PROVE SocketType'
  BY <1>14 DEF ExitOnError, SocketType, Socks, Runs
<1>15. ASSUME SendImageReturns PROVE SocketType'
  BY <1>15 DEF SendImageReturns, SocketType, Socks, Runs
<1>16. ASSUME GetResultReturns PROVE SocketType'
  BY <1>16 DEF GetResultReturns, SocketType, Socks, Runs
<1>17. ASSUME Exit PROVE SocketType'
  BY <1>17 DEF Exit, SocketType, Socks, Runs
<1>18. ASSUME SendImage PROVE SocketType'
  BY <1>18 DEF SendImage, SocketType, Socks, Idle, Runs
<1>19. ASSUME GetResult PROVE SocketType'
  BY <1>19 DEF GetResult, SocketType, Socks, Idle, Runs
<1>20. ASSUME Stop PROVE SocketType'
  BY <1>20 DEF Stop, SocketType, Socks, Idle, Runs
<1>21. ASSUME LSpawn PROVE SocketType'
  BY <1>21 DEF LSpawn, SocketType, Socks, Runs
<1>22. ASSUME LExit PROVE SocketType'
  BY <1>22 DEF LExit, SocketType, Socks, Runs
<1>23. ASSUME NEW s \in Socks, Close(s) PROVE SocketType'
  BY <1>23 DEF Close, SocketType, Socks, Runs
<1>24. ASSUME NEW s \in Socks, Tell(s) PROVE SocketType'
  BY <1>24 DEF Tell, SocketType, Socks, Runs
<1>25. ASSUME Up /\ SAccept PROVE SocketType'
  BY <1>25 DEF SAccept, SocketType, Socks, Arrived, Take, Back, Up
<1>26. ASSUME Up /\ SHeader PROVE SocketType'
  BY <1>26 DEF SHeader, SocketType, Socks, Arrived, Take, Back, Up
<1>27. ASSUME Up /\ SHeaderFails PROVE SocketType'
  BY <1>27 DEF SHeaderFails, SocketType, Socks, Gone, Signal, Undefined, Up
<1>28. ASSUME Up /\ SData PROVE SocketType'
  BY <1>28 DEF SData, SocketType, Socks, Arrived, Take, Chunked, Up
<1>29. ASSUME Up /\ SDataFails PROVE SocketType'
  BY <1>29 DEF SDataFails, SocketType, Socks, Gone, Signal, Undefined, Chunked, Up
<1>30. ASSUME Up /\ SSave PROVE SocketType'
  BY <1>30 DEF SSave, SocketType, Socks, Name, Up
<1>31. ASSUME Up /\ SPush PROVE SocketType'
  BY <1>31 DEF SPush, SocketType, Socks, Undefined, Name, Up
<1>32. ASSUME Up /\ SPost PROVE SocketType'
  BY <1>32 DEF SPost, SocketType, Socks, Undefined, Up
<1>33. ASSUME Up /\ RAccept PROVE SocketType'
  BY <1>33 DEF RAccept, SocketType, Socks, Arrived, Take, Back, Up
<1>34. ASSUME Up /\ RLeave PROVE SocketType'
  BY <1>34 DEF RLeave, SocketType, Socks, Up
<1>35. ASSUME Up /\ RMatch PROVE SocketType'
  BY <1>35 DEF RMatch, SocketType, Socks, Up
<1>36. ASSUME Up /\ RDead PROVE SocketType'
  BY <1>36 DEF RDead, SocketType, Socks, Up
<1>37. ASSUME Up /\ ChildMatch PROVE SocketType'
  BY <1>37 DEF ChildMatch, SocketType, Socks, Up
<1>38. ASSUME Up /\ ChildSend PROVE SocketType'
  <2>1. PICK a \in DOMAIN answers : Back("result", answers[a])
    BY <1>38 DEF ChildSend
  <2>2. answers[a] \in Names
    BY <2>1 DEF HeapType
  <2>3. \A s \in Socks : Append(to_client[s], answers[a]) \in Seq(Names \cup {Ok})
    BY <2>2 DEF SocketType
  <2>4. to_client' \in [Socks -> Seq(Names \cup {Ok})]
    BY <2>1, <2>3, ZenonT(60) DEF Back, SocketType
  <2> QED BY <1>38, <2>4 DEF ChildSend, SocketType
<1>39. ASSUME NEW s \in Socks, Up /\ NoLogin(s) PROVE SocketType'
  BY <1>39 DEF NoLogin, SocketType, Socks, Gone, Up
<1> QED BY <1>1, <1>2, <1>3, <1>4, <1>5, <1>6, <1>7, <1>8, <1>9, <1>10, <1>11, <1>12,
           <1>13, <1>14, <1>15, <1>16, <1>17, <1>18, <1>19, <1>20, <1>21, <1>22, <1>23,
           <1>24, <1>25, <1>26, <1>27, <1>28, <1>29, <1>30, <1>31, <1>32, <1>33, <1>34,
           <1>35, <1>36, <1>37, <1>38, <1>39, NextSteps

(* The sizes in the headers. *)
LEMMA SizeTypeStep ==
  ASSUME CallerType, ClientType, SocketType, SizeType, CallerInv, Next
  PROVE  SizeType'
<1> USE DEF caller, sems, cthreads, ends, cvars, net, transmit, heap, matching, svars
<1>1. ASSUME TConnect PROVE SizeType'
  <2>1. Wire' = <<Login>>
    BY <1>1 DEF TConnect, Connect, Wire, SocketType, Socks
  <2> QED BY <2>1 DEF SizeType, Login
<1>2. ASSUME TLogin PROVE SizeType'
  BY <1>2 DEF TLogin, SizeType, Wire, Heard, Hear, Runs
<1>3. ASSUME TAcquire PROVE SizeType'
  BY <1>3 DEF TAcquire, SizeType, Wire, Runs
<1>4. ASSUME THeader PROVE SizeType'
  <2>1. PICK n \in Sizes \cup {0} : Put("transmit", Header(begun + 1, n))
        /\ (~java => n \in Sizes) /\ (java => n = imgSize)
    BY <1>4 DEF THeader, CallerType
  <2>2. tpc = "header" /\ begun + 1 \in 0 .. MaxFrames /\ n \in Sizes
    BY <1>4, <2>1, FramesAssumption DEF THeader, CallerInv, InFrame, CallerType, ClientType
  <2>3. Header(begun + 1, n) \in Messages /\ Header(begun + 1, n).size = n
    BY <2>2 DEF Header, Messages
  <2> QED BY <2>1, <2>2, <2>3, Putting, WireMessages DEF SizeType
<1>5. ASSUME TOk PROVE SizeType'
  BY <1>5 DEF TOk, SizeType, Wire, Heard, Hear, Runs
<1>6. ASSUME JChunk PROVE SizeType'
  <2>1. PICK n \in 0 .. Chunk : Put("transmit", Data(begun, n))
    BY <1>6, ChunkAssumption DEF JChunk, LChunk, ClientType
  <2>2. begun \in 0 .. MaxFrames
    BY <1>6, FramesAssumption DEF JChunk, LChunk, CallerInv, InFrame, CallerType, ClientType
  <2>3. Data(begun, n) \in Messages /\ Data(begun, n).kind = "data"
    BY <2>2 DEF Data, Messages
  <2> QED BY <2>1, <2>3, Putting, WireMessages, SMTT(30) DEF SizeType
<1>7. ASSUME LChunk PROVE SizeType'
  <2>1. PICK n \in 0 .. Chunk : Put("transmit", Data(begun, n))
    BY <1>7, ChunkAssumption DEF JChunk, LChunk, ClientType
  <2>2. begun \in 0 .. MaxFrames
    BY <1>7, FramesAssumption DEF JChunk, LChunk, CallerInv, InFrame, CallerType, ClientType
  <2>3. Data(begun, n) \in Messages /\ Data(begun, n).kind = "data"
    BY <2>2 DEF Data, Messages
  <2> QED BY <2>1, <2>3, Putting, WireMessages, SMTT(30) DEF SizeType
<1>8. ASSUME LUnlock PROVE SizeType'
  BY <1>8 DEF LUnlock, SizeType, Wire, Runs
<1>9. ASSUME TRelease PROVE SizeType'
  BY <1>9 DEF TRelease, SizeType, Wire, Runs
<1>10. ASSUME RConnect PROVE SizeType'
  <2>1. Wire' = Wire
    BY <1>10 DEF RConnect, Connect, Wire, SocketType, Socks
  <2> QED BY <2>1 DEF SizeType
<1>11. ASSUME RLogin PROVE SizeType'
  BY <1>11 DEF RLogin, SizeType, Wire, Heard, Hear, Runs
<1>12. ASSUME ROffer PROVE SizeType'
  BY <1>12 DEF ROffer, SizeType, Wire, Heard, Hear, Runs
<1>13. ASSUME RRelease PROVE SizeType'
  BY <1>13 DEF RRelease, SizeType, Wire, Runs
<1>14. ASSUME ExitOnError PROVE SizeType'
  BY <1>14 DEF ExitOnError, SizeType, Wire, Runs
<1>15. ASSUME SendImageReturns PROVE SizeType'
  BY <1>15 DEF SendImageReturns, SizeType, Wire, Runs
<1>16. ASSUME GetResultReturns PROVE SizeType'
  BY <1>16 DEF GetResultReturns, SizeType, Wire, Runs
<1>17. ASSUME Exit PROVE SizeType'
  BY <1>17 DEF Exit, SizeType, Wire, Runs
<1>18. ASSUME SendImage PROVE SizeType'
  BY <1>18 DEF SendImage, SizeType, Wire, Idle, Runs
<1>19. ASSUME GetResult PROVE SizeType'
  BY <1>19 DEF GetResult, SizeType, Wire, Idle, Runs
<1>20. ASSUME Stop PROVE SizeType'
  BY <1>20 DEF Stop, SizeType, Wire, Idle, Runs
<1>21. ASSUME LSpawn PROVE SizeType'
  BY <1>21 DEF LSpawn, SizeType, Wire, Runs
<1>22. ASSUME LExit PROVE SizeType'
  BY <1>22 DEF LExit, SizeType, Wire, Runs
<1>23. ASSUME NEW s \in Socks, Close(s) PROVE SizeType'
  BY <1>23 DEF Close, SizeType, Wire, Runs
<1>24. ASSUME NEW s \in Socks, Tell(s) PROVE SizeType'
  <2>1. Wire' = Wire \/ Wire' = <<>>
    BY <1>24 DEF Tell, Wire, SocketType, Socks
  <2> QED BY <2>1 DEF SizeType
<1>25. ASSUME Up /\ SAccept PROVE SizeType'
  <2>1. Arrived("transmit") /\ Take("transmit")
    BY <1>25 DEF SAccept, SHeader, SData
  <2> QED BY <2>1, Taking DEF SizeType
<1>26. ASSUME Up /\ SHeader PROVE SizeType'
  <2>1. Arrived("transmit") /\ Take("transmit")
    BY <1>26 DEF SAccept, SHeader, SData
  <2> QED BY <2>1, Taking DEF SizeType
<1>27. ASSUME Up /\ SHeaderFails PROVE SizeType'
  BY <1>27 DEF SHeaderFails, SizeType, Wire, Gone, Signal, Undefined, Up
<1>28. ASSUME Up /\ SData PROVE SizeType'
  <2>1. Arrived("transmit") /\ Take("transmit")
    BY <1>28 DEF SAccept, SHeader, SData
  <2> QED BY <2>1, Taking DEF SizeType
<1>29. ASSUME Up /\ SDataFails PROVE SizeType'
  BY <1>29 DEF SDataFails, SizeType, Wire, Gone, Signal, Undefined, Chunked, Up
<1>30. ASSUME Up /\ SSave PROVE SizeType'
  BY <1>30 DEF SSave, SizeType, Wire, Name, Up
<1>31. ASSUME Up /\ SPush PROVE SizeType'
  BY <1>31 DEF SPush, SizeType, Wire, Undefined, Name, Up
<1>32. ASSUME Up /\ SPost PROVE SizeType'
  BY <1>32 DEF SPost, SizeType, Wire, Undefined, Up
<1>33. ASSUME Up /\ RAccept PROVE SizeType'
  <2>1. Wire' = Wire
    BY <1>33 DEF RAccept, Take, Wire, SocketType, Socks
  <2> QED BY <2>1 DEF SizeType
<1>34. ASSUME Up /\ RLeave PROVE SizeType'
  BY <1>34 DEF RLeave, SizeType, Wire, Up
<1>35. ASSUME Up /\ RMatch PROVE SizeType'
  BY <1>35 DEF RMatch, SizeType, Wire, Up
<1>36. ASSUME Up /\ RDead PROVE SizeType'
  BY <1>36 DEF RDead, SizeType, Wire, Up
<1>37. ASSUME Up /\ ChildMatch PROVE SizeType'
  BY <1>37 DEF ChildMatch, SizeType, Wire, Up
<1>38. ASSUME Up /\ ChildSend PROVE SizeType'
  BY <1>38 DEF ChildSend, SizeType, Wire, Back, Up
<1>39. ASSUME NEW s \in Socks, Up /\ NoLogin(s) PROVE SizeType'
  BY <1>39 DEF NoLogin, SizeType, Wire, Gone, Up
<1> QED BY <1>1, <1>2, <1>3, <1>4, <1>5, <1>6, <1>7, <1>8, <1>9, <1>10, <1>11, <1>12,
           <1>13, <1>14, <1>15, <1>16, <1>17, <1>18, <1>19, <1>20, <1>21, <1>22, <1>23,
           <1>24, <1>25, <1>26, <1>27, <1>28, <1>29, <1>30, <1>31, <1>32, <1>33, <1>34,
           <1>35, <1>36, <1>37, <1>38, <1>39, NextSteps

(* The server's threads. *)
LEMMA ServerTypeStep ==
  ASSUME SocketType, SizeType, ServerType, Next
  PROVE  ServerType'
<1> USE DEF caller, sems, cthreads, ends, cvars, net, transmit, heap, matching, svars
<1>1. ASSUME TConnect PROVE ServerType'
  BY <1>1 DEF TConnect, SocketType, ServerType, Connect, Runs
<1>2. ASSUME TLogin PROVE ServerType'
  BY <1>2 DEF TLogin, SocketType, ServerType, Heard, Hear, Runs
<1>3. ASSUME TAcquire PROVE ServerType'
  BY <1>3 DEF TAcquire, SocketType, ServerType, Runs
<1>4. ASSUME THeader PROVE ServerType'
  BY <1>4 DEF THeader, SocketType, ServerType, Put, Header, Runs
<1>5. ASSUME TOk PROVE ServerType'
  BY <1>5 DEF TOk, SocketType, ServerType, Heard, Hear, Runs
<1>6. ASSUME JChunk PROVE ServerType'
  BY <1>6 DEF JChunk, SocketType, ServerType, Put, Data, Runs
<1>7. ASSUME LChunk PROVE ServerType'
  BY <1>7 DEF LChunk, SocketType, ServerType, Put, Data, Runs
<1>8. ASSUME LUnlock PROVE ServerType'
  BY <1>8 DEF LUnlock, SocketType, ServerType, Runs
<1>9. ASSUME TRelease PROVE ServerType'
  BY <1>9 DEF TRelease, SocketType, ServerType, Runs
<1>10. ASSUME RConnect PROVE ServerType'
  BY <1>10 DEF RConnect, SocketType, ServerType, Connect, Runs
<1>11. ASSUME RLogin PROVE ServerType'
  BY <1>11 DEF RLogin, SocketType, ServerType, Heard, Hear, Runs
<1>12. ASSUME ROffer PROVE ServerType'
  BY <1>12 DEF ROffer, SocketType, ServerType, Heard, Hear, Runs
<1>13. ASSUME RRelease PROVE ServerType'
  BY <1>13 DEF RRelease, SocketType, ServerType, Runs
<1>14. ASSUME ExitOnError PROVE ServerType'
  BY <1>14 DEF ExitOnError, SocketType, ServerType, Runs
<1>15. ASSUME SendImageReturns PROVE ServerType'
  BY <1>15 DEF SendImageReturns, SocketType, ServerType, Runs
<1>16. ASSUME GetResultReturns PROVE ServerType'
  BY <1>16 DEF GetResultReturns, SocketType, ServerType, Runs
<1>17. ASSUME Exit PROVE ServerType'
  BY <1>17 DEF Exit, SocketType, ServerType, Runs
<1>18. ASSUME SendImage PROVE ServerType'
  BY <1>18 DEF SendImage, SocketType, ServerType, Idle, Runs
<1>19. ASSUME GetResult PROVE ServerType'
  BY <1>19 DEF GetResult, SocketType, ServerType, Idle, Runs
<1>20. ASSUME Stop PROVE ServerType'
  BY <1>20 DEF Stop, SocketType, ServerType, Idle, Runs
<1>21. ASSUME LSpawn PROVE ServerType'
  BY <1>21 DEF LSpawn, SocketType, ServerType, Runs
<1>22. ASSUME LExit PROVE ServerType'
  BY <1>22 DEF LExit, SocketType, ServerType, Runs
<1>23. ASSUME NEW s \in Socks, Close(s) PROVE ServerType'
  BY <1>23 DEF Close, SocketType, ServerType, Runs
<1>24. ASSUME NEW s \in Socks, Tell(s) PROVE ServerType'
  BY <1>24 DEF Tell, SocketType, ServerType, Runs
<1>25. ASSUME Up /\ SAccept PROVE ServerType'
  BY <1>25 DEF SAccept, SocketType, ServerType, Arrived, Take, Back, Up
<1>26. ASSUME Up /\ SHeader PROVE ServerType'
  <2>1. Head(to_server["transmit"]) = Wire[1] /\ Wire[1] \in Messages /\ 1 \in 1 .. Len(Wire)
    BY <1>26, Taking DEF SHeader
  <2>2. /\ Wire[1].frame \in Names /\ (Wire[1].kind = "header" => Wire[1].size \in Sizes)
        /\ Garbage \in Names
    BY <2>1, FramesAssumption DEF Messages, Names, SizeType, Garbage
  <2>3. frame' \in Names /\ file_size' \in Sizes \cup {0} /\ server' \in {"up", "crashed"}
    BY <1>26, <2>1, <2>2 DEF SHeader, ServerType
  <2> QED BY <1>26, <2>3 DEF SHeader, ServerType
<1>27. ASSUME Up /\ SHeaderFails PROVE ServerType'
  BY <1>27 DEF SHeaderFails, SocketType, ServerType, Gone, Signal, Undefined, Up
<1>28. ASSUME Up /\ SData PROVE ServerType'
  <2>1. spc' \in {"save", "data"} /\ received_size' \in Nat
    BY <1>28, ChunkAssumption DEF SData, SDataFails, Chunked, ServerType
  <2>2. server' \in {"up", "crashed"} /\ torn' \in BOOLEAN
    BY <1>28 DEF SData, SDataFails, Signal, Undefined, ServerType
  <2> QED BY <1>28, <2>1, <2>2 DEF SData, SDataFails, ServerType
<1>29. ASSUME Up /\ SDataFails PROVE ServerType'
  <2>1. spc' \in {"save", "data"} /\ received_size' \in Nat
    BY <1>29, ChunkAssumption DEF SData, SDataFails, Chunked, ServerType
  <2>2. server' \in {"up", "crashed"} /\ torn' \in BOOLEAN
    BY <1>29 DEF SData, SDataFails, Signal, Undefined, ServerType
  <2> QED BY <1>29, <2>1, <2>2 DEF SData, SDataFails, ServerType
<1>30. ASSUME Up /\ SSave PROVE ServerType'
  BY <1>30 DEF SSave, SocketType, ServerType, Name, Up
<1>31. ASSUME Up /\ SPush PROVE ServerType'
  BY <1>31 DEF SPush, SocketType, ServerType, Undefined, Name, Up
<1>32. ASSUME Up /\ SPost PROVE ServerType'
  BY <1>32 DEF SPost, SocketType, ServerType, Undefined, Up
<1>33. ASSUME Up /\ RAccept PROVE ServerType'
  BY <1>33 DEF RAccept, SocketType, ServerType, Arrived, Take, Back, Up
<1>34. ASSUME Up /\ RLeave PROVE ServerType'
  BY <1>34 DEF RLeave, SocketType, ServerType, Up
<1>35. ASSUME Up /\ RMatch PROVE ServerType'
  BY <1>35 DEF RMatch, SocketType, ServerType, Up
<1>36. ASSUME Up /\ RDead PROVE ServerType'
  BY <1>36 DEF RDead, SocketType, ServerType, Up
<1>37. ASSUME Up /\ ChildMatch PROVE ServerType'
  BY <1>37 DEF ChildMatch, SocketType, ServerType, Up
<1>38. ASSUME Up /\ ChildSend PROVE ServerType'
  BY <1>38 DEF ChildSend, SocketType, ServerType, Back, Up
<1>39. ASSUME NEW s \in Socks, Up /\ NoLogin(s) PROVE ServerType'
  BY <1>39 DEF NoLogin, SocketType, ServerType, Gone, Up
<1> QED BY <1>1, <1>2, <1>3, <1>4, <1>5, <1>6, <1>7, <1>8, <1>9, <1>10, <1>11, <1>12,
           <1>13, <1>14, <1>15, <1>16, <1>17, <1>18, <1>19, <1>20, <1>21, <1>22, <1>23,
           <1>24, <1>25, <1>26, <1>27, <1>28, <1>29, <1>30, <1>31, <1>32, <1>33, <1>34,
           <1>35, <1>36, <1>37, <1>38, <1>39, NextSteps

(* The server's heap. *)
LEMMA HeapTypeStep ==
  ASSUME CallerType, ClientType, SocketType, ServerType, HeapType, CallerInv, StartInv,
         Next
  PROVE  HeapType'
<1> USE DEF caller, sems, cthreads, ends, cvars, net, transmit, heap, matching, svars
<1>1. ASSUME TConnect PROVE HeapType'
  BY <1>1 DEF TConnect, HeapType, Connect, Runs
<1>2. ASSUME TLogin PROVE HeapType'
  BY <1>2 DEF TLogin, HeapType, Heard, Hear, Runs
<1>3. ASSUME TAcquire PROVE HeapType'
  BY <1>3 DEF TAcquire, HeapType, Runs
<1>4. ASSUME THeader PROVE HeapType'
  BY <1>4 DEF THeader, HeapType, Put, Header, Runs
<1>5. ASSUME TOk PROVE HeapType'
  BY <1>5 DEF TOk, HeapType, Heard, Hear, Runs
<1>6. ASSUME JChunk PROVE HeapType'
  BY <1>6 DEF JChunk, HeapType, Put, Data, Runs
<1>7. ASSUME LChunk PROVE HeapType'
  BY <1>7 DEF LChunk, HeapType, Put, Data, Runs
<1>8. ASSUME LUnlock PROVE HeapType'
  BY <1>8 DEF LUnlock, HeapType, Runs
<1>9. ASSUME TRelease PROVE HeapType'
  BY <1>9 DEF TRelease, HeapType, Runs
<1>10. ASSUME RConnect PROVE HeapType'
  BY <1>10 DEF RConnect, HeapType, Connect, Runs
<1>11. ASSUME RLogin PROVE HeapType'
  BY <1>11 DEF RLogin, HeapType, Heard, Hear, Runs
<1>12. ASSUME ROffer PROVE HeapType'
  BY <1>12 DEF ROffer, HeapType, Heard, Hear, Runs
<1>13. ASSUME RRelease PROVE HeapType'
  BY <1>13 DEF RRelease, HeapType, Runs
<1>14. ASSUME ExitOnError PROVE HeapType'
  BY <1>14 DEF ExitOnError, HeapType, Runs
<1>15. ASSUME SendImageReturns PROVE HeapType'
  BY <1>15 DEF SendImageReturns, HeapType, Runs
<1>16. ASSUME GetResultReturns PROVE HeapType'
  BY <1>16 DEF GetResultReturns, HeapType, Runs
<1>17. ASSUME Exit PROVE HeapType'
  BY <1>17 DEF Exit, HeapType, Runs
<1>18. ASSUME SendImage PROVE HeapType'
  BY <1>18 DEF SendImage, HeapType, Idle, Runs
<1>19. ASSUME GetResult PROVE HeapType'
  BY <1>19 DEF GetResult, HeapType, Idle, Runs
<1>20. ASSUME Stop PROVE HeapType'
  BY <1>20 DEF Stop, HeapType, Idle, Runs
<1>21. ASSUME LSpawn PROVE HeapType'
  BY <1>21 DEF LSpawn, HeapType, Runs
<1>22. ASSUME LExit PROVE HeapType'
  BY <1>22 DEF LExit, HeapType, Runs
<1>23. ASSUME NEW s \in Socks, Close(s) PROVE HeapType'
  BY <1>23 DEF Close, HeapType, Runs
<1>24. ASSUME NEW s \in Socks, Tell(s) PROVE HeapType'
  BY <1>24 DEF Tell, HeapType, Runs
<1>25. ASSUME Up /\ SAccept PROVE HeapType'
  BY <1>25 DEF SAccept, HeapType, Arrived, Take, Back, Up
<1>26. ASSUME Up /\ SHeader PROVE HeapType'
  BY <1>26 DEF SHeader, HeapType, Arrived, Take, Back, Up
<1>27. ASSUME Up /\ SHeaderFails PROVE HeapType'
  BY <1>27 DEF SHeaderFails, HeapType, Gone, Signal, Undefined, Up
<1>28. ASSUME Up /\ SData PROVE HeapType'
  BY <1>28 DEF SData, HeapType, Arrived, Take, Chunked, Up
<1>29. ASSUME Up /\ SDataFails PROVE HeapType'
  BY <1>29 DEF SDataFails, HeapType, Gone, Signal, Undefined, Chunked, Up
<1>30. ASSUME Up /\ SSave PROVE HeapType'
  <2>1. java \in BOOLEAN /\ frame \in Names
    BY DEF CallerType, ServerType
  <2>2. IF torn THEN Garbage \in Names ELSE frame \in Names
    BY <2>1, FramesAssumption DEF Names, Garbage
  <2>3. file' \in [Names -> Names]
    BY <1>30, <2>2 DEF SSave, HeapType
  <2>4. queue_live' \in BOOLEAN
    BY <1>30 DEF SSave, HeapType
  <2> QED BY <1>30, <2>3, <2>4 DEF SSave, HeapType
<1>31. ASSUME Up /\ SPush PROVE HeapType'
  <2>1. spc = "push"
    BY <1>31 DEF SPush
  <2>2. Name(frame) \in Names
    BY <2>1, FrameBegun DEF Name, ServerType
  <2>3. \A q \in Seq(Names) : Append(q, Name(frame)) \in Seq(Names)
    BY <2>2
  <2>4. queue' = Append(queue, Name(frame)) \/ queue' = queue
    BY <1>31 DEF SPush
  <2>5. queue' \in Seq(Names)
    BY <2>3, <2>4 DEF HeapType
  <2> QED BY <1>31, <2>5 DEF SPush, HeapType
<1>32. ASSUME Up /\ SPost PROVE HeapType'
  BY <1>32 DEF SPost, HeapType, Undefined, Up
<1>33. ASSUME Up /\ RAccept PROVE HeapType'
  BY <1>33 DEF RAccept, HeapType, Arrived, Take, Back, Up
<1>34. ASSUME Up /\ RLeave PROVE HeapType'
  <2>1. sem' \in Nat
    BY <1>34 DEF RLeave, HeapType
  <2> QED BY <1>34, <2>1 DEF RLeave, HeapType
<1>35. ASSUME Up /\ RMatch PROVE HeapType'
  BY <1>35 DEF RMatch, HeapType, Up
<1>36. ASSUME Up /\ RDead PROVE HeapType'
  <2>1. sem' \in Nat
    BY <1>36 DEF RDead, HeapType
  <2>2. sem_live' \in BOOLEAN
    BY <1>36 DEF RDead, HeapType
  <2>3. UNCHANGED <<queue, queue_live, matching>>
    BY <1>36 DEF RDead
  <2> QED BY <2>1, <2>2, <2>3 DEF HeapType
<1>37. ASSUME Up /\ ChildMatch PROVE HeapType'
  <2>1. PICK j \in DOMAIN jobs :
          jobs' = RemoveAt(jobs, j) /\ answers' = Append(answers, file[jobs[j]])
    BY <1>37 DEF ChildMatch
  <2>2. jobs[j] \in Names /\ jobs' \in Seq(Names)
    BY <2>1, RemoveFacts DEF HeapType
  <2>3. answers' \in Seq(Names)
    BY <2>1, <2>2 DEF HeapType
  <2> QED BY <1>37, <2>2, <2>3 DEF ChildMatch, HeapType
<1>38. ASSUME Up /\ ChildSend PROVE HeapType'
  <2>1. PICK a \in DOMAIN answers : answers' = RemoveAt(answers, a)
    BY <1>38 DEF ChildSend
  <2>2. answers' \in Seq(Names)
    BY <2>1, RemoveFacts DEF HeapType
  <2> QED BY <1>38, <2>2 DEF ChildSend, HeapType
<1>39. ASSUME NEW s \in Socks, Up /\ NoLogin(s) PROVE HeapType'
  BY <1>39 DEF NoLogin, HeapType, Gone, Up
<1> QED BY <1>1, <1>2, <1>3, <1>4, <1>5, <1>6, <1>7, <1>8, <1>9, <1>10, <1>11, <1>12,
           <1>13, <1>14, <1>15, <1>16, <1>17, <1>18, <1>19, <1>20, <1>21, <1>22, <1>23,
           <1>24, <1>25, <1>26, <1>27, <1>28, <1>29, <1>30, <1>31, <1>32, <1>33, <1>34,
           <1>35, <1>36, <1>37, <1>38, <1>39, NextSteps

-----------------------------------------------------------------------------
(* The round of caller and transmit thread. *)
LEMMA CallerStep ==
  ASSUME CallerType, ClientType, CallerInv, Next
  PROVE  CallerInv'
<1> USE DEF caller, sems, cthreads, ends, cvars, net, transmit, heap, matching, svars
<1>1. ASSUME TConnect PROVE CallerInv'
  BY <1>1 DEF TConnect, CallerInv, InFrame, CallerType, ClientType, Connect, Runs
<1>2. ASSUME TLogin PROVE CallerInv'
  BY <1>2 DEF TLogin, CallerInv, InFrame, CallerType, ClientType, Heard, Hear, Runs
<1>3. ASSUME TAcquire PROVE CallerInv'
  BY <1>3 DEF TAcquire, CallerInv, InFrame, CallerType, ClientType, Runs
<1>4. ASSUME THeader PROVE CallerInv'
  BY <1>4 DEF THeader, CallerInv, InFrame, CallerType, ClientType, Put, Header, Runs
<1>5. ASSUME TOk PROVE CallerInv'
  BY <1>5 DEF TOk, CallerInv, InFrame, CallerType, ClientType, Heard, Hear, Runs
<1>6. ASSUME JChunk PROVE CallerInv'
  BY <1>6 DEF JChunk, CallerInv, InFrame, CallerType, ClientType, Put, Data, Runs
<1>7. ASSUME LChunk PROVE CallerInv'
  BY <1>7 DEF LChunk, CallerInv, InFrame, CallerType, ClientType, Put, Data, Runs
<1>8. ASSUME LUnlock PROVE CallerInv'
  BY <1>8 DEF LUnlock, CallerInv, InFrame, CallerType, ClientType, Runs
<1>9. ASSUME TRelease PROVE CallerInv'
  BY <1>9 DEF TRelease, CallerInv, InFrame, CallerType, ClientType, Runs
<1>10. ASSUME RConnect PROVE CallerInv'
  BY <1>10 DEF RConnect, CallerInv, InFrame, CallerType, ClientType, Connect, Runs
<1>11. ASSUME RLogin PROVE CallerInv'
  BY <1>11 DEF RLogin, CallerInv, InFrame, CallerType, ClientType, Heard, Hear, Runs
<1>12. ASSUME ROffer PROVE CallerInv'
  BY <1>12 DEF ROffer, CallerInv, InFrame, CallerType, ClientType, Heard, Hear, Runs
<1>13. ASSUME RRelease PROVE CallerInv'
  BY <1>13 DEF RRelease, CallerInv, InFrame, CallerType, ClientType, Runs
<1>14. ASSUME ExitOnError PROVE CallerInv'
  BY <1>14 DEF ExitOnError, CallerInv, InFrame, CallerType, ClientType, Runs
<1>15. ASSUME SendImageReturns PROVE CallerInv'
  BY <1>15 DEF SendImageReturns, CallerInv, InFrame, CallerType, ClientType, Runs
<1>16. ASSUME GetResultReturns PROVE CallerInv'
  BY <1>16 DEF GetResultReturns, CallerInv, InFrame, CallerType, ClientType, Runs
<1>17. ASSUME Exit PROVE CallerInv'
  BY <1>17 DEF Exit, CallerInv, InFrame, CallerType, ClientType, Runs
<1>18. ASSUME SendImage PROVE CallerInv'
  BY <1>18 DEF SendImage, CallerInv, InFrame, CallerType, ClientType, Idle, Runs
<1>19. ASSUME GetResult PROVE CallerInv'
  BY <1>19 DEF GetResult, CallerInv, InFrame, CallerType, ClientType, Idle, Runs
<1>20. ASSUME Stop PROVE CallerInv'
  BY <1>20 DEF Stop, CallerInv, InFrame, CallerType, ClientType, Idle, Runs
<1>21. ASSUME LSpawn PROVE CallerInv'
  BY <1>21 DEF LSpawn, CallerInv, InFrame, CallerType, ClientType, Runs
<1>22. ASSUME LExit PROVE CallerInv'
  BY <1>22 DEF LExit, CallerInv, InFrame, CallerType, ClientType, Runs
<1>23. ASSUME NEW s \in Socks, Close(s) PROVE CallerInv'
  BY <1>23 DEF Close, CallerInv, InFrame, CallerType, ClientType, Runs
<1>24. ASSUME NEW s \in Socks, Tell(s) PROVE CallerInv'
  BY <1>24 DEF Tell, CallerInv, InFrame, CallerType, ClientType, Runs
<1>25. ASSUME Up /\ SAccept PROVE CallerInv'
  BY <1>25 DEF SAccept, CallerInv, InFrame, CallerType, ClientType, Arrived, Take, Back,
     Up
<1>26. ASSUME Up /\ SHeader PROVE CallerInv'
  BY <1>26 DEF SHeader, CallerInv, InFrame, CallerType, ClientType, Arrived, Take, Back,
     Up
<1>27. ASSUME Up /\ SHeaderFails PROVE CallerInv'
  BY <1>27 DEF SHeaderFails, CallerInv, InFrame, CallerType, ClientType, Gone, Signal,
     Undefined, Up
<1>28. ASSUME Up /\ SData PROVE CallerInv'
  BY <1>28 DEF SData, CallerInv, InFrame, CallerType, ClientType, Arrived, Take, Chunked,
     Up
<1>29. ASSUME Up /\ SDataFails PROVE CallerInv'
  BY <1>29 DEF SDataFails, CallerInv, InFrame, CallerType, ClientType, Gone, Signal,
     Undefined, Chunked, Up
<1>30. ASSUME Up /\ SSave PROVE CallerInv'
  BY <1>30 DEF SSave, CallerInv, InFrame, CallerType, ClientType, Name, Up
<1>31. ASSUME Up /\ SPush PROVE CallerInv'
  BY <1>31 DEF SPush, CallerInv, InFrame, CallerType, ClientType, Undefined, Name, Up
<1>32. ASSUME Up /\ SPost PROVE CallerInv'
  BY <1>32 DEF SPost, CallerInv, InFrame, CallerType, ClientType, Undefined, Up
<1>33. ASSUME Up /\ RAccept PROVE CallerInv'
  BY <1>33 DEF RAccept, CallerInv, InFrame, CallerType, ClientType, Arrived, Take, Back,
     Up
<1>34. ASSUME Up /\ RLeave PROVE CallerInv'
  BY <1>34 DEF RLeave, CallerInv, InFrame, CallerType, ClientType, Up
<1>35. ASSUME Up /\ RMatch PROVE CallerInv'
  BY <1>35 DEF RMatch, CallerInv, InFrame, CallerType, ClientType, Up
<1>36. ASSUME Up /\ RDead PROVE CallerInv'
  BY <1>36 DEF RDead, CallerInv, InFrame, CallerType, ClientType, Up
<1>37. ASSUME Up /\ ChildMatch PROVE CallerInv'
  BY <1>37 DEF ChildMatch, CallerInv, InFrame, CallerType, ClientType, Up
<1>38. ASSUME Up /\ ChildSend PROVE CallerInv'
  BY <1>38 DEF ChildSend, CallerInv, InFrame, CallerType, ClientType, Back, Up
<1>39. ASSUME NEW s \in Socks, Up /\ NoLogin(s) PROVE CallerInv'
  BY <1>39 DEF NoLogin, CallerInv, InFrame, CallerType, ClientType, Gone, Up
<1> QED BY <1>1, <1>2, <1>3, <1>4, <1>5, <1>6, <1>7, <1>8, <1>9, <1>10, <1>11, <1>12,
           <1>13, <1>14, <1>15, <1>16, <1>17, <1>18, <1>19, <1>20, <1>21, <1>22, <1>23,
           <1>24, <1>25, <1>26, <1>27, <1>28, <1>29, <1>30, <1>31, <1>32, <1>33, <1>34,
           <1>35, <1>36, <1>37, <1>38, <1>39, NextSteps

(* The results and their permits. *)
LEMMA ResultStep ==
  ASSUME CallerType, ClientType, CallerInv, ResultInv, Next
  PROVE  ResultInv'
<1> USE DEF caller, sems, cthreads, ends, cvars, net, transmit, heap, matching, svars
<1>1. ASSUME TConnect PROVE ResultInv'
  BY <1>1 DEF TConnect, ResultInv, CallerInv, CallerType, ClientType, Connect, Runs
<1>2. ASSUME TLogin PROVE ResultInv'
  BY <1>2 DEF TLogin, ResultInv, CallerInv, CallerType, ClientType, Heard, Hear, Runs
<1>3. ASSUME TAcquire PROVE ResultInv'
  BY <1>3 DEF TAcquire, ResultInv, CallerInv, CallerType, ClientType, Runs
<1>4. ASSUME THeader PROVE ResultInv'
  BY <1>4 DEF THeader, ResultInv, CallerInv, CallerType, ClientType, Put, Header, Runs
<1>5. ASSUME TOk PROVE ResultInv'
  BY <1>5 DEF TOk, ResultInv, CallerInv, CallerType, ClientType, Heard, Hear, Runs
<1>6. ASSUME JChunk PROVE ResultInv'
  BY <1>6 DEF JChunk, ResultInv, CallerInv, CallerType, ClientType, Put, Data, Runs
<1>7. ASSUME LChunk PROVE ResultInv'
  BY <1>7 DEF LChunk, ResultInv, CallerInv, CallerType, ClientType, Put, Data, Runs
<1>8. ASSUME LUnlock PROVE ResultInv'
  BY <1>8 DEF LUnlock, ResultInv, CallerInv, CallerType, ClientType, Runs
<1>9. ASSUME TRelease PROVE ResultInv'
  BY <1>9 DEF TRelease, ResultInv, CallerInv, CallerType, ClientType, Runs
<1>10. ASSUME RConnect PROVE ResultInv'
  BY <1>10 DEF RConnect, ResultInv, CallerInv, CallerType, ClientType, Connect, Runs
<1>11. ASSUME RLogin PROVE ResultInv'
  BY <1>11 DEF RLogin, ResultInv, CallerInv, CallerType, ClientType, Heard, Hear, Runs
<1>12. ASSUME ROffer PROVE ResultInv'
  BY <1>12 DEF ROffer, ResultInv, CallerInv, CallerType, ClientType, Heard, Hear, Runs
<1>13. ASSUME RRelease PROVE ResultInv'
  BY <1>13 DEF RRelease, ResultInv, CallerInv, CallerType, ClientType, Runs
<1>14. ASSUME ExitOnError PROVE ResultInv'
  BY <1>14 DEF ExitOnError, ResultInv, CallerInv, CallerType, ClientType, Runs
<1>15. ASSUME SendImageReturns PROVE ResultInv'
  BY <1>15 DEF SendImageReturns, ResultInv, CallerInv, CallerType, ClientType, Runs
<1>16. ASSUME GetResultReturns PROVE ResultInv'
  BY <1>16 DEF GetResultReturns, ResultInv, CallerInv, CallerType, ClientType, Runs
<1>17. ASSUME Exit PROVE ResultInv'
  BY <1>17 DEF Exit, ResultInv, CallerInv, CallerType, ClientType, Runs
<1>18. ASSUME SendImage PROVE ResultInv'
  BY <1>18 DEF SendImage, ResultInv, CallerInv, CallerType, ClientType, Idle, Runs
<1>19. ASSUME GetResult PROVE ResultInv'
  BY <1>19 DEF GetResult, ResultInv, CallerInv, CallerType, ClientType, Idle, Runs
<1>20. ASSUME Stop PROVE ResultInv'
  BY <1>20 DEF Stop, ResultInv, CallerInv, CallerType, ClientType, Idle, Runs
<1>21. ASSUME LSpawn PROVE ResultInv'
  BY <1>21 DEF LSpawn, ResultInv, CallerInv, CallerType, ClientType, Runs
<1>22. ASSUME LExit PROVE ResultInv'
  BY <1>22 DEF LExit, ResultInv, CallerInv, CallerType, ClientType, Runs
<1>23. ASSUME NEW s \in Socks, Close(s) PROVE ResultInv'
  BY <1>23 DEF Close, ResultInv, CallerInv, CallerType, ClientType, Runs
<1>24. ASSUME NEW s \in Socks, Tell(s) PROVE ResultInv'
  BY <1>24 DEF Tell, ResultInv, CallerInv, CallerType, ClientType, Runs
<1>25. ASSUME Up /\ SAccept PROVE ResultInv'
  BY <1>25 DEF SAccept, ResultInv, CallerInv, CallerType, ClientType, Arrived, Take, Back,
     Up
<1>26. ASSUME Up /\ SHeader PROVE ResultInv'
  BY <1>26 DEF SHeader, ResultInv, CallerInv, CallerType, ClientType, Arrived, Take, Back,
     Up
<1>27. ASSUME Up /\ SHeaderFails PROVE ResultInv'
  BY <1>27 DEF SHeaderFails, ResultInv, CallerInv, CallerType, ClientType, Gone, Signal,
     Undefined, Up
<1>28. ASSUME Up /\ SData PROVE ResultInv'
  BY <1>28 DEF SData, ResultInv, CallerInv, CallerType, ClientType, Arrived, Take,
     Chunked, Up
<1>29. ASSUME Up /\ SDataFails PROVE ResultInv'
  BY <1>29 DEF SDataFails, ResultInv, CallerInv, CallerType, ClientType, Gone, Signal,
     Undefined, Chunked, Up
<1>30. ASSUME Up /\ SSave PROVE ResultInv'
  BY <1>30 DEF SSave, ResultInv, CallerInv, CallerType, ClientType, Name, Up
<1>31. ASSUME Up /\ SPush PROVE ResultInv'
  BY <1>31 DEF SPush, ResultInv, CallerInv, CallerType, ClientType, Undefined, Name, Up
<1>32. ASSUME Up /\ SPost PROVE ResultInv'
  BY <1>32 DEF SPost, ResultInv, CallerInv, CallerType, ClientType, Undefined, Up
<1>33. ASSUME Up /\ RAccept PROVE ResultInv'
  BY <1>33 DEF RAccept, ResultInv, CallerInv, CallerType, ClientType, Arrived, Take, Back,
     Up
<1>34. ASSUME Up /\ RLeave PROVE ResultInv'
  BY <1>34 DEF RLeave, ResultInv, CallerInv, CallerType, ClientType, Up
<1>35. ASSUME Up /\ RMatch PROVE ResultInv'
  BY <1>35 DEF RMatch, ResultInv, CallerInv, CallerType, ClientType, Up
<1>36. ASSUME Up /\ RDead PROVE ResultInv'
  BY <1>36 DEF RDead, ResultInv, CallerInv, CallerType, ClientType, Up
<1>37. ASSUME Up /\ ChildMatch PROVE ResultInv'
  BY <1>37 DEF ChildMatch, ResultInv, CallerInv, CallerType, ClientType, Up
<1>38. ASSUME Up /\ ChildSend PROVE ResultInv'
  BY <1>38 DEF ChildSend, ResultInv, CallerInv, CallerType, ClientType, Back, Up
<1>39. ASSUME NEW s \in Socks, Up /\ NoLogin(s) PROVE ResultInv'
  BY <1>39 DEF NoLogin, ResultInv, CallerInv, CallerType, ClientType, Gone, Up
<1> QED BY <1>1, <1>2, <1>3, <1>4, <1>5, <1>6, <1>7, <1>8, <1>9, <1>10, <1>11, <1>12,
           <1>13, <1>14, <1>15, <1>16, <1>17, <1>18, <1>19, <1>20, <1>21, <1>22, <1>23,
           <1>24, <1>25, <1>26, <1>27, <1>28, <1>29, <1>30, <1>31, <1>32, <1>33, <1>34,
           <1>35, <1>36, <1>37, <1>38, <1>39, NextSteps

(* The sockets and the threads that opened them. *)
LEMMA SocketStep ==
  ASSUME CallerType, ClientType, SocketType, CallerInv, SocketInv, Next
  PROVE  SocketInv'
<1> USE DEF caller, sems, cthreads, ends, cvars, net, transmit, heap, matching, svars
<1>1. ASSUME TConnect PROVE SocketInv'
  BY <1>1 DEF TConnect, SocketInv, SocketType, Socks, Connect, Runs
<1>2. ASSUME TLogin PROVE SocketInv'
  BY <1>2 DEF TLogin, SocketInv, SocketType, Socks, Heard, Hear, Runs
<1>3. ASSUME TAcquire PROVE SocketInv'
  BY <1>3 DEF TAcquire, SocketInv, SocketType, Socks, Runs
<1>4. ASSUME THeader PROVE SocketInv'
  BY <1>4 DEF THeader, SocketInv, SocketType, Socks, Put, Header, Runs
<1>5. ASSUME TOk PROVE SocketInv'
  BY <1>5 DEF TOk, SocketInv, SocketType, Socks, Heard, Hear, Runs
<1>6. ASSUME JChunk PROVE SocketInv'
  BY <1>6 DEF JChunk, SocketInv, SocketType, Socks, Put, Data, Runs
<1>7. ASSUME LChunk PROVE SocketInv'
  BY <1>7 DEF LChunk, SocketInv, SocketType, Socks, Put, Data, Runs
<1>8. ASSUME LUnlock PROVE SocketInv'
  BY <1>8 DEF LUnlock, SocketInv, SocketType, Socks, Runs
<1>9. ASSUME TRelease PROVE SocketInv'
  BY <1>9 DEF TRelease, SocketInv, SocketType, Socks, Runs
<1>10. ASSUME RConnect PROVE SocketInv'
  BY <1>10 DEF RConnect, SocketInv, SocketType, Socks, Connect, Runs
<1>11. ASSUME RLogin PROVE SocketInv'
  BY <1>11 DEF RLogin, SocketInv, SocketType, Socks, Heard, Hear, Runs
<1>12. ASSUME ROffer PROVE SocketInv'
  BY <1>12 DEF ROffer, SocketInv, SocketType, Socks, Heard, Hear, Runs
<1>13. ASSUME RRelease PROVE SocketInv'
  BY <1>13 DEF RRelease, SocketInv, SocketType, Socks, Runs
<1>14. ASSUME ExitOnError PROVE SocketInv'
  BY <1>14 DEF ExitOnError, SocketInv, SocketType, Socks, Runs
<1>15. ASSUME SendImageReturns PROVE SocketInv'
  BY <1>15 DEF SendImageReturns, SocketInv, SocketType, Socks, Runs
<1>16. ASSUME GetResultReturns PROVE SocketInv'
  BY <1>16 DEF GetResultReturns, SocketInv, SocketType, Socks, Runs
<1>17. ASSUME Exit PROVE SocketInv'
  BY <1>17 DEF Exit, SocketInv, SocketType, Socks, Runs
<1>18. ASSUME SendImage PROVE SocketInv'
  BY <1>18 DEF SendImage, SocketInv, SocketType, Socks, Idle, Runs
<1>19. ASSUME GetResult PROVE SocketInv'
  BY <1>19 DEF GetResult, SocketInv, SocketType, Socks, Idle, Runs
<1>20. ASSUME Stop PROVE SocketInv'
  BY <1>20 DEF Stop, SocketInv, SocketType, Socks, Idle, Runs
<1>21. ASSUME LSpawn PROVE SocketInv'
  BY <1>21 DEF LSpawn, SocketInv, SocketType, Socks, Runs
<1>22. ASSUME LExit PROVE SocketInv'
  BY <1>22 DEF LExit, SocketInv, SocketType, Socks, Runs
<1>23. ASSUME NEW s \in Socks, Close(s) PROVE SocketInv'
  <2>1. java /\ user = "stopping" /\ s \in toClose /\ telling = {}
    BY <1>23 DEF Close, CallerInv, CallerType
  <2>2. /\ statusMap' = [statusMap EXCEPT ![s] = "closed"]
        /\ toClose' = toClose \ {s} /\ telling' = {s}
        /\ UNCHANGED <<java, user, tpc, rpc, open, to_server>>
    BY <1>23 DEF Close
  <2> HIDE <1>23
  <2> QED BY <2>1, <2>2 DEF SocketInv, SocketType, Socks
<1>24. ASSUME NEW s \in Socks, Tell(s) PROVE SocketInv'
  BY <1>24 DEF Tell, SocketInv, SocketType, Socks, Runs
<1>25. ASSUME Up /\ SAccept PROVE SocketInv'
  BY <1>25 DEF SAccept, SocketInv, SocketType, Socks, Arrived, Take, Back, Up
<1>26. ASSUME Up /\ SHeader PROVE SocketInv'
  BY <1>26 DEF SHeader, SocketInv, SocketType, Socks, Arrived, Take, Back, Up
<1>27. ASSUME Up /\ SHeaderFails PROVE SocketInv'
  BY <1>27 DEF SHeaderFails, SocketInv, SocketType, Socks, Gone, Signal, Undefined, Up
<1>28. ASSUME Up /\ SData PROVE SocketInv'
  BY <1>28 DEF SData, SocketInv, SocketType, Socks, Arrived, Take, Chunked, Up
<1>29. ASSUME Up /\ SDataFails PROVE SocketInv'
  BY <1>29 DEF SDataFails, SocketInv, SocketType, Socks, Gone, Signal, Undefined, Chunked,
     Up
<1>30. ASSUME Up /\ SSave PROVE SocketInv'
  BY <1>30 DEF SSave, SocketInv, SocketType, Socks, Name, Up
<1>31. ASSUME Up /\ SPush PROVE SocketInv'
  BY <1>31 DEF SPush, SocketInv, SocketType, Socks, Undefined, Name, Up
<1>32. ASSUME Up /\ SPost PROVE SocketInv'
  BY <1>32 DEF SPost, SocketInv, SocketType, Socks, Undefined, Up
<1>33. ASSUME Up /\ RAccept PROVE SocketInv'
  BY <1>33 DEF RAccept, SocketInv, SocketType, Socks, Arrived, Take, Back, Up
<1>34. ASSUME Up /\ RLeave PROVE SocketInv'
  BY <1>34 DEF RLeave, SocketInv, SocketType, Socks, Up
<1>35. ASSUME Up /\ RMatch PROVE SocketInv'
  BY <1>35 DEF RMatch, SocketInv, SocketType, Socks, Up
<1>36. ASSUME Up /\ RDead PROVE SocketInv'
  BY <1>36 DEF RDead, SocketInv, SocketType, Socks, Up
<1>37. ASSUME Up /\ ChildMatch PROVE SocketInv'
  BY <1>37 DEF ChildMatch, SocketInv, SocketType, Socks, Up
<1>38. ASSUME Up /\ ChildSend PROVE SocketInv'
  BY <1>38 DEF ChildSend, SocketInv, SocketType, Socks, Back, Up
<1>39. ASSUME NEW s \in Socks, Up /\ NoLogin(s) PROVE SocketInv'
  BY <1>39 DEF NoLogin, SocketInv, SocketType, Socks, Gone, Up
<1> QED BY <1>1, <1>2, <1>3, <1>4, <1>5, <1>6, <1>7, <1>8, <1>9, <1>10, <1>11, <1>12,
           <1>13, <1>14, <1>15, <1>16, <1>17, <1>18, <1>19, <1>20, <1>21, <1>22, <1>23,
           <1>24, <1>25, <1>26, <1>27, <1>28, <1>29, <1>30, <1>31, <1>32, <1>33, <1>34,
           <1>35, <1>36, <1>37, <1>38, <1>39, NextSteps

-----------------------------------------------------------------------------
(* The answers on the result socket. *)
LEMMA AnswerStep ==
  ASSUME CallerType, SocketType, ServerType, HeapType, SocketInv, AnswerInv, Next
  PROVE  AnswerInv'
<1> USE DEF caller, sems, cthreads, ends, cvars, net, transmit, heap, matching, svars
<1>1. ASSUME TConnect PROVE AnswerInv'
  BY <1>1 DEF TConnect, AnswerInv, Connect, Runs
<1>2. ASSUME TLogin PROVE AnswerInv'
  BY <1>2 DEF TLogin, AnswerInv, Heard, Hear, Runs
<1>3. ASSUME TAcquire PROVE AnswerInv'
  BY <1>3 DEF TAcquire, AnswerInv, Runs
<1>4. ASSUME THeader PROVE AnswerInv'
  BY <1>4 DEF THeader, AnswerInv, Put, Header, Runs
<1>5. ASSUME TOk PROVE AnswerInv'
  BY <1>5 DEF TOk, AnswerInv, Heard, Hear, Runs
<1>6. ASSUME JChunk PROVE AnswerInv'
  BY <1>6 DEF JChunk, AnswerInv, Put, Data, Runs
<1>7. ASSUME LChunk PROVE AnswerInv'
  BY <1>7 DEF LChunk, AnswerInv, Put, Data, Runs
<1>8. ASSUME LUnlock PROVE AnswerInv'
  BY <1>8 DEF LUnlock, AnswerInv, Runs
<1>9. ASSUME TRelease PROVE AnswerInv'
  BY <1>9 DEF TRelease, AnswerInv, Runs
<1>10. ASSUME RConnect PROVE AnswerInv'
  BY <1>10 DEF RConnect, AnswerInv, Connect, Runs
<1>11. ASSUME RLogin PROVE AnswerInv'
  <2>1. to_client["result"] \in Seq(Names \cup {Ok}) /\ to_client["result"] # <<>>
        /\ rpc = "login" /\ rpc' \in {"ended", "recv"} /\ UNCHANGED <<rsp, jobs, answers>>
        /\ to_client'["result"] = Tail(to_client["result"])
    BY <1>11 DEF RLogin, Heard, Hear, SocketType, Socks
  <2>2. rsp # "none"
    BY <2>1 DEF AnswerInv
  <2>3. \A i \in 1 .. Len(to_client'["result"]) : to_client'["result"][i] # Ok
    <3>1. \A i \in 1 .. Len(Tail(to_client["result"])) :
            /\ i + 1 \in 1 .. Len(to_client["result"])
            /\ Tail(to_client["result"])[i] = to_client["result"][i + 1]
      BY <2>1, HeadFacts
    <3>2. ASSUME NEW i \in 1 .. Len(to_client'["result"]), to_client'["result"][i] = Ok
          PROVE  FALSE
      <4>1. to_client["result"][i + 1] = Ok /\ i + 1 \in 1 .. Len(to_client["result"])
        BY <2>1, <3>1, <3>2
      <4>2. i + 1 = 1
        BY <4>1 DEF AnswerInv
      <4> QED BY <4>2
    <3> QED BY <3>2
  <2> QED BY <2>1, <2>2, <2>3 DEF AnswerInv
<1>12. ASSUME ROffer PROVE AnswerInv'
  BY <1>12 DEF ROffer, AnswerInv, Heard, Hear, Runs
<1>13. ASSUME RRelease PROVE AnswerInv'
  BY <1>13 DEF RRelease, AnswerInv, Runs
<1>14. ASSUME ExitOnError PROVE AnswerInv'
  BY <1>14 DEF ExitOnError, AnswerInv, Runs
<1>15. ASSUME SendImageReturns PROVE AnswerInv'
  BY <1>15 DEF SendImageReturns, AnswerInv, Runs
<1>16. ASSUME GetResultReturns PROVE AnswerInv'
  BY <1>16 DEF GetResultReturns, AnswerInv, Runs
<1>17. ASSUME Exit PROVE AnswerInv'
  BY <1>17 DEF Exit, AnswerInv, Runs
<1>18. ASSUME SendImage PROVE AnswerInv'
  BY <1>18 DEF SendImage, AnswerInv, Idle, Runs
<1>19. ASSUME GetResult PROVE AnswerInv'
  BY <1>19 DEF GetResult, AnswerInv, Idle, Runs
<1>20. ASSUME Stop PROVE AnswerInv'
  BY <1>20 DEF Stop, AnswerInv, Idle, Runs
<1>21. ASSUME LSpawn PROVE AnswerInv'
  BY <1>21 DEF LSpawn, AnswerInv, Runs
<1>22. ASSUME LExit PROVE AnswerInv'
  BY <1>22 DEF LExit, AnswerInv, Runs
<1>23. ASSUME NEW s \in Socks, Close(s) PROVE AnswerInv'
  BY <1>23 DEF Close, AnswerInv, Runs
<1>24. ASSUME NEW s \in Socks, Tell(s) PROVE AnswerInv'
  BY <1>24 DEF Tell, AnswerInv, Runs
<1>25. ASSUME Up /\ SAccept PROVE AnswerInv'
  BY <1>25 DEF SAccept, AnswerInv, Arrived, Take, Back, Up
<1>26. ASSUME Up /\ SHeader PROVE AnswerInv'
  BY <1>26 DEF SHeader, AnswerInv, Arrived, Take, Back, Up
<1>27. ASSUME Up /\ SHeaderFails PROVE AnswerInv'
  BY <1>27 DEF SHeaderFails, AnswerInv, Gone, Signal, Undefined, Up
<1>28. ASSUME Up /\ SData PROVE AnswerInv'
  BY <1>28 DEF SData, AnswerInv, Arrived, Take, Chunked, Up
<1>29. ASSUME Up /\ SDataFails PROVE AnswerInv'
  BY <1>29 DEF SDataFails, AnswerInv, Gone, Signal, Undefined, Chunked, Up
<1>30. ASSUME Up /\ SSave PROVE AnswerInv'
  BY <1>30 DEF SSave, AnswerInv, Name, Up
<1>31. ASSUME Up /\ SPush PROVE AnswerInv'
  BY <1>31 DEF SPush, AnswerInv, Undefined, Name, Up
<1>32. ASSUME Up /\ SPost PROVE AnswerInv'
  BY <1>32 DEF SPost, AnswerInv, Undefined, Up
<1>33. ASSUME Up /\ RAccept PROVE AnswerInv'
  <2>1. /\ rsp = "none" /\ rsp' = "wait" /\ UNCHANGED <<rpc, jobs, answers, open>>
        /\ to_server["result"] # <<>> /\ open["result"] = "open" /\ Back("result", Ok)
    BY <1>33 DEF RAccept, Arrived
  <2>2. to_client'["result"] = Append(to_client["result"], Ok)
    BY <2>1 DEF Back, SocketType, Socks
  <2>3. to_client["result"] = <<>> /\ rpc = "login"
    BY <2>1 DEF AnswerInv, SocketInv, Socks
  <2>4. to_client'["result"] = <<Ok>>
    BY <2>2, <2>3
  <2> QED BY <2>1, <2>3, <2>4 DEF AnswerInv
<1>34. ASSUME Up /\ RLeave PROVE AnswerInv'
  BY <1>34 DEF RLeave, AnswerInv, Up
<1>35. ASSUME Up /\ RMatch PROVE AnswerInv'
  BY <1>35 DEF RMatch, AnswerInv, Up
<1>36. ASSUME Up /\ RDead PROVE AnswerInv'
  BY <1>36 DEF RDead, AnswerInv, Up
<1>37. ASSUME Up /\ ChildMatch PROVE AnswerInv'
  BY <1>37 DEF ChildMatch, AnswerInv, Up
<1>38. ASSUME Up /\ ChildSend PROVE AnswerInv'
  <2>1. PICK a \in DOMAIN answers :
          answers' = RemoveAt(answers, a) /\ Back("result", answers[a])
    BY <1>38 DEF ChildSend
  <2>2. answers[a] \in Names /\ answers # <<>>
    BY <2>1, RemoveFacts DEF HeapType
  <2>3. rsp # "none" /\ UNCHANGED <<rsp, rpc, jobs>>
    BY <1>38, <2>2 DEF ChildSend, AnswerInv
  <2>4. answers[a] # Ok
    BY <2>2, FramesAssumption DEF Names, Ok
  <2>5. to_client["result"] \in Seq(Names \cup {Ok}) /\ answers[a] \in Names \cup {Ok}
    BY <2>2 DEF SocketType, Socks
  <2>6. CASE to_client'["result"] = to_client["result"]
    BY <2>3, <2>6 DEF AnswerInv
  <2>7. CASE to_client'["result"] = Append(to_client["result"], answers[a])
    <3> DEFINE q == to_client["result"]
    <3>1. /\ Append(q, answers[a]) # <<>> /\ Len(q) \in Nat
          /\ Len(Append(q, answers[a])) = Len(q) + 1
          /\ Append(q, answers[a])[Len(q) + 1] = answers[a]
          /\ \A i \in 1 .. Len(q) : Append(q, answers[a])[i] = q[i]
      BY <2>5, AppendFacts
    <3>2. ASSUME NEW i \in 1 .. Len(Append(q, answers[a])), Append(q, answers[a])[i] = Ok
          PROVE  i \in 1 .. Len(q) /\ q[i] = Ok
      BY <2>4, <3>1, <3>2
    <3>3. q # <<>> => Append(q, answers[a])[1] = q[1]
      BY <2>5, <3>1
    <3> QED BY <2>3, <2>7, <3>1, <3>2, <3>3 DEF AnswerInv
  <2> QED BY <2>1, <2>6, <2>7 DEF Back, SocketType, Socks
<1>39. ASSUME NEW s \in Socks, Up /\ NoLogin(s) PROVE AnswerInv'
  BY <1>39 DEF NoLogin, AnswerInv, Gone, Up
<1> QED BY <1>1, <1>2, <1>3, <1>4, <1>5, <1>6, <1>7, <1>8, <1>9, <1>10, <1>11, <1>12,
           <1>13, <1>14, <1>15, <1>16, <1>17, <1>18, <1>19, <1>20, <1>21, <1>22, <1>23,
           <1>24, <1>25, <1>26, <1>27, <1>28, <1>29, <1>30, <1>31, <1>32, <1>33, <1>34,
           <1>35, <1>36, <1>37, <1>38, <1>39, NextSteps

(* Before the login is read. *)
LEMMA StartStep ==
  ASSUME CallerType, ClientType, SocketType, ServerType, HeapType, CallerInv, SocketInv,
         AnswerInv, StartInv, Next
  PROVE  StartInv'
<1> USE DEF caller, sems, cthreads, ends, cvars, net, transmit, heap, matching, svars
<1>1. ASSUME TConnect PROVE StartInv'
  BY <1>1 DEF TConnect, StartInv, Wire, ClientType, ServerType, Connect, Runs
<1>2. ASSUME TLogin PROVE StartInv'
  BY <1>2 DEF TLogin, StartInv, Wire, ClientType, ServerType, Heard, Hear, Runs
<1>3. ASSUME TAcquire PROVE StartInv'
  BY <1>3 DEF TAcquire, StartInv, Wire, ClientType, ServerType, Runs
<1>4. ASSUME THeader PROVE StartInv'
  BY <1>4 DEF THeader, StartInv, Wire, ClientType, ServerType, Put, Header, Runs
<1>5. ASSUME TOk PROVE StartInv'
  BY <1>5 DEF TOk, StartInv, Wire, ClientType, ServerType, Heard, Hear, Runs
<1>6. ASSUME JChunk PROVE StartInv'
  <2>1. tpc = "chunks" /\ tpc' \in {"chunks", "release"} /\ UNCHANGED <<spc, begun>>
    BY <1>6 DEF JChunk, LChunk
  <2>2. begun > 0 /\ spc # "none"
    BY <2>1 DEF CallerInv, StartInv
  <2> QED BY <2>1, <2>2 DEF StartInv, ClientType
<1>7. ASSUME LChunk PROVE StartInv'
  <2>1. tpc = "chunks" /\ tpc' \in {"chunks", "release"} /\ UNCHANGED <<spc, begun>>
    BY <1>7 DEF JChunk, LChunk
  <2>2. begun > 0 /\ spc # "none"
    BY <2>1 DEF CallerInv, StartInv
  <2> QED BY <2>1, <2>2 DEF StartInv, ClientType
<1>8. ASSUME LUnlock PROVE StartInv'
  BY <1>8 DEF LUnlock, StartInv, Wire, ClientType, ServerType, Runs
<1>9. ASSUME TRelease PROVE StartInv'
  BY <1>9 DEF TRelease, StartInv, Wire, ClientType, ServerType, Runs
<1>10. ASSUME RConnect PROVE StartInv'
  BY <1>10 DEF RConnect, StartInv, Wire, ClientType, ServerType, Connect, Runs
<1>11. ASSUME RLogin PROVE StartInv'
  BY <1>11 DEF RLogin, StartInv, Wire, ClientType, ServerType, Heard, Hear, Runs
<1>12. ASSUME ROffer PROVE StartInv'
  BY <1>12 DEF ROffer, StartInv, Wire, ClientType, ServerType, Heard, Hear, Runs
<1>13. ASSUME RRelease PROVE StartInv'
  BY <1>13 DEF RRelease, StartInv, Wire, ClientType, ServerType, Runs
<1>14. ASSUME ExitOnError PROVE StartInv'
  BY <1>14 DEF ExitOnError, StartInv, Wire, ClientType, ServerType, Runs
<1>15. ASSUME SendImageReturns PROVE StartInv'
  BY <1>15 DEF SendImageReturns, StartInv, Wire, ClientType, ServerType, Runs
<1>16. ASSUME GetResultReturns PROVE StartInv'
  BY <1>16 DEF GetResultReturns, StartInv, Wire, ClientType, ServerType, Runs
<1>17. ASSUME Exit PROVE StartInv'
  BY <1>17 DEF Exit, StartInv, Wire, ClientType, ServerType, Runs
<1>18. ASSUME SendImage PROVE StartInv'
  BY <1>18 DEF SendImage, StartInv, Wire, ClientType, ServerType, Idle, Runs
<1>19. ASSUME GetResult PROVE StartInv'
  BY <1>19 DEF GetResult, StartInv, Wire, ClientType, ServerType, Idle, Runs
<1>20. ASSUME Stop PROVE StartInv'
  BY <1>20 DEF Stop, StartInv, Wire, ClientType, ServerType, Idle, Runs
<1>21. ASSUME LSpawn PROVE StartInv'
  BY <1>21 DEF LSpawn, StartInv, Wire, ClientType, ServerType, Runs
<1>22. ASSUME LExit PROVE StartInv'
  BY <1>22 DEF LExit, StartInv, Wire, ClientType, ServerType, Runs
<1>23. ASSUME NEW s \in Socks, Close(s) PROVE StartInv'
  BY <1>23 DEF Close, StartInv, Wire, ClientType, ServerType, Runs
<1>24. ASSUME NEW s \in Socks, Tell(s) PROVE StartInv'
  BY <1>24 DEF Tell, StartInv, Wire, ClientType, ServerType, Runs
<1>25. ASSUME Up /\ SAccept PROVE StartInv'
  <2>1. Arrived("transmit") /\ Take("transmit") /\ spc = "none" /\ spc' = "header"
        /\ UNCHANGED <<tpc, begun>>
    BY <1>25 DEF SAccept
  <2>2. Wire = <<Login>> /\ tpc = "login"
    BY <2>1, Taking DEF StartInv, SocketInv, Socks
  <2>3. Wire' = <<>>
    BY <2>1, <2>2, Taking
  <2> QED BY <2>1, <2>2, <2>3 DEF StartInv
<1>26. ASSUME Up /\ SHeader PROVE StartInv'
  BY <1>26 DEF SHeader, StartInv, Wire, ClientType, ServerType, Arrived, Take, Back, Up
<1>27. ASSUME Up /\ SHeaderFails PROVE StartInv'
  BY <1>27 DEF SHeaderFails, StartInv, Wire, ClientType, ServerType, Gone, Signal,
     Undefined, Up
<1>28. ASSUME Up /\ SData PROVE StartInv'
  BY <1>28 DEF SData, StartInv, Wire, ClientType, ServerType, Arrived, Take, Chunked, Up
<1>29. ASSUME Up /\ SDataFails PROVE StartInv'
  BY <1>29 DEF SDataFails, StartInv, Wire, ClientType, ServerType, Gone, Signal,
     Undefined, Chunked, Up
<1>30. ASSUME Up /\ SSave PROVE StartInv'
  BY <1>30 DEF SSave, StartInv, Wire, ClientType, ServerType, Name, Up
<1>31. ASSUME Up /\ SPush PROVE StartInv'
  BY <1>31 DEF SPush, StartInv, Wire, ClientType, ServerType, Undefined, Name, Up
<1>32. ASSUME Up /\ SPost PROVE StartInv'
  BY <1>32 DEF SPost, StartInv, Wire, ClientType, ServerType, Undefined, Up
<1>33. ASSUME Up /\ RAccept PROVE StartInv'
  BY <1>33 DEF RAccept, StartInv, Wire, ClientType, ServerType, Arrived, Take, Back, Up
<1>34. ASSUME Up /\ RLeave PROVE StartInv'
  BY <1>34 DEF RLeave, StartInv, Wire, ClientType, ServerType, Up
<1>35. ASSUME Up /\ RMatch PROVE StartInv'
  BY <1>35 DEF RMatch, StartInv, Wire, ClientType, ServerType, Up
<1>36. ASSUME Up /\ RDead PROVE StartInv'
  BY <1>36 DEF RDead, StartInv, Wire, ClientType, ServerType, Up
<1>37. ASSUME Up /\ ChildMatch PROVE StartInv'
  BY <1>37 DEF ChildMatch, StartInv, Wire, ClientType, ServerType, Up
<1>38. ASSUME Up /\ ChildSend PROVE StartInv'
  BY <1>38 DEF ChildSend, StartInv, Wire, ClientType, ServerType, Back, Up
<1>39. ASSUME NEW s \in Socks, Up /\ NoLogin(s) PROVE StartInv'
  BY <1>39 DEF NoLogin, StartInv, Wire, ClientType, ServerType, Gone, Up
<1> QED BY <1>1, <1>2, <1>3, <1>4, <1>5, <1>6, <1>7, <1>8, <1>9, <1>10, <1>11, <1>12,
           <1>13, <1>14, <1>15, <1>16, <1>17, <1>18, <1>19, <1>20, <1>21, <1>22, <1>23,
           <1>24, <1>25, <1>26, <1>27, <1>28, <1>29, <1>30, <1>31, <1>32, <1>33, <1>34,
           <1>35, <1>36, <1>37, <1>38, <1>39, NextSteps

(* What is made and what is deleted. *)
LEMMA LifeStep ==
  ASSUME CallerType, SocketType, ServerType, HeapType, SocketInv, StartInv, LifeInv,
         Next
  PROVE  LifeInv'
<1> USE DEF caller, sems, cthreads, ends, cvars, net, transmit, heap, matching, svars
<1>1. ASSUME TConnect PROVE LifeInv'
  <2>1. spc = "none" /\ ~torn
    BY <1>1 DEF TConnect, StartInv, LifeInv
  <2>2. UNCHANGED svars
    BY <1>1 DEF TConnect, Connect
  <2> HIDE <1>1
  <2> QED BY <2>1, <2>2 DEF LifeInv
<1>2. ASSUME TLogin PROVE LifeInv'
  BY <1>2 DEF TLogin, LifeInv, ServerType, Heard, Hear, Runs
<1>3. ASSUME TAcquire PROVE LifeInv'
  BY <1>3 DEF TAcquire, LifeInv, ServerType, Runs
<1>4. ASSUME THeader PROVE LifeInv'
  BY <1>4 DEF THeader, LifeInv, ServerType, Put, Header, Runs
<1>5. ASSUME TOk PROVE LifeInv'
  BY <1>5 DEF TOk, LifeInv, ServerType, Heard, Hear, Runs
<1>6. ASSUME JChunk PROVE LifeInv'
  BY <1>6 DEF JChunk, LifeInv, ServerType, Put, Data, Runs
<1>7. ASSUME LChunk PROVE LifeInv'
  BY <1>7 DEF LChunk, LifeInv, ServerType, Put, Data, Runs
<1>8. ASSUME LUnlock PROVE LifeInv'
  BY <1>8 DEF LUnlock, LifeInv, ServerType, Runs
<1>9. ASSUME TRelease PROVE LifeInv'
  BY <1>9 DEF TRelease, LifeInv, ServerType, Runs
<1>10. ASSUME RConnect PROVE LifeInv'
  BY <1>10 DEF RConnect, LifeInv, ServerType, Connect, Runs
<1>11. ASSUME RLogin PROVE LifeInv'
  BY <1>11 DEF RLogin, LifeInv, ServerType, Heard, Hear, Runs
<1>12. ASSUME ROffer PROVE LifeInv'
  BY <1>12 DEF ROffer, LifeInv, ServerType, Heard, Hear, Runs
<1>13. ASSUME RRelease PROVE LifeInv'
  BY <1>13 DEF RRelease, LifeInv, ServerType, Runs
<1>14. ASSUME ExitOnError PROVE LifeInv'
  BY <1>14 DEF ExitOnError, LifeInv, ServerType, Runs
<1>15. ASSUME SendImageReturns PROVE LifeInv'
  BY <1>15 DEF SendImageReturns, LifeInv, ServerType, Runs
<1>16. ASSUME GetResultReturns PROVE LifeInv'
  BY <1>16 DEF GetResultReturns, LifeInv, ServerType, Runs
<1>17. ASSUME Exit PROVE LifeInv'
  BY <1>17 DEF Exit, LifeInv, ServerType, Runs
<1>18. ASSUME SendImage PROVE LifeInv'
  BY <1>18 DEF SendImage, LifeInv, ServerType, Idle, Runs
<1>19. ASSUME GetResult PROVE LifeInv'
  BY <1>19 DEF GetResult, LifeInv, ServerType, Idle, Runs
<1>20. ASSUME Stop PROVE LifeInv'
  BY <1>20 DEF Stop, LifeInv, ServerType, Idle, Runs
<1>21. ASSUME LSpawn PROVE LifeInv'
  BY <1>21 DEF LSpawn, LifeInv, ServerType, Runs
<1>22. ASSUME LExit PROVE LifeInv'
  BY <1>22 DEF LExit, LifeInv, ServerType, Runs
<1>23. ASSUME NEW s \in Socks, Close(s) PROVE LifeInv'
  BY <1>23 DEF Close, LifeInv, ServerType, Runs
<1>24. ASSUME NEW s \in Socks, Tell(s) PROVE LifeInv'
  BY <1>24 DEF Tell, LifeInv, ServerType, Runs
<1>25. ASSUME Up /\ SAccept PROVE LifeInv'
  BY <1>25 DEF SAccept, LifeInv, ServerType, Arrived, Take, Back, Up
<1>26. ASSUME Up /\ SHeader PROVE LifeInv'
  BY <1>26 DEF SHeader, LifeInv, ServerType, Arrived, Take, Back, Up
<1>27. ASSUME Up /\ SHeaderFails PROVE LifeInv'
  BY <1>27 DEF SHeaderFails, LifeInv, ServerType, Gone, Signal, Undefined, Up
<1>28. ASSUME Up /\ SData PROVE LifeInv'
  BY <1>28 DEF SData, LifeInv, ServerType, Arrived, Take, Chunked, Up
<1>29. ASSUME Up /\ SDataFails PROVE LifeInv'
  BY <1>29 DEF SDataFails, LifeInv, ServerType, Gone, Signal, Undefined, Chunked, Up
<1>30. ASSUME Up /\ SSave PROVE LifeInv'
  BY <1>30 DEF SSave, LifeInv, ServerType, Name, Up
<1>31. ASSUME Up /\ SPush PROVE LifeInv'
  BY <1>31 DEF SPush, LifeInv, ServerType, Undefined, Name, Up
<1>32. ASSUME Up /\ SPost PROVE LifeInv'
  BY <1>32 DEF SPost, LifeInv, ServerType, Undefined, Up
<1>33. ASSUME Up /\ RAccept PROVE LifeInv'
  BY <1>33 DEF RAccept, LifeInv, ServerType, Arrived, Take, Back, Up
<1>34. ASSUME Up /\ RLeave PROVE LifeInv'
  BY <1>34 DEF RLeave, LifeInv, ServerType, Up
<1>35. ASSUME Up /\ RMatch PROVE LifeInv'
  BY <1>35 DEF RMatch, LifeInv, ServerType, Up
<1>36. ASSUME Up /\ RDead PROVE LifeInv'
  <2>1. /\ rsp = "wait" /\ sem > 0 /\ sem_match /\ ~queue_live /\ unsaved /\ spc = "ended"
    BY <1>36 DEF RDead, LifeInv, ServerType
  <2>2. /\ UNCHANGED <<spc, sem_match, torn, unsaved, queue_live, open>>
        /\ sem' = sem - 1
    BY <1>36 DEF RDead
  <2>3. CASE UNCHANGED <<rsp, sem_live>>
    BY <2>1, <2>2, <2>3 DEF LifeInv, HeapType
  <2>4. CASE rsp' = "ended" /\ sem_live' = FALSE
    BY <2>1, <2>2, <2>4 DEF LifeInv, HeapType
  <2> QED BY <1>36, <2>3, <2>4 DEF RDead
<1>37. ASSUME Up /\ ChildMatch PROVE LifeInv'
  BY <1>37 DEF ChildMatch, LifeInv, ServerType, Up
<1>38. ASSUME Up /\ ChildSend PROVE LifeInv'
  BY <1>38 DEF ChildSend, LifeInv, ServerType, Back, Up
<1>39. ASSUME NEW s \in Socks, Up /\ NoLogin(s) PROVE LifeInv'
  BY <1>39 DEF NoLogin, LifeInv, ServerType, Gone, Up
<1> QED BY <1>1, <1>2, <1>3, <1>4, <1>5, <1>6, <1>7, <1>8, <1>9, <1>10, <1>11, <1>12,
           <1>13, <1>14, <1>15, <1>16, <1>17, <1>18, <1>19, <1>20, <1>21, <1>22, <1>23,
           <1>24, <1>25, <1>26, <1>27, <1>28, <1>29, <1>30, <1>31, <1>32, <1>33, <1>34,
           <1>35, <1>36, <1>37, <1>38, <1>39, NextSteps

(* The logins. *)
LEMMA UserStep ==
  ASSUME ServerType, HeapType, LifeInv, UserInv, Next
  PROVE  UserInv'
<1> USE DEF caller, sems, cthreads, ends, cvars, net, transmit, heap, matching, svars
<1>1. ASSUME TConnect PROVE UserInv'
  BY <1>1 DEF TConnect, UserInv, ServerType, Connect, Runs
<1>2. ASSUME TLogin PROVE UserInv'
  BY <1>2 DEF TLogin, UserInv, ServerType, Heard, Hear, Runs
<1>3. ASSUME TAcquire PROVE UserInv'
  BY <1>3 DEF TAcquire, UserInv, ServerType, Runs
<1>4. ASSUME THeader PROVE UserInv'
  BY <1>4 DEF THeader, UserInv, ServerType, Put, Header, Runs
<1>5. ASSUME TOk PROVE UserInv'
  BY <1>5 DEF TOk, UserInv, ServerType, Heard, Hear, Runs
<1>6. ASSUME JChunk PROVE UserInv'
  BY <1>6 DEF JChunk, UserInv, ServerType, Put, Data, Runs
<1>7. ASSUME LChunk PROVE UserInv'
  BY <1>7 DEF LChunk, UserInv, ServerType, Put, Data, Runs
<1>8. ASSUME LUnlock PROVE UserInv'
  BY <1>8 DEF LUnlock, UserInv, ServerType, Runs
<1>9. ASSUME TRelease PROVE UserInv'
  BY <1>9 DEF TRelease, UserInv, ServerType, Runs
<1>10. ASSUME RConnect PROVE UserInv'
  BY <1>10 DEF RConnect, UserInv, ServerType, Connect, Runs
<1>11. ASSUME RLogin PROVE UserInv'
  BY <1>11 DEF RLogin, UserInv, ServerType, Heard, Hear, Runs
<1>12. ASSUME ROffer PROVE UserInv'
  BY <1>12 DEF ROffer, UserInv, ServerType, Heard, Hear, Runs
<1>13. ASSUME RRelease PROVE UserInv'
  BY <1>13 DEF RRelease, UserInv, ServerType, Runs
<1>14. ASSUME ExitOnError PROVE UserInv'
  BY <1>14 DEF ExitOnError, UserInv, ServerType, Runs
<1>15. ASSUME SendImageReturns PROVE UserInv'
  BY <1>15 DEF SendImageReturns, UserInv, ServerType, Runs
<1>16. ASSUME GetResultReturns PROVE UserInv'
  BY <1>16 DEF GetResultReturns, UserInv, ServerType, Runs
<1>17. ASSUME Exit PROVE UserInv'
  BY <1>17 DEF Exit, UserInv, ServerType, Runs
<1>18. ASSUME SendImage PROVE UserInv'
  BY <1>18 DEF SendImage, UserInv, ServerType, Idle, Runs
<1>19. ASSUME GetResult PROVE UserInv'
  BY <1>19 DEF GetResult, UserInv, ServerType, Idle, Runs
<1>20. ASSUME Stop PROVE UserInv'
  BY <1>20 DEF Stop, UserInv, ServerType, Idle, Runs
<1>21. ASSUME LSpawn PROVE UserInv'
  BY <1>21 DEF LSpawn, UserInv, ServerType, Runs
<1>22. ASSUME LExit PROVE UserInv'
  BY <1>22 DEF LExit, UserInv, ServerType, Runs
<1>23. ASSUME NEW s \in Socks, Close(s) PROVE UserInv'
  BY <1>23 DEF Close, UserInv, ServerType, Runs
<1>24. ASSUME NEW s \in Socks, Tell(s) PROVE UserInv'
  BY <1>24 DEF Tell, UserInv, ServerType, Runs
<1>25. ASSUME Up /\ SAccept PROVE UserInv'
  BY <1>25 DEF SAccept, UserInv, ServerType, Arrived, Take, Back, Up
<1>26. ASSUME Up /\ SHeader PROVE UserInv'
  BY <1>26 DEF SHeader, UserInv, ServerType, Arrived, Take, Back, Up
<1>27. ASSUME Up /\ SHeaderFails PROVE UserInv'
  BY <1>27 DEF SHeaderFails, UserInv, ServerType, Gone, Signal, Undefined, Up
<1>28. ASSUME Up /\ SData PROVE UserInv'
  BY <1>28 DEF SData, UserInv, ServerType, Arrived, Take, Chunked, Up
<1>29. ASSUME Up /\ SDataFails PROVE UserInv'
  BY <1>29 DEF SDataFails, UserInv, ServerType, Gone, Signal, Undefined, Chunked, Up
<1>30. ASSUME Up /\ SSave PROVE UserInv'
  BY <1>30 DEF SSave, UserInv, ServerType, Name, Up
<1>31. ASSUME Up /\ SPush PROVE UserInv'
  BY <1>31 DEF SPush, UserInv, ServerType, Undefined, Name, Up
<1>32. ASSUME Up /\ SPost PROVE UserInv'
  BY <1>32 DEF SPost, UserInv, ServerType, Undefined, Up
<1>33. ASSUME Up /\ RAccept PROVE UserInv'
  BY <1>33 DEF RAccept, UserInv, ServerType, Arrived, Take, Back, Up
<1>34. ASSUME Up /\ RLeave PROVE UserInv'
  BY <1>34 DEF RLeave, UserInv, ServerType, Up
<1>35. ASSUME Up /\ RMatch PROVE UserInv'
  BY <1>35 DEF RMatch, UserInv, ServerType, Up
<1>36. ASSUME Up /\ RDead PROVE UserInv'
  BY <1>36 DEF RDead, UserInv, ServerType, Up
<1>37. ASSUME Up /\ ChildMatch PROVE UserInv'
  BY <1>37 DEF ChildMatch, UserInv, ServerType, Up
<1>38. ASSUME Up /\ ChildSend PROVE UserInv'
  BY <1>38 DEF ChildSend, UserInv, ServerType, Back, Up
<1>39. ASSUME NEW s \in Socks, Up /\ NoLogin(s) PROVE UserInv'
  BY <1>39 DEF NoLogin, UserInv, ServerType, Gone, Up
<1> QED BY <1>1, <1>2, <1>3, <1>4, <1>5, <1>6, <1>7, <1>8, <1>9, <1>10, <1>11, <1>12,
           <1>13, <1>14, <1>15, <1>16, <1>17, <1>18, <1>19, <1>20, <1>21, <1>22, <1>23,
           <1>24, <1>25, <1>26, <1>27, <1>28, <1>29, <1>30, <1>31, <1>32, <1>33, <1>34,
           <1>35, <1>36, <1>37, <1>38, <1>39, NextSteps

(* The posts and the names in the queue. *)
LEMMA TokenStep ==
  ASSUME SocketType, ServerType, HeapType, SocketInv, StartInv, LifeInv, TokenInv, Next
  PROVE  TokenInv'
<1> USE DEF caller, sems, cthreads, ends, cvars, net, transmit, heap, matching, svars
<1>1. ASSUME TConnect PROVE TokenInv'
  BY <1>1 DEF TConnect, TokenInv, LifeInv, ServerType, HeapType, Connect, Runs
<1>2. ASSUME TLogin PROVE TokenInv'
  BY <1>2 DEF TLogin, TokenInv, LifeInv, ServerType, HeapType, Heard, Hear, Runs
<1>3. ASSUME TAcquire PROVE TokenInv'
  BY <1>3 DEF TAcquire, TokenInv, LifeInv, ServerType, HeapType, Runs
<1>4. ASSUME THeader PROVE TokenInv'
  BY <1>4 DEF THeader, TokenInv, LifeInv, ServerType, HeapType, Put, Header, Runs
<1>5. ASSUME TOk PROVE TokenInv'
  BY <1>5 DEF TOk, TokenInv, LifeInv, ServerType, HeapType, Heard, Hear, Runs
<1>6. ASSUME JChunk PROVE TokenInv'
  BY <1>6 DEF JChunk, TokenInv, LifeInv, ServerType, HeapType, Put, Data, Runs
<1>7. ASSUME LChunk PROVE TokenInv'
  BY <1>7 DEF LChunk, TokenInv, LifeInv, ServerType, HeapType, Put, Data, Runs
<1>8. ASSUME LUnlock PROVE TokenInv'
  BY <1>8 DEF LUnlock, TokenInv, LifeInv, ServerType, HeapType, Runs
<1>9. ASSUME TRelease PROVE TokenInv'
  BY <1>9 DEF TRelease, TokenInv, LifeInv, ServerType, HeapType, Runs
<1>10. ASSUME RConnect PROVE TokenInv'
  BY <1>10 DEF RConnect, TokenInv, LifeInv, ServerType, HeapType, Connect, Runs
<1>11. ASSUME RLogin PROVE TokenInv'
  BY <1>11 DEF RLogin, TokenInv, LifeInv, ServerType, HeapType, Heard, Hear, Runs
<1>12. ASSUME ROffer PROVE TokenInv'
  BY <1>12 DEF ROffer, TokenInv, LifeInv, ServerType, HeapType, Heard, Hear, Runs
<1>13. ASSUME RRelease PROVE TokenInv'
  BY <1>13 DEF RRelease, TokenInv, LifeInv, ServerType, HeapType, Runs
<1>14. ASSUME ExitOnError PROVE TokenInv'
  BY <1>14 DEF ExitOnError, TokenInv, LifeInv, ServerType, HeapType, Runs
<1>15. ASSUME SendImageReturns PROVE TokenInv'
  BY <1>15 DEF SendImageReturns, TokenInv, LifeInv, ServerType, HeapType, Runs
<1>16. ASSUME GetResultReturns PROVE TokenInv'
  BY <1>16 DEF GetResultReturns, TokenInv, LifeInv, ServerType, HeapType, Runs
<1>17. ASSUME Exit PROVE TokenInv'
  BY <1>17 DEF Exit, TokenInv, LifeInv, ServerType, HeapType, Runs
<1>18. ASSUME SendImage PROVE TokenInv'
  BY <1>18 DEF SendImage, TokenInv, LifeInv, ServerType, HeapType, Idle, Runs
<1>19. ASSUME GetResult PROVE TokenInv'
  BY <1>19 DEF GetResult, TokenInv, LifeInv, ServerType, HeapType, Idle, Runs
<1>20. ASSUME Stop PROVE TokenInv'
  BY <1>20 DEF Stop, TokenInv, LifeInv, ServerType, HeapType, Idle, Runs
<1>21. ASSUME LSpawn PROVE TokenInv'
  BY <1>21 DEF LSpawn, TokenInv, LifeInv, ServerType, HeapType, Runs
<1>22. ASSUME LExit PROVE TokenInv'
  BY <1>22 DEF LExit, TokenInv, LifeInv, ServerType, HeapType, Runs
<1>23. ASSUME NEW s \in Socks, Close(s) PROVE TokenInv'
  BY <1>23 DEF Close, TokenInv, LifeInv, ServerType, HeapType, Runs
<1>24. ASSUME NEW s \in Socks, Tell(s) PROVE TokenInv'
  BY <1>24 DEF Tell, TokenInv, LifeInv, ServerType, HeapType, Runs
<1>25. ASSUME Up /\ SAccept PROVE TokenInv'
  BY <1>25 DEF SAccept, TokenInv, LifeInv, ServerType, HeapType, Arrived, Take, Back, Up
<1>26. ASSUME Up /\ SHeader PROVE TokenInv'
  BY <1>26 DEF SHeader, TokenInv, LifeInv, ServerType, HeapType, Arrived, Take, Back, Up
<1>27. ASSUME Up /\ SHeaderFails PROVE TokenInv'
  BY <1>27 DEF SHeaderFails, TokenInv, LifeInv, ServerType, HeapType, Gone, Signal,
     Undefined, Up
<1>28. ASSUME Up /\ SData PROVE TokenInv'
  BY <1>28 DEF SData, TokenInv, LifeInv, ServerType, HeapType, Arrived, Take, Chunked, Up
<1>29. ASSUME Up /\ SDataFails PROVE TokenInv'
  BY <1>29 DEF SDataFails, TokenInv, LifeInv, ServerType, HeapType, Gone, Signal,
     Undefined, Chunked, Up
<1>30. ASSUME Up /\ SSave PROVE TokenInv'
  BY <1>30 DEF SSave, TokenInv, LifeInv, ServerType, HeapType, Name, Up
<1>31. ASSUME Up /\ SPush PROVE TokenInv'
  BY <1>31 DEF SPush, TokenInv, LifeInv, ServerType, HeapType, Undefined, Name, Up
<1>32. ASSUME Up /\ SPost PROVE TokenInv'
  BY <1>32 DEF SPost, TokenInv, LifeInv, ServerType, HeapType, Undefined, Up
<1>33. ASSUME Up /\ RAccept PROVE TokenInv'
  BY <1>33 DEF RAccept, TokenInv, LifeInv, ServerType, HeapType, Arrived, Take, Back, Up
<1>34. ASSUME Up /\ RLeave PROVE TokenInv'
  BY <1>34 DEF RLeave, TokenInv, LifeInv, ServerType, HeapType, Up
<1>35. ASSUME Up /\ RMatch PROVE TokenInv'
  BY <1>35 DEF RMatch, TokenInv, LifeInv, ServerType, HeapType, Up
<1>36. ASSUME Up /\ RDead PROVE TokenInv'
  BY <1>36 DEF RDead, TokenInv, LifeInv, ServerType, HeapType, Up
<1>37. ASSUME Up /\ ChildMatch PROVE TokenInv'
  BY <1>37 DEF ChildMatch, TokenInv, LifeInv, ServerType, HeapType, Up
<1>38. ASSUME Up /\ ChildSend PROVE TokenInv'
  BY <1>38 DEF ChildSend, TokenInv, LifeInv, ServerType, HeapType, Back, Up
<1>39. ASSUME NEW s \in Socks, Up /\ NoLogin(s) PROVE TokenInv'
  BY <1>39 DEF NoLogin, TokenInv, LifeInv, ServerType, HeapType, Gone, Up
<1> QED BY <1>1, <1>2, <1>3, <1>4, <1>5, <1>6, <1>7, <1>8, <1>9, <1>10, <1>11, <1>12,
           <1>13, <1>14, <1>15, <1>16, <1>17, <1>18, <1>19, <1>20, <1>21, <1>22, <1>23,
           <1>24, <1>25, <1>26, <1>27, <1>28, <1>29, <1>30, <1>31, <1>32, <1>33, <1>34,
           <1>35, <1>36, <1>37, <1>38, <1>39, NextSteps

(* What is left to send. *)
LEMMA RemainStep ==
  ASSUME CallerType, ClientType, CallerInv, RemainInv, Next
  PROVE  RemainInv'
<1> USE DEF caller, sems, cthreads, ends, cvars, net, transmit, heap, matching, svars
<1>1. ASSUME TConnect PROVE RemainInv'
  BY <1>1 DEF TConnect, RemainInv, WholeChunks, Connect, Runs
<1>2. ASSUME TLogin PROVE RemainInv'
  BY <1>2 DEF TLogin, RemainInv, WholeChunks, Heard, Hear, Runs
<1>3. ASSUME TAcquire PROVE RemainInv'
  BY <1>3 DEF TAcquire, RemainInv, WholeChunks, Runs
<1>4. ASSUME THeader PROVE RemainInv'
  <2>1. java => imgSize \in Sizes
    BY <1>4, FramesAssumption DEF THeader, CallerInv, InFrame, CallerType, ClientType
  <2>2. PICK n \in IF java THEN {imgSize} ELSE Sizes : remain' = n /\ sizes' = sizes \cup {n}
    BY <1>4 DEF THeader
  <2>3. n \in Sizes /\ n \in Nat /\ n > 0
    BY <2>1, <2>2, SizesAssumption DEF CallerType
  <2>4. tpc' = "ok" /\ java' = java
    BY <1>4 DEF THeader
  <2>5. java /\ ~WholeChunks' => \A d \in Nat : n # Chunk * d
    BY <2>2, <2>3, <2>4, NotWhole DEF WholeChunks
  <2> QED BY <2>2, <2>3, <2>4, <2>5 DEF RemainInv
<1>5. ASSUME TOk PROVE RemainInv'
  BY <1>5 DEF TOk, RemainInv, WholeChunks, Heard, Hear, Runs
<1>6. ASSUME JChunk PROVE RemainInv'
  <2>1. java /\ tpc = "chunks" /\ java' = java /\ WholeChunks' = WholeChunks
    BY <1>6 DEF JChunk, WholeChunks
  <2>2. CASE remain >= Chunk
    <3>1. remain' = remain - Chunk /\ tpc' = "chunks"
      BY <1>6, <2>2 DEF JChunk
    <3>2. ~WholeChunks => remain' > 0 /\ \A d \in Nat : remain' # Chunk * d
      <4>1. ASSUME ~WholeChunks PROVE remain \in Nat /\ \A d \in Nat : remain # Chunk * d
        BY <2>1, <4>1 DEF RemainInv, ClientType
      <4> QED BY <2>2, <3>1, <4>1, NotWholeLess
    <3> QED BY <2>1, <3>1, <3>2 DEF RemainInv
  <2>3. CASE ~(remain >= Chunk)
    <3>1. tpc' = "release"
      BY <1>6, <2>3 DEF JChunk
    <3> QED BY <3>1 DEF RemainInv
  <2> QED BY <2>2, <2>3
<1>7. ASSUME LChunk PROVE RemainInv'
  BY <1>7 DEF LChunk, RemainInv, WholeChunks, Put, Data, Runs
<1>8. ASSUME LUnlock PROVE RemainInv'
  BY <1>8 DEF LUnlock, RemainInv, WholeChunks, Runs
<1>9. ASSUME TRelease PROVE RemainInv'
  BY <1>9 DEF TRelease, RemainInv, WholeChunks, Runs
<1>10. ASSUME RConnect PROVE RemainInv'
  BY <1>10 DEF RConnect, RemainInv, WholeChunks, Connect, Runs
<1>11. ASSUME RLogin PROVE RemainInv'
  BY <1>11 DEF RLogin, RemainInv, WholeChunks, Heard, Hear, Runs
<1>12. ASSUME ROffer PROVE RemainInv'
  BY <1>12 DEF ROffer, RemainInv, WholeChunks, Heard, Hear, Runs
<1>13. ASSUME RRelease PROVE RemainInv'
  BY <1>13 DEF RRelease, RemainInv, WholeChunks, Runs
<1>14. ASSUME ExitOnError PROVE RemainInv'
  BY <1>14 DEF ExitOnError, RemainInv, WholeChunks, Runs
<1>15. ASSUME SendImageReturns PROVE RemainInv'
  BY <1>15 DEF SendImageReturns, RemainInv, WholeChunks, Runs
<1>16. ASSUME GetResultReturns PROVE RemainInv'
  BY <1>16 DEF GetResultReturns, RemainInv, WholeChunks, Runs
<1>17. ASSUME Exit PROVE RemainInv'
  BY <1>17 DEF Exit, RemainInv, WholeChunks, Runs
<1>18. ASSUME SendImage PROVE RemainInv'
  BY <1>18 DEF SendImage, RemainInv, WholeChunks, Idle, Runs
<1>19. ASSUME GetResult PROVE RemainInv'
  BY <1>19 DEF GetResult, RemainInv, WholeChunks, Idle, Runs
<1>20. ASSUME Stop PROVE RemainInv'
  BY <1>20 DEF Stop, RemainInv, WholeChunks, Idle, Runs
<1>21. ASSUME LSpawn PROVE RemainInv'
  BY <1>21 DEF LSpawn, RemainInv, WholeChunks, Runs
<1>22. ASSUME LExit PROVE RemainInv'
  BY <1>22 DEF LExit, RemainInv, WholeChunks, Runs
<1>23. ASSUME NEW s \in Socks, Close(s) PROVE RemainInv'
  BY <1>23 DEF Close, RemainInv, WholeChunks, Runs
<1>24. ASSUME NEW s \in Socks, Tell(s) PROVE RemainInv'
  BY <1>24 DEF Tell, RemainInv, WholeChunks, Runs
<1>25. ASSUME Up /\ SAccept PROVE RemainInv'
  BY <1>25 DEF SAccept, RemainInv, WholeChunks, Arrived, Take, Back, Up
<1>26. ASSUME Up /\ SHeader PROVE RemainInv'
  BY <1>26 DEF SHeader, RemainInv, WholeChunks, Arrived, Take, Back, Up
<1>27. ASSUME Up /\ SHeaderFails PROVE RemainInv'
  BY <1>27 DEF SHeaderFails, RemainInv, WholeChunks, Gone, Signal, Undefined, Up
<1>28. ASSUME Up /\ SData PROVE RemainInv'
  BY <1>28 DEF SData, RemainInv, WholeChunks, Arrived, Take, Chunked, Up
<1>29. ASSUME Up /\ SDataFails PROVE RemainInv'
  BY <1>29 DEF SDataFails, RemainInv, WholeChunks, Gone, Signal, Undefined, Chunked, Up
<1>30. ASSUME Up /\ SSave PROVE RemainInv'
  BY <1>30 DEF SSave, RemainInv, WholeChunks, Name, Up
<1>31. ASSUME Up /\ SPush PROVE RemainInv'
  BY <1>31 DEF SPush, RemainInv, WholeChunks, Undefined, Name, Up
<1>32. ASSUME Up /\ SPost PROVE RemainInv'
  BY <1>32 DEF SPost, RemainInv, WholeChunks, Undefined, Up
<1>33. ASSUME Up /\ RAccept PROVE RemainInv'
  BY <1>33 DEF RAccept, RemainInv, WholeChunks, Arrived, Take, Back, Up
<1>34. ASSUME Up /\ RLeave PROVE RemainInv'
  BY <1>34 DEF RLeave, RemainInv, WholeChunks, Up
<1>35. ASSUME Up /\ RMatch PROVE RemainInv'
  BY <1>35 DEF RMatch, RemainInv, WholeChunks, Up
<1>36. ASSUME Up /\ RDead PROVE RemainInv'
  BY <1>36 DEF RDead, RemainInv, WholeChunks, Up
<1>37. ASSUME Up /\ ChildMatch PROVE RemainInv'
  BY <1>37 DEF ChildMatch, RemainInv, WholeChunks, Up
<1>38. ASSUME Up /\ ChildSend PROVE RemainInv'
  BY <1>38 DEF ChildSend, RemainInv, WholeChunks, Back, Up
<1>39. ASSUME NEW s \in Socks, Up /\ NoLogin(s) PROVE RemainInv'
  BY <1>39 DEF NoLogin, RemainInv, WholeChunks, Gone, Up
<1> QED BY <1>1, <1>2, <1>3, <1>4, <1>5, <1>6, <1>7, <1>8, <1>9, <1>10, <1>11, <1>12,
           <1>13, <1>14, <1>15, <1>16, <1>17, <1>18, <1>19, <1>20, <1>21, <1>22, <1>23,
           <1>24, <1>25, <1>26, <1>27, <1>28, <1>29, <1>30, <1>31, <1>32, <1>33, <1>34,
           <1>35, <1>36, <1>37, <1>38, <1>39, NextSteps

(* A header that waits. *)
LEMMA HeaderStep ==
  ASSUME CallerType, ClientType, SocketType, CallerInv, SocketInv, StartInv, LifeInv,
         HeaderInv, StepInv, WireInv, Next
  PROVE  HeaderInv'
<1> USE DEF caller, sems, cthreads, ends, cvars, net, transmit, heap, matching, svars
<1>1. ASSUME TConnect PROVE HeaderInv'
  <2>1. Wire' = <<Login>>
    BY <1>1 DEF TConnect, Connect, Wire, SocketType, Socks
  <2> QED BY <2>1 DEF HeaderInv, Login
<1>2. ASSUME TLogin PROVE HeaderInv'
  BY <1>2 DEF TLogin, HeaderInv, Wire, WholeChunks, Heard, Hear, Runs
<1>3. ASSUME TAcquire PROVE HeaderInv'
  BY <1>3 DEF TAcquire, HeaderInv, Wire, WholeChunks, Runs
<1>4. ASSUME THeader PROVE HeaderInv'
  <2>1. PICK n \in Sizes \cup {0} : /\ Put("transmit", Header(begun + 1, n)) /\ remain' = n
                                    /\ sizes' = sizes \cup {n}
                                    /\ (~java => n \in Sizes) /\ (java => n = imgSize)
    BY <1>4 DEF THeader, CallerType
  <2>2. /\ tpc = "header" /\ tpc' = "ok" /\ begun' = begun + 1 /\ statusMap["transmit"] = "open"
        /\ UNCHANGED <<java, to_client, open>>
    BY <1>4 DEF THeader
  <2>3. begun + 1 \in 0 .. MaxFrames /\ n \in Sizes
    BY <2>1, <2>2, FramesAssumption DEF CallerInv, InFrame, CallerType, ClientType
  <2>4. ASSUME ~WholeChunks' PROVE ~WholeChunks
    BY <2>1, <2>2, <2>4 DEF WholeChunks
  <2>5. ASSUME ~WholeChunks, NEW i \in 1 .. Len(Wire) PROVE Wire[i].kind # "header"
    BY <2>2, <2>5 DEF HeaderInv
  <2>6. Header(begun + 1, n) \in Messages /\ Header(begun + 1, n).size = n
        /\ Header(begun + 1, n).frame = begun + 1
    BY <2>3 DEF Header, Messages
  <2>7. CASE open["transmit"] = "open"
    <3>1. spc # "none"
      BY <2>2 DEF StartInv
    <3>2. ASSUME ~WholeChunks PROVE to_client["transmit"] = <<>>
      BY <2>2, <2>7, <3>1, <3>2 DEF StepInv
    <3>3. /\ Len(Wire) \in Nat /\ Len(Wire') = Len(Wire) + 1
          /\ Wire'[Len(Wire) + 1] = Header(begun + 1, n)
          /\ \A i \in 1 .. Len(Wire) : Wire'[i] = Wire[i]
      BY <2>1, <2>2, <2>6, <2>7, Putting, WireMessages
    <3>4. ASSUME ~WholeChunks', NEW i \in 1 .. Len(Wire'), Wire'[i].kind = "header"
          PROVE  i = Len(Wire')
      BY <2>4, <2>5, <3>3, <3>4
    <3>5. ASSUME ~WholeChunks', NEW i \in 1 .. Len(Wire'), Wire'[i].kind = "header"
          PROVE  /\ i = Len(Wire') /\ Wire'[i].frame = begun' /\ Wire'[i].size = remain'
                 /\ tpc' = "ok" /\ to_client'["transmit"] = <<>>
      BY <2>1, <2>2, <2>4, <2>6, <3>2, <3>3, <3>4, <3>5
    <3> QED BY <3>5 DEF HeaderInv
  <2>8. CASE open["transmit"] # "open"
    <3>1. Wire' = Wire
      BY <2>1, <2>6, <2>8, Putting
    <3> QED BY <2>4, <2>5, <3>1 DEF HeaderInv
  <2> QED BY <2>7, <2>8
<1>5. ASSUME TOk PROVE HeaderInv'
  BY <1>5 DEF TOk, HeaderInv, Wire, WholeChunks, Heard, Hear, Runs
<1>6. ASSUME JChunk PROVE HeaderInv'
  BY <1>6 DEF JChunk, HeaderInv, Wire, WholeChunks, Put, Data, Runs
<1>7. ASSUME LChunk PROVE HeaderInv'
  BY <1>7 DEF LChunk, HeaderInv, Wire, WholeChunks, Put, Data, Runs
<1>8. ASSUME LUnlock PROVE HeaderInv'
  BY <1>8 DEF LUnlock, HeaderInv, Wire, WholeChunks, Runs
<1>9. ASSUME TRelease PROVE HeaderInv'
  BY <1>9 DEF TRelease, HeaderInv, Wire, WholeChunks, Runs
<1>10. ASSUME RConnect PROVE HeaderInv'
  BY <1>10 DEF RConnect, HeaderInv, Wire, WholeChunks, Connect, Runs
<1>11. ASSUME RLogin PROVE HeaderInv'
  BY <1>11 DEF RLogin, HeaderInv, Wire, WholeChunks, Heard, Hear, Runs
<1>12. ASSUME ROffer PROVE HeaderInv'
  BY <1>12 DEF ROffer, HeaderInv, Wire, WholeChunks, Heard, Hear, Runs
<1>13. ASSUME RRelease PROVE HeaderInv'
  BY <1>13 DEF RRelease, HeaderInv, Wire, WholeChunks, Runs
<1>14. ASSUME ExitOnError PROVE HeaderInv'
  BY <1>14 DEF ExitOnError, HeaderInv, Wire, WholeChunks, Runs
<1>15. ASSUME SendImageReturns PROVE HeaderInv'
  BY <1>15 DEF SendImageReturns, HeaderInv, Wire, WholeChunks, Runs
<1>16. ASSUME GetResultReturns PROVE HeaderInv'
  BY <1>16 DEF GetResultReturns, HeaderInv, Wire, WholeChunks, Runs
<1>17. ASSUME Exit PROVE HeaderInv'
  BY <1>17 DEF Exit, HeaderInv, Wire, WholeChunks, Runs
<1>18. ASSUME SendImage PROVE HeaderInv'
  BY <1>18 DEF SendImage, HeaderInv, Wire, WholeChunks, Idle, Runs
<1>19. ASSUME GetResult PROVE HeaderInv'
  BY <1>19 DEF GetResult, HeaderInv, Wire, WholeChunks, Idle, Runs
<1>20. ASSUME Stop PROVE HeaderInv'
  BY <1>20 DEF Stop, HeaderInv, Wire, WholeChunks, Idle, Runs
<1>21. ASSUME LSpawn PROVE HeaderInv'
  BY <1>21 DEF LSpawn, HeaderInv, Wire, WholeChunks, Runs
<1>22. ASSUME LExit PROVE HeaderInv'
  BY <1>22 DEF LExit, HeaderInv, Wire, WholeChunks, Runs
<1>23. ASSUME NEW s \in Socks, Close(s) PROVE HeaderInv'
  BY <1>23 DEF Close, HeaderInv, Wire, WholeChunks, Runs
<1>24. ASSUME NEW s \in Socks, Tell(s) PROVE HeaderInv'
  BY <1>24 DEF Tell, HeaderInv, Wire, WholeChunks, Runs
<1>25. ASSUME Up /\ SAccept PROVE HeaderInv'
  <2>1. Arrived("transmit") /\ Take("transmit") /\ spc = "none"
    BY <1>25 DEF SAccept
  <2>2. Wire = <<Login>>
    BY <2>1, Taking DEF StartInv
  <2>3. Wire' = <<>>
    BY <2>1, <2>2, Taking
  <2> QED BY <2>3 DEF HeaderInv
<1>26. ASSUME Up /\ SHeader PROVE HeaderInv'
  <2>1. Arrived("transmit") /\ Take("transmit") /\ spc = "header" /\ WholeChunks' = WholeChunks
    BY <1>26 DEF SHeader, WholeChunks
  <2>2. ASSUME ~WholeChunks PROVE Wire' = <<>>
    <3>1. \A i \in 1 .. Len(Wire) : Wire[i].kind = "header" /\ i = Len(Wire)
      BY <2>1, <2>2, Taking DEF WireInv, HeaderInv
    <3>2. Len(Wire) = 1
      BY <2>1, <3>1, Taking
    <3> QED BY <2>1, <3>2, Taking, WireMessages, HeadFacts
  <2> QED BY <2>1, <2>2 DEF HeaderInv
<1>27. ASSUME Up /\ SHeaderFails PROVE HeaderInv'
  BY <1>27 DEF SHeaderFails, HeaderInv, Wire, WholeChunks, Gone, Signal, Undefined, Up
<1>28. ASSUME Up /\ SData PROVE HeaderInv'
  BY <1>28 DEF SData, HeaderInv, Wire, WholeChunks, Arrived, Take, Chunked, Up
<1>29. ASSUME Up /\ SDataFails PROVE HeaderInv'
  BY <1>29 DEF SDataFails, HeaderInv, Wire, WholeChunks, Gone, Signal, Undefined, Chunked,
     Up
<1>30. ASSUME Up /\ SSave PROVE HeaderInv'
  BY <1>30 DEF SSave, HeaderInv, Wire, WholeChunks, Name, Up
<1>31. ASSUME Up /\ SPush PROVE HeaderInv'
  BY <1>31 DEF SPush, HeaderInv, Wire, WholeChunks, Undefined, Name, Up
<1>32. ASSUME Up /\ SPost PROVE HeaderInv'
  BY <1>32 DEF SPost, HeaderInv, Wire, WholeChunks, Undefined, Up
<1>33. ASSUME Up /\ RAccept PROVE HeaderInv'
  BY <1>33 DEF RAccept, HeaderInv, Wire, WholeChunks, Arrived, Take, Back, Up
<1>34. ASSUME Up /\ RLeave PROVE HeaderInv'
  BY <1>34 DEF RLeave, HeaderInv, Wire, WholeChunks, Up
<1>35. ASSUME Up /\ RMatch PROVE HeaderInv'
  BY <1>35 DEF RMatch, HeaderInv, Wire, WholeChunks, Up
<1>36. ASSUME Up /\ RDead PROVE HeaderInv'
  BY <1>36 DEF RDead, HeaderInv, Wire, WholeChunks, Up
<1>37. ASSUME Up /\ ChildMatch PROVE HeaderInv'
  BY <1>37 DEF ChildMatch, HeaderInv, Wire, WholeChunks, Up
<1>38. ASSUME Up /\ ChildSend PROVE HeaderInv'
  BY <1>38 DEF ChildSend, HeaderInv, Wire, WholeChunks, Back, Up
<1>39. ASSUME NEW s \in Socks, Up /\ NoLogin(s) PROVE HeaderInv'
  BY <1>39 DEF NoLogin, HeaderInv, Wire, WholeChunks, Gone, Up
<1> QED BY <1>1, <1>2, <1>3, <1>4, <1>5, <1>6, <1>7, <1>8, <1>9, <1>10, <1>11, <1>12,
           <1>13, <1>14, <1>15, <1>16, <1>17, <1>18, <1>19, <1>20, <1>21, <1>22, <1>23,
           <1>24, <1>25, <1>26, <1>27, <1>28, <1>29, <1>30, <1>31, <1>32, <1>33, <1>34,
           <1>35, <1>36, <1>37, <1>38, <1>39, NextSteps

(* One question, one answer. *)
LEMMA StepStep ==
  ASSUME CallerType, ClientType, SocketType, CallerInv, SocketInv, StartInv, LifeInv,
         HeaderInv, StepInv, WireInv, Next
  PROVE  StepInv'
<1> USE DEF caller, sems, cthreads, ends, cvars, net, transmit, heap, matching, svars
<1>1. ASSUME TConnect PROVE StepInv'
  <2>1. spc = "none" /\ spc' = spc
    BY <1>1 DEF TConnect, Connect, StartInv
  <2> QED BY <2>1 DEF StepInv
<1>2. ASSUME TLogin PROVE StepInv'
  <2>1. /\ tpc = "login" /\ tpc' \in {"ended", "wait"} /\ to_client["transmit"] # <<>>
        /\ to_client'["transmit"] = Tail(to_client["transmit"])
        /\ UNCHANGED <<java, sizes, open, to_server, spc>>
    BY <1>2 DEF TLogin, Heard, Hear, SocketType, Socks
  <2>2. to_client["transmit"] \in Seq(Names \cup {Ok})
    BY WireMessages
  <2>3. Len(to_client["transmit"]) <= 1 => to_client'["transmit"] = <<>>
    BY <2>1, <2>2, HeadFacts
  <2>4. WholeChunks' = WholeChunks
    BY <2>1 DEF WholeChunks
  <2> QED BY <2>1, <2>3, <2>4 DEF StepInv
<1>3. ASSUME TAcquire PROVE StepInv'
  BY <1>3 DEF TAcquire, StepInv, Wire, HeaderLast, WholeChunks, Runs
<1>4. ASSUME THeader PROVE StepInv'
  <2>1. PICK n \in Sizes \cup {0} : /\ Put("transmit", Header(begun + 1, n))
                                    /\ sizes' = sizes \cup {n}
                                    /\ (~java => n \in Sizes) /\ (java => n = imgSize)
    BY <1>4 DEF THeader, CallerType
  <2>2. /\ tpc = "header" /\ tpc' = "ok" /\ statusMap["transmit"] = "open"
        /\ UNCHANGED <<java, to_client, open, spc>>
    BY <1>4 DEF THeader
  <2>3. begun + 1 \in 0 .. MaxFrames /\ n \in Sizes
    BY <2>1, <2>2, FramesAssumption DEF CallerInv, InFrame, CallerType, ClientType
  <2>4. ASSUME ~WholeChunks' PROVE ~WholeChunks
    BY <2>1, <2>2, <2>4 DEF WholeChunks
  <2>5. Header(begun + 1, n) \in Messages /\ Header(begun + 1, n).kind = "header"
    BY <2>3 DEF Header, Messages
  <2>6. open["transmit"] = "open" => HeaderLast'
    BY <2>1, <2>2, <2>5, Putting, WireMessages DEF HeaderLast
  <2>7. ASSUME ~WholeChunks', open["transmit"] = "open", spc # "none"
        PROVE  to_client["transmit"] = <<>>
    BY <2>2, <2>4, <2>7 DEF StepInv
  <2> QED BY <2>2, <2>6, <2>7 DEF StepInv
<1>5. ASSUME TOk PROVE StepInv'
  <2>1. /\ tpc = "ok" /\ tpc' = "chunks" /\ to_client["transmit"] # <<>>
        /\ to_client'["transmit"] = Tail(to_client["transmit"])
        /\ UNCHANGED <<java, sizes, open, to_server, spc>>
    BY <1>5 DEF TOk, Heard, Hear, SocketType, Socks
  <2>2. to_client["transmit"] \in Seq(Names \cup {Ok})
    BY WireMessages
  <2>3. Len(to_client["transmit"]) <= 1 => to_client'["transmit"] = <<>>
    BY <2>1, <2>2, HeadFacts
  <2>4. WholeChunks' = WholeChunks
    BY <2>1 DEF WholeChunks
  <2> QED BY <2>1, <2>3, <2>4 DEF StepInv
<1>6. ASSUME JChunk PROVE StepInv'
  BY <1>6 DEF JChunk, StepInv, Wire, HeaderLast, WholeChunks, Put, Data, Runs
<1>7. ASSUME LChunk PROVE StepInv'
  BY <1>7 DEF LChunk, StepInv, Wire, HeaderLast, WholeChunks, Put, Data, Runs
<1>8. ASSUME LUnlock PROVE StepInv'
  BY <1>8 DEF LUnlock, StepInv, Wire, HeaderLast, WholeChunks, Runs
<1>9. ASSUME TRelease PROVE StepInv'
  BY <1>9 DEF TRelease, StepInv, Wire, HeaderLast, WholeChunks, Runs
<1>10. ASSUME RConnect PROVE StepInv'
  BY <1>10 DEF RConnect, StepInv, Wire, HeaderLast, WholeChunks, Connect, Runs
<1>11. ASSUME RLogin PROVE StepInv'
  BY <1>11 DEF RLogin, StepInv, Wire, HeaderLast, WholeChunks, Heard, Hear, Runs
<1>12. ASSUME ROffer PROVE StepInv'
  BY <1>12 DEF ROffer, StepInv, Wire, HeaderLast, WholeChunks, Heard, Hear, Runs
<1>13. ASSUME RRelease PROVE StepInv'
  BY <1>13 DEF RRelease, StepInv, Wire, HeaderLast, WholeChunks, Runs
<1>14. ASSUME ExitOnError PROVE StepInv'
  BY <1>14 DEF ExitOnError, StepInv, Wire, HeaderLast, WholeChunks, Runs
<1>15. ASSUME SendImageReturns PROVE StepInv'
  BY <1>15 DEF SendImageReturns, StepInv, Wire, HeaderLast, WholeChunks, Runs
<1>16. ASSUME GetResultReturns PROVE StepInv'
  BY <1>16 DEF GetResultReturns, StepInv, Wire, HeaderLast, WholeChunks, Runs
<1>17. ASSUME Exit PROVE StepInv'
  BY <1>17 DEF Exit, StepInv, Wire, HeaderLast, WholeChunks, Runs
<1>18. ASSUME SendImage PROVE StepInv'
  BY <1>18 DEF SendImage, StepInv, Wire, HeaderLast, WholeChunks, Idle, Runs
<1>19. ASSUME GetResult PROVE StepInv'
  BY <1>19 DEF GetResult, StepInv, Wire, HeaderLast, WholeChunks, Idle, Runs
<1>20. ASSUME Stop PROVE StepInv'
  BY <1>20 DEF Stop, StepInv, Wire, HeaderLast, WholeChunks, Idle, Runs
<1>21. ASSUME LSpawn PROVE StepInv'
  BY <1>21 DEF LSpawn, StepInv, Wire, HeaderLast, WholeChunks, Runs
<1>22. ASSUME LExit PROVE StepInv'
  BY <1>22 DEF LExit, StepInv, Wire, HeaderLast, WholeChunks, Runs
<1>23. ASSUME NEW s \in Socks, Close(s) PROVE StepInv'
  BY <1>23 DEF Close, StepInv, Wire, HeaderLast, WholeChunks, Runs
<1>24. ASSUME NEW s \in Socks, Tell(s) PROVE StepInv'
  <2>1. /\ s \in telling /\ open' = [open EXCEPT ![s] = "closed"]
        /\ to_server' = [to_server EXCEPT ![s] = <<>>]
        /\ UNCHANGED <<java, sizes, tpc, to_client, spc>>
    BY <1>24 DEF Tell
  <2>2. WholeChunks' = WholeChunks
    BY <2>1 DEF WholeChunks
  <2>3. CASE s = "transmit"
    <3>1. open'["transmit"] = "closed"
      BY <2>1, <2>3 DEF SocketType
    <3> QED BY <3>1 DEF StepInv
  <2>4. CASE s # "transmit"
    <3>1. Wire' = Wire /\ open'["transmit"] = open["transmit"]
      BY <2>1, <2>4 DEF Wire, SocketType, Socks
    <3>2. HeaderLast' = HeaderLast
      BY <3>1 DEF HeaderLast
    <3> QED BY <2>1, <2>2, <3>1, <3>2 DEF StepInv
  <2> QED BY <2>3, <2>4
<1>25. ASSUME Up /\ SAccept PROVE StepInv'
  <2>1. Arrived("transmit") /\ Take("transmit") /\ spc = "none" /\ spc' = "header"
        /\ Back("transmit", Ok) /\ UNCHANGED <<tpc>>
    BY <1>25 DEF SAccept
  <2>2. Wire = <<Login>> /\ tpc = "login" /\ to_client["transmit"] = <<>>
    BY <2>1, Taking DEF StartInv, SocketInv, Socks
  <2>3. Wire' = <<>>
    BY <2>1, <2>2, Taking
  <2>4. Len(to_client'["transmit"]) = 1
    BY <2>1, <2>2, Answering, Taking
  <2> QED BY <2>1, <2>2, <2>3, <2>4 DEF StepInv
<1>26. ASSUME Up /\ SHeader PROVE StepInv'
  <2>1. Arrived("transmit") /\ Take("transmit") /\ spc = "header" /\ spc' = "data"
        /\ Back("transmit", Ok) /\ UNCHANGED <<tpc, open>> /\ WholeChunks' = WholeChunks
    BY <1>26 DEF SHeader, WholeChunks
  <2>2. ASSUME ~WholeChunks PROVE Wire' = <<>> /\ tpc = "ok" /\ to_client["transmit"] = <<>>
    <3>1. \A i \in 1 .. Len(Wire) : Wire[i].kind = "header"
      BY <2>1, <2>2, Taking DEF WireInv
    <3>2. \A i \in 1 .. Len(Wire) : i = Len(Wire) /\ tpc = "ok" /\ to_client["transmit"] = <<>>
      BY <2>2, <3>1 DEF HeaderInv
    <3>3. Len(Wire) \in Nat /\ Len(Wire) >= 1 /\ 1 \in 1 .. Len(Wire)
      BY <2>1, Taking
    <3>4. Len(Wire) = 1 /\ tpc = "ok" /\ to_client["transmit"] = <<>>
      BY <3>2, <3>3
    <3>5. Wire' = <<>>
      BY <2>1, <3>4, Taking, WireMessages, HeadFacts
    <3> QED BY <3>4, <3>5
  <2>3. to_client["transmit"] = <<>> => Len(to_client'["transmit"]) = 1
    <3>1. open["transmit"] = "open"
      BY <2>1, Taking
    <3>2. to_client'["transmit"] = Append(to_client["transmit"], Ok)
      BY <2>1, <3>1, Answering
    <3> QED BY <3>2
  <2>4. ASSUME ~WholeChunks PROVE ~HeaderLast'
    BY <2>2, <2>4 DEF HeaderLast
  <2>5. ASSUME ~WholeChunks PROVE Len(to_client'["transmit"]) <= 1
    <3>1. to_client["transmit"] = <<>>
      BY <2>2, <2>5
    <3>2. Len(to_client'["transmit"]) = 1
      BY <2>3, <3>1
    <3> QED BY <3>2
  <2> QED BY <2>1, <2>2, <2>4, <2>5 DEF StepInv
<1>27. ASSUME Up /\ SHeaderFails PROVE StepInv'
  BY <1>27 DEF SHeaderFails, StepInv, Wire, HeaderLast, WholeChunks, Gone, Signal,
     Undefined, Up
<1>28. ASSUME Up /\ SData PROVE StepInv'
  <2>1. Arrived("transmit") /\ Take("transmit") /\ spc = "data" /\ spc' # "none"
        /\ UNCHANGED <<tpc, open, to_client>> /\ WholeChunks' = WholeChunks
    BY <1>28 DEF SData, Chunked, WholeChunks
  <2>2. ASSUME ~WholeChunks, tpc = "ok" PROVE HeaderLast'
    <3>1. HeaderLast /\ Wire # <<>>
      BY <2>1, <2>2, Taking DEF StepInv
    <3>2. Len(Wire) >= 2
      BY <2>1, <2>2, <3>1, Taking DEF WireInv, Sending, Complete, DataCount
    <3> QED BY <2>1, <3>1, <3>2, Taking DEF HeaderLast
  <2>3. ~WholeChunks => tpc # "login"
    BY <2>1, Taking DEF StepInv
  <2> QED BY <2>1, <2>2, <2>3 DEF StepInv
<1>29. ASSUME Up /\ SDataFails PROVE StepInv'
  BY <1>29 DEF SDataFails, StepInv, Wire, HeaderLast, WholeChunks, Gone, Signal,
     Undefined, Chunked, Up
<1>30. ASSUME Up /\ SSave PROVE StepInv'
  BY <1>30 DEF SSave, StepInv, Wire, HeaderLast, WholeChunks, Name, Up
<1>31. ASSUME Up /\ SPush PROVE StepInv'
  BY <1>31 DEF SPush, StepInv, Wire, HeaderLast, WholeChunks, Undefined, Name, Up
<1>32. ASSUME Up /\ SPost PROVE StepInv'
  BY <1>32 DEF SPost, StepInv, Wire, HeaderLast, WholeChunks, Undefined, Up
<1>33. ASSUME Up /\ RAccept PROVE StepInv'
  BY <1>33 DEF RAccept, StepInv, Wire, HeaderLast, WholeChunks, Arrived, Take, Back, Up
<1>34. ASSUME Up /\ RLeave PROVE StepInv'
  BY <1>34 DEF RLeave, StepInv, Wire, HeaderLast, WholeChunks, Up
<1>35. ASSUME Up /\ RMatch PROVE StepInv'
  BY <1>35 DEF RMatch, StepInv, Wire, HeaderLast, WholeChunks, Up
<1>36. ASSUME Up /\ RDead PROVE StepInv'
  BY <1>36 DEF RDead, StepInv, Wire, HeaderLast, WholeChunks, Up
<1>37. ASSUME Up /\ ChildMatch PROVE StepInv'
  BY <1>37 DEF ChildMatch, StepInv, Wire, HeaderLast, WholeChunks, Up
<1>38. ASSUME Up /\ ChildSend PROVE StepInv'
  BY <1>38 DEF ChildSend, StepInv, Wire, HeaderLast, WholeChunks, Back, Up
<1>39. ASSUME NEW s \in Socks, Up /\ NoLogin(s) PROVE StepInv'
  BY <1>39 DEF NoLogin, StepInv, Wire, HeaderLast, WholeChunks, Gone, Up
<1> QED BY <1>1, <1>2, <1>3, <1>4, <1>5, <1>6, <1>7, <1>8, <1>9, <1>10, <1>11, <1>12,
           <1>13, <1>14, <1>15, <1>16, <1>17, <1>18, <1>19, <1>20, <1>21, <1>22, <1>23,
           <1>24, <1>25, <1>26, <1>27, <1>28, <1>29, <1>30, <1>31, <1>32, <1>33, <1>34,
           <1>35, <1>36, <1>37, <1>38, <1>39, NextSteps

(* What waits is what the server has still to read. *)
LEMMA WireStep ==
  ASSUME CallerType, ClientType, SocketType, ServerType, CallerInv, SocketInv, StartInv,
         LifeInv, RemainInv, HeaderInv, StepInv, WireInv, Next
  PROVE  WireInv'
<1> USE DEF caller, sems, cthreads, ends, cvars, net, transmit, heap, matching, svars
<1>1. ASSUME TConnect PROVE WireInv'
  <2>1. spc = "none" /\ spc' = spc
    BY <1>1 DEF TConnect, Connect, StartInv
  <2> QED BY <2>1, SMTT(30) DEF WireInv
<1>2. ASSUME TLogin PROVE WireInv'
  BY <1>2 DEF TLogin, WireInv, Wire, HeaderLast, DataCount, Sending, Complete,
     WholeChunks, Heard, Hear, Runs
<1>3. ASSUME TAcquire PROVE WireInv'
  BY <1>3 DEF TAcquire, WireInv, Wire, HeaderLast, DataCount, Sending, Complete,
     WholeChunks, Runs
<1>4. ASSUME THeader PROVE WireInv'
  <2>1. PICK n \in Sizes \cup {0} : /\ Put("transmit", Header(begun + 1, n)) /\ remain' = n
                                    /\ sizes' = sizes \cup {n}
                                    /\ (~java => n \in Sizes) /\ (java => n = imgSize)
    BY <1>4 DEF THeader, CallerType
  <2>2. /\ tpc = "header" /\ tpc' = "ok" /\ statusMap["transmit"] = "open"
        /\ UNCHANGED <<java, open, spc, file_size, received_size>>
    BY <1>4 DEF THeader
  <2>3. begun + 1 \in 0 .. MaxFrames /\ n \in Sizes
    BY <2>1, <2>2, FramesAssumption DEF CallerInv, InFrame, CallerType, ClientType
  <2>4. Header(begun + 1, n) \in Messages /\ Header(begun + 1, n).kind = "header"
    BY <2>3 DEF Header, Messages
  <2>5. SUFFICES ASSUME ~WholeChunks', open["transmit"] = "open", spc # "none"
                 PROVE  WireInv'
    BY <2>2 DEF WireInv
  <2>6. ~WholeChunks
    BY <2>1, <2>2, <2>5 DEF WholeChunks
  <2>7. /\ Len(Wire) \in Nat /\ Len(Wire') = Len(Wire) + 1 /\ Wire' # <<>>
        /\ Wire'[Len(Wire) + 1].kind = "header"
        /\ \A i \in 1 .. Len(Wire) : Wire'[i] = Wire[i]
    BY <2>1, <2>2, <2>4, <2>5, Putting, WireMessages
  <2>8. \A i \in 1 .. Len(Wire) : Wire[i].kind # "header"
    BY <2>2, <2>6 DEF HeaderInv
  <2>9. ~HeaderLast /\ HeaderLast' /\ ~Sending /\ ~Sending'
    BY <2>2, <2>7, <2>8, WireMessages DEF HeaderLast, Sending
  <2>10. DataCount' = DataCount
    BY <2>7, <2>9 DEF DataCount
  <2>11. CASE spc = "data"
    <3>1. /\ file_size > received_size /\ Complete
          /\ \A i \in 1 .. Len(Wire) - 1 : Wire[i].kind = "data"
          /\ Wire # <<>> => Wire[Len(Wire)].kind # "login"
      BY <2>5, <2>6, <2>9, <2>11 DEF WireInv
    <3>2. \A i \in 1 .. Len(Wire) : Wire[i].kind \in {"login", "header", "data"}
      BY WireMessages DEF Messages
    <3>3. ASSUME NEW i \in 1 .. Len(Wire) PROVE Wire[i].kind = "data"
      <4>1. CASE i = Len(Wire)
        <5>1. Wire # <<>>
          BY <4>1, <2>7
        <5> QED BY <2>8, <3>1, <3>2, <4>1, <5>1
      <4>2. CASE i # Len(Wire)
        <5>1. i \in 1 .. Len(Wire) - 1
          BY <2>7, <4>2
        <5> QED BY <3>1, <5>1
      <4> QED BY <4>1, <4>2
    <3>4. Complete'
      BY <2>2, <2>10, <3>1 DEF Complete
    <3>5. \A i \in 1 .. Len(Wire') - 1 : Wire'[i].kind = "data"
      BY <2>7, <3>3
    <3>6. Wire'[Len(Wire')].kind # "login"
      BY <2>7
    <3> QED BY <2>2, <2>9, <2>11, <3>1, <3>4, <3>5, <3>6 DEF WireInv
  <2>12. CASE spc # "data"
    <3>1. \A i \in 1 .. Len(Wire) : Wire[i].kind = "header"
      BY <2>5, <2>6, <2>12 DEF WireInv
    <3>2. \A i \in 1 .. Len(Wire') : Wire'[i].kind = "header"
      BY <2>7, <3>1
    <3> QED BY <2>2, <2>12, <3>2 DEF WireInv
  <2> QED BY <2>11, <2>12
<1>5. ASSUME TOk PROVE WireInv'
  <2>1. /\ tpc = "ok" /\ tpc' = "chunks" /\ to_client["transmit"] # <<>>
        /\ UNCHANGED <<java, sizes, open, to_server, spc, remain, file_size, received_size>>
    BY <1>5 DEF TOk, Heard
  <2>2. SUFFICES ASSUME ~WholeChunks, open["transmit"] = "open", spc # "none"
                 PROVE  WireInv'
    BY <2>1 DEF WireInv, WholeChunks
  <2>3. Wire' = Wire /\ HeaderLast' = HeaderLast /\ DataCount' = DataCount /\ Complete' = Complete
    BY <2>1 DEF Wire, HeaderLast, DataCount, Complete
  <2>4. ~HeaderLast
    BY <2>1, <2>2, WireMessages DEF HeaderLast, HeaderInv
  <2>5. spc = "data"
    BY <2>1, <2>2, <2>4 DEF StepInv
  <2>6. Sending' <=> Sending
    BY <2>1, <2>3 DEF Sending
  <2> QED BY <2>1, <2>2, <2>3, <2>5, <2>6 DEF WireInv
<1>6. ASSUME JChunk PROVE WireInv'
  <2>1. PICK n \in 0 .. Chunk : Put("transmit", Data(begun, n))
    BY <1>6, ChunkAssumption DEF JChunk, ClientType
  <2>2. /\ tpc = "chunks" /\ UNCHANGED <<java, sizes, open, spc, file_size, received_size>>
    BY <1>6 DEF JChunk
  <2>3. begun \in 0 .. MaxFrames /\ user # "stopping"
    BY <1>6, FramesAssumption DEF JChunk, CallerInv, InFrame, CallerType, ClientType
  <2>4. Data(begun, n) \in Messages /\ Data(begun, n).kind = "data"
    BY <2>3 DEF Data, Messages
  <2>5. SUFFICES ASSUME ~WholeChunks, open["transmit"] = "open", spc # "none"
                 PROVE  WireInv'
    BY <2>2 DEF WireInv, WholeChunks
  <2>6. statusMap["transmit"] = "open"
    BY <2>3, <2>5 DEF SocketInv, SocketType, Socks
  <2>7. /\ Len(Wire) \in Nat /\ Len(Wire') = Len(Wire) + 1 /\ Wire' # <<>>
        /\ Wire'[Len(Wire) + 1].kind = "data"
        /\ \A i \in 1 .. Len(Wire) : Wire'[i] = Wire[i]
    BY <2>1, <2>4, <2>5, <2>6, Putting, WireMessages
  <2>8. remain \in Nat /\ remain > 0
    BY <1>6, <2>2, <2>5 DEF JChunk, RemainInv, ClientType
  <2>9. \A i \in 1 .. Len(Wire) : Wire[i].kind # "header"
    BY <2>2, <2>5 DEF HeaderInv
  <2>10. ~HeaderLast /\ ~HeaderLast'
    BY <2>7, <2>9, WireMessages DEF HeaderLast
  <2>11. DataCount = Len(Wire) /\ DataCount' = DataCount + 1
    BY <2>7, <2>10 DEF DataCount
  <2>12. spc = "data" /\ Sending
    BY <2>2, <2>5, <2>8, <2>10 DEF WireInv, Sending
  <2>13. /\ file_size > received_size /\ file_size - received_size = remain + Bytes[DataCount]
         /\ \A i \in 1 .. Len(Wire) - 1 : Wire[i].kind = "data"
         /\ Wire # <<>> => Wire[Len(Wire)].kind # "login"
    BY <2>5, <2>12 DEF WireInv
  <2>14. \A i \in 1 .. Len(Wire) : Wire[i].kind = "data"
    <3>1. \A i \in 1 .. Len(Wire) : Wire[i].kind \in {"login", "header", "data"}
      BY WireMessages DEF Messages
    <3>2. ASSUME NEW i \in 1 .. Len(Wire), i = Len(Wire) PROVE Wire[i].kind = "data"
      <4>1. Wire # <<>>
        BY <2>7, <3>2
      <4> QED BY <2>9, <2>13, <3>1, <3>2, <4>1
    <3>3. ASSUME NEW i \in 1 .. Len(Wire), i # Len(Wire) PROVE Wire[i].kind = "data"
      <4>1. i \in 1 .. Len(Wire) - 1
        BY <2>7, <3>3
      <4> QED BY <2>13, <4>1
    <3> QED BY <3>2, <3>3
  <2>15. \A i \in 1 .. Len(Wire') : Wire'[i].kind = "data"
    BY <2>7, <2>14
  <2>16. /\ Bytes[DataCount] \in Nat /\ Bytes[DataCount + 1] = Bytes[DataCount] + Chunk
         /\ Chunk \in Nat /\ Chunk >= 1 /\ DataCount \in Nat
    BY <2>7, <2>11, BytesFacts
  <2>17. CASE remain >= Chunk
    <3>1. remain' = remain - Chunk /\ tpc' = "chunks" /\ remain' > 0
      <4>0. java /\ tpc = "chunks"
        BY <1>6 DEF JChunk
      <4>1. remain \in Nat /\ \A d \in Nat : remain # Chunk * d
        BY <2>5, <2>8, <4>0 DEF RemainInv
      <4>2. remain - Chunk > 0
        BY <2>17, <4>1, NotWholeLess
      <4> QED BY <1>6, <2>17, <4>1, <4>2 DEF JChunk
    <3>2. Sending'
      BY <2>10, <3>1 DEF Sending
    <3>3. file_size' - received_size' = remain' + Bytes[DataCount']
      BY <2>2, <2>8, <2>11, <2>13, <2>16, <3>1
    <3> QED BY <2>2, <2>7, <2>12, <2>13, <2>15, <3>2, <3>3 DEF WireInv
  <2>18. CASE ~(remain >= Chunk)
    <3>1. remain' = 0 /\ remain <= Chunk
      BY <1>6, <2>8, <2>16, <2>18 DEF JChunk
    <3>2. ~Sending'
      BY <3>1 DEF Sending
    <3>3. /\ DataCount' >= 1 /\ Bytes[DataCount' - 1] < file_size' - received_size'
          /\ file_size' - received_size' <= Bytes[DataCount']
      <4>1. DataCount' - 1 = DataCount
        BY <2>11, <2>16
      <4> QED BY <2>2, <2>8, <2>11, <2>13, <2>16, <3>1, <4>1
    <3> QED BY <2>2, <2>7, <2>12, <2>13, <2>15, <3>2, <3>3 DEF WireInv, Complete
  <2> QED BY <2>17, <2>18
<1>7. ASSUME LChunk PROVE WireInv'
  <2>1. PICK n \in 0 .. Chunk : Put("transmit", Data(begun, n))
    BY <1>7, ChunkAssumption DEF LChunk, ClientType
  <2>2. /\ tpc = "chunks" /\ UNCHANGED <<java, sizes, open, spc, file_size, received_size>>
    BY <1>7 DEF LChunk
  <2>3. begun \in 0 .. MaxFrames /\ user # "stopping"
    BY <1>7, FramesAssumption DEF LChunk, CallerInv, InFrame, CallerType, ClientType
  <2>4. Data(begun, n) \in Messages /\ Data(begun, n).kind = "data"
    BY <2>3 DEF Data, Messages
  <2>5. SUFFICES ASSUME ~WholeChunks, open["transmit"] = "open", spc # "none"
                 PROVE  WireInv'
    BY <2>2 DEF WireInv, WholeChunks
  <2>6. statusMap["transmit"] = "open"
    BY <2>3, <2>5 DEF SocketInv, SocketType, Socks
  <2>7. /\ Len(Wire) \in Nat /\ Len(Wire') = Len(Wire) + 1 /\ Wire' # <<>>
        /\ Wire'[Len(Wire) + 1].kind = "data"
        /\ \A i \in 1 .. Len(Wire) : Wire'[i] = Wire[i]
    BY <2>1, <2>4, <2>5, <2>6, Putting, WireMessages
  <2>8. remain \in Nat /\ remain > 0
    BY <1>7, <2>2, <2>5 DEF LChunk, RemainInv, ClientType
  <2>9. \A i \in 1 .. Len(Wire) : Wire[i].kind # "header"
    BY <2>2, <2>5 DEF HeaderInv
  <2>10. ~HeaderLast /\ ~HeaderLast'
    BY <2>7, <2>9, WireMessages DEF HeaderLast
  <2>11. DataCount = Len(Wire) /\ DataCount' = DataCount + 1
    BY <2>7, <2>10 DEF DataCount
  <2>12. spc = "data" /\ Sending
    BY <2>2, <2>5, <2>8, <2>10 DEF WireInv, Sending
  <2>13. /\ file_size > received_size /\ file_size - received_size = remain + Bytes[DataCount]
         /\ \A i \in 1 .. Len(Wire) - 1 : Wire[i].kind = "data"
         /\ Wire # <<>> => Wire[Len(Wire)].kind # "login"
    BY <2>5, <2>12 DEF WireInv
  <2>14. \A i \in 1 .. Len(Wire) : Wire[i].kind = "data"
    <3>1. \A i \in 1 .. Len(Wire) : Wire[i].kind \in {"login", "header", "data"}
      BY WireMessages DEF Messages
    <3>2. ASSUME NEW i \in 1 .. Len(Wire), i = Len(Wire) PROVE Wire[i].kind = "data"
      <4>1. Wire # <<>>
        BY <2>7, <3>2
      <4> QED BY <2>9, <2>13, <3>1, <3>2, <4>1
    <3>3. ASSUME NEW i \in 1 .. Len(Wire), i # Len(Wire) PROVE Wire[i].kind = "data"
      <4>1. i \in 1 .. Len(Wire) - 1
        BY <2>7, <3>3
      <4> QED BY <2>13, <4>1
    <3> QED BY <3>2, <3>3
  <2>15. \A i \in 1 .. Len(Wire') : Wire'[i].kind = "data"
    BY <2>7, <2>14
  <2>16. /\ Bytes[DataCount] \in Nat /\ Bytes[DataCount + 1] = Bytes[DataCount] + Chunk
         /\ Chunk \in Nat /\ Chunk >= 1 /\ DataCount \in Nat
    BY <2>7, <2>11, BytesFacts
  <2>17. CASE remain > Chunk
    <3>1. remain' = remain - Chunk /\ tpc' = "chunks" /\ remain' > 0
      BY <1>7, <2>2, <2>8, <2>16, <2>17 DEF LChunk
    <3>2. Sending'
      BY <2>10, <3>1 DEF Sending
    <3>3. file_size' - received_size' = remain' + Bytes[DataCount']
      BY <2>2, <2>8, <2>11, <2>13, <2>16, <3>1
    <3> QED BY <2>2, <2>7, <2>12, <2>13, <2>15, <3>2, <3>3 DEF WireInv
  <2>18. CASE ~(remain > Chunk)
    <3>1. remain' = 0 /\ remain <= Chunk
      BY <1>7, <2>8, <2>16, <2>18 DEF LChunk
    <3>2. ~Sending'
      BY <3>1 DEF Sending
    <3>3. /\ DataCount' >= 1 /\ Bytes[DataCount' - 1] < file_size' - received_size'
          /\ file_size' - received_size' <= Bytes[DataCount']
      <4>1. DataCount' - 1 = DataCount
        BY <2>11, <2>16
      <4> QED BY <2>2, <2>8, <2>11, <2>13, <2>16, <3>1, <4>1
    <3> QED BY <2>2, <2>7, <2>12, <2>13, <2>15, <3>2, <3>3 DEF WireInv, Complete
  <2> QED BY <2>17, <2>18
<1>8. ASSUME LUnlock PROVE WireInv'
  <2>1. /\ tpc = "chunks" /\ remain = 0 /\ tpc' = "wait"
        /\ UNCHANGED <<java, sizes, open, to_server, spc, remain, file_size, received_size>>
    BY <1>8 DEF LUnlock
  <2>2. Wire' = Wire /\ HeaderLast' = HeaderLast /\ DataCount' = DataCount /\ Complete' = Complete
    BY <2>1 DEF Wire, HeaderLast, DataCount, Complete
  <2>3. ~Sending' /\ ~Sending
    BY <2>1 DEF Sending
  <2>4. WholeChunks' = WholeChunks
    BY <2>1 DEF WholeChunks
  <2> QED BY <2>1, <2>2, <2>3, <2>4 DEF WireInv
<1>9. ASSUME TRelease PROVE WireInv'
  BY <1>9 DEF TRelease, WireInv, Wire, HeaderLast, DataCount, Sending, Complete,
     WholeChunks, Runs
<1>10. ASSUME RConnect PROVE WireInv'
  <2>1. Wire' = Wire /\ open'["transmit"] = open["transmit"]
    BY <1>10 DEF RConnect, Connect, RAccept, Take, Wire, SocketType, Socks
  <2>2. UNCHANGED <<spc, file_size, received_size, tpc, remain, java, sizes>>
    BY <1>10 DEF RConnect, Connect, RAccept
  <2> HIDE <1>10
  <2>3. HeaderLast' = HeaderLast /\ DataCount' = DataCount
    BY <2>1 DEF HeaderLast, DataCount
  <2>4. WholeChunks' = WholeChunks /\ Sending' = Sending /\ Complete' = Complete
    BY <2>2, <2>3, SMTT(30) DEF WholeChunks, Sending, Complete
  <2> QED BY <2>1, <2>2, <2>3, <2>4 DEF WireInv
<1>11. ASSUME RLogin PROVE WireInv'
  BY <1>11 DEF RLogin, WireInv, Wire, HeaderLast, DataCount, Sending, Complete,
     WholeChunks, Heard, Hear, Runs
<1>12. ASSUME ROffer PROVE WireInv'
  BY <1>12 DEF ROffer, WireInv, Wire, HeaderLast, DataCount, Sending, Complete,
     WholeChunks, Heard, Hear, Runs
<1>13. ASSUME RRelease PROVE WireInv'
  BY <1>13 DEF RRelease, WireInv, Wire, HeaderLast, DataCount, Sending, Complete,
     WholeChunks, Runs
<1>14. ASSUME ExitOnError PROVE WireInv'
  BY <1>14 DEF ExitOnError, WireInv, Wire, HeaderLast, DataCount, Sending, Complete,
     WholeChunks, Runs
<1>15. ASSUME SendImageReturns PROVE WireInv'
  BY <1>15 DEF SendImageReturns, WireInv, Wire, HeaderLast, DataCount, Sending, Complete,
     WholeChunks, Runs
<1>16. ASSUME GetResultReturns PROVE WireInv'
  BY <1>16 DEF GetResultReturns, WireInv, Wire, HeaderLast, DataCount, Sending, Complete,
     WholeChunks, Runs
<1>17. ASSUME Exit PROVE WireInv'
  BY <1>17 DEF Exit, WireInv, Wire, HeaderLast, DataCount, Sending, Complete, WholeChunks,
     Runs
<1>18. ASSUME SendImage PROVE WireInv'
  BY <1>18 DEF SendImage, WireInv, Wire, HeaderLast, DataCount, Sending, Complete,
     WholeChunks, Idle, Runs
<1>19. ASSUME GetResult PROVE WireInv'
  BY <1>19 DEF GetResult, WireInv, Wire, HeaderLast, DataCount, Sending, Complete,
     WholeChunks, Idle, Runs
<1>20. ASSUME Stop PROVE WireInv'
  BY <1>20 DEF Stop, WireInv, Wire, HeaderLast, DataCount, Sending, Complete, WholeChunks,
     Idle, Runs
<1>21. ASSUME LSpawn PROVE WireInv'
  BY <1>21 DEF LSpawn, WireInv, Wire, HeaderLast, DataCount, Sending, Complete,
     WholeChunks, Runs
<1>22. ASSUME LExit PROVE WireInv'
  BY <1>22 DEF LExit, WireInv, Wire, HeaderLast, DataCount, Sending, Complete,
     WholeChunks, Runs
<1>23. ASSUME NEW s \in Socks, Close(s) PROVE WireInv'
  BY <1>23 DEF Close, WireInv, Wire, HeaderLast, DataCount, Sending, Complete,
     WholeChunks, Runs
<1>24. ASSUME NEW s \in Socks, Tell(s) PROVE WireInv'
  <2>1. UNCHANGED <<spc, file_size, received_size, tpc, remain, java, sizes>>
    BY <1>24 DEF Tell
  <2>2. CASE s = "transmit"
    <3>1. open'["transmit"] = "closed"
      BY <1>24, <2>2 DEF Tell, SocketType
    <3> QED BY <3>1 DEF WireInv
  <2>3. CASE s # "transmit"
    <3>1. Wire' = Wire /\ open'["transmit"] = open["transmit"]
      BY <1>24, <2>3 DEF Tell, Wire, SocketType, Socks
    <3>2. HeaderLast' = HeaderLast /\ DataCount' = DataCount
      BY <3>1 DEF HeaderLast, DataCount
    <3>3. WholeChunks' = WholeChunks /\ Sending' = Sending /\ Complete' = Complete
      BY <2>1, <3>2 DEF WholeChunks, Sending, Complete
    <3> QED BY <2>1, <3>1, <3>2, <3>3 DEF WireInv
  <2> QED BY <2>2, <2>3
<1>25. ASSUME Up /\ SAccept PROVE WireInv'
  <2>1. Arrived("transmit") /\ Take("transmit") /\ spc = "none" /\ spc' = "header" /\ tpc' = tpc
    BY <1>25 DEF SAccept
  <2>2. Wire = <<Login>> /\ tpc = "login"
    BY <2>1, Taking DEF StartInv, SocketInv, Socks
  <2>3. Wire' = <<>>
    BY <2>1, <2>2, Taking
  <2> QED BY <2>1, <2>2, <2>3 DEF WireInv
<1>26. ASSUME Up /\ SHeader PROVE WireInv'
  <2>1. /\ Arrived("transmit") /\ Take("transmit") /\ spc = "header" /\ spc' = "data"
        /\ UNCHANGED <<tpc, remain, open, java, sizes>> /\ received_size' = 0
    BY <1>26 DEF SHeader
  <2>2. SUFFICES ASSUME ~WholeChunks, open["transmit"] = "open" PROVE WireInv'
    BY <2>1 DEF WireInv, WholeChunks
  <2>3. \A i \in 1 .. Len(Wire) : Wire[i].kind = "header"
    BY <2>1, <2>2 DEF WireInv
  <2>4. \A i \in 1 .. Len(Wire) : i = Len(Wire) /\ tpc = "ok" /\ Wire[i].size = remain
    BY <2>2, <2>3 DEF HeaderInv
  <2>5. Len(Wire) \in Nat /\ Len(Wire) >= 1 /\ 1 \in 1 .. Len(Wire)
    BY <2>1, Taking
  <2>6. Len(Wire) = 1 /\ tpc = "ok" /\ Wire[1].size = remain
    BY <2>4, <2>5
  <2>7. Wire' = <<>> /\ Len(Wire') = 0
    BY <2>1, <2>6, Taking, WireMessages, HeadFacts
  <2>8. Head(to_server["transmit"]).kind = "header" /\ Head(to_server["transmit"]).size = remain
    BY <2>1, <2>3, <2>5, <2>6, Taking
  <2>9. file_size' = remain
    BY <1>26, <2>8 DEF SHeader
  <2>10. ~HeaderLast' /\ DataCount' = 0
    BY <2>7 DEF HeaderLast, DataCount
  <2>11. remain \in Nat /\ remain > 0
    BY <2>6 DEF RemainInv, ClientType
  <2>12. Sending'
    BY <2>1, <2>6, <2>10, <2>11 DEF Sending
  <2>13. file_size' - received_size' = remain' + Bytes[DataCount']
    BY <2>1, <2>9, <2>10, <2>11, BytesFacts
  <2> QED BY <2>1, <2>7, <2>9, <2>11, <2>12, <2>13 DEF WireInv
<1>27. ASSUME Up /\ SHeaderFails PROVE WireInv'
  BY <1>27 DEF SHeaderFails, WireInv, Wire, HeaderLast, DataCount, Sending, Complete,
     WholeChunks, Gone, Signal, Undefined, Up
<1>28. ASSUME Up /\ SData PROVE WireInv'
  <2>1. /\ Arrived("transmit") /\ Take("transmit") /\ spc = "data" /\ Chunked
        /\ UNCHANGED <<tpc, remain, open, java, sizes, file_size>>
    BY <1>28 DEF SData
  <2>2. SUFFICES ASSUME ~WholeChunks, open["transmit"] = "open" PROVE WireInv'
    BY <2>1 DEF WireInv, WholeChunks
  <2> DEFINE left == file_size - received_size
             k == DataCount
  <2>3. /\ file_size > received_size
        /\ \A i \in 1 .. Len(Wire) - 1 : Wire[i].kind = "data"
        /\ Wire[Len(Wire)].kind # "login"
        /\ IF Sending THEN left = remain + Bytes[k] ELSE Complete
    BY <2>1, <2>2, Taking DEF WireInv
  <2>4. /\ Len(Wire) \in Nat /\ Len(Wire) >= 1 /\ Wire # <<>> /\ Len(Wire') = Len(Wire) - 1
        /\ \A i \in 1 .. Len(Wire') : i + 1 \in 1 .. Len(Wire) /\ Wire'[i] = Wire[i + 1]
    BY <2>1, Taking
  <2>5. k \in Nat /\ left \in Int /\ received_size \in Nat /\ file_size \in Nat /\ remain \in Nat
    BY <2>4, SizesAssumption DEF DataCount, ServerType, ClientType
  <2>6. Sending => remain > 0 /\ ~HeaderLast /\ k = Len(Wire)
    BY DEF Sending, DataCount
  <2>7. ~Sending => k >= 1 /\ Bytes[k - 1] < left /\ left <= Bytes[k]
    BY <2>3 DEF Complete
  <2>8. HeaderLast => tpc = "ok" /\ ~Sending
    BY <2>2, <2>4 DEF HeaderLast, HeaderInv, Sending
  <2>9. k >= 1 /\ (HeaderLast => Len(Wire) >= 2 /\ k = Len(Wire) - 1)
    BY <2>4, <2>6, <2>7, <2>8 DEF DataCount
  <2>10. HeaderLast' <=> HeaderLast
    <3>1. CASE Len(Wire) >= 2
      <4>1. Wire' # <<>> /\ Wire'[Len(Wire')] = Wire[Len(Wire)]
        BY <2>4, <3>1
      <4> QED BY <2>4, <4>1 DEF HeaderLast
    <3>2. CASE Len(Wire) = 1
      <4>1. Len(Wire') = 0
        BY <2>4, <3>2
      <4>2. Wire' = <<>>
        BY <2>1, <3>2, Taking, WireMessages, HeadFacts
      <4> QED BY <2>9, <3>2, <4>2 DEF HeaderLast
    <3> QED BY <2>4, <3>1, <3>2
  <2>11. DataCount' = k - 1 /\ (Sending' <=> Sending)
    BY <2>1, <2>4, <2>5, <2>10 DEF DataCount, Sending
  <2>12. CASE left <= Chunk
    <3>1. spc' = "save"
      BY <2>1, <2>12 DEF Chunked
    <3>2. ~Sending
      BY <2>3, <2>5, <2>6, <2>9, <2>12, LastMessage
    <3>3. k = 1
      BY <2>5, <2>7, <2>9, <2>12, <3>2, LastMessage
    <3>4. \A i \in 1 .. Len(Wire') : Wire'[i].kind = "header"
      <4>1. CASE HeaderLast
        <5>0. Len(Wire) \in Nat
          BY <2>4
        <5>1. Len(Wire) = 2
          BY <2>9, <3>3, <4>1, <5>0
        <5>2. Wire[2].kind = "header"
          BY <4>1, <5>1 DEF HeaderLast
        <5> QED BY <2>4, <5>1, <5>2
      <4>2. CASE ~HeaderLast
        <5>0. Len(Wire) \in Nat
          BY <2>4
        <5>1. Len(Wire) = 1
          BY <3>3, <4>2, <5>0 DEF DataCount
        <5> QED BY <2>4, <5>1
      <4> QED BY <4>1, <4>2
    <3>5. tpc = "chunks" => remain = 0
      BY <2>5, <2>8, <3>2 DEF Sending
    <3> QED BY <2>1, <3>1, <3>4, <3>5 DEF WireInv
  <2>13. CASE ~(left <= Chunk)
    <3>1. spc' = "data" /\ received_size' = received_size + Chunk
      BY <2>1, <2>13 DEF Chunked
    <3>2. Chunk \in Nat /\ left > Chunk /\ file_size' - received_size' = left - Chunk
          /\ file_size' > received_size'
      BY <2>1, <2>5, <2>13, <3>1, BytesFacts
    <3>4. ASSUME Sending PROVE file_size' - received_size' = remain' + Bytes[DataCount']
      <4>1. left = remain + Bytes[k]
        BY <2>3, <3>4
      <4>2. left - Chunk = remain + Bytes[k - 1]
        BY <2>5, <2>9, <3>2, <4>1, FullMessage
      <4> QED BY <2>1, <2>11, <3>2, <4>2
    <3>5. ASSUME ~Sending PROVE Complete'
      <4>1. Bytes[k - 1] < left /\ left <= Bytes[k]
        BY <2>7, <3>5
      <4>2. k - 1 >= 1 /\ Bytes[(k - 1) - 1] < left - Chunk /\ left - Chunk <= Bytes[k - 1]
        BY <2>5, <2>9, <3>2, <4>1, FullMessage
      <4>3. Bytes[DataCount' - 1] = Bytes[(k - 1) - 1] /\ Bytes[DataCount'] = Bytes[k - 1]
            /\ DataCount' >= 1
        BY <2>11, <4>2
      <4> QED BY <3>2, <4>2, <4>3 DEF Complete
    <3>6. \A i \in 1 .. Len(Wire') - 1 : Wire'[i].kind = "data"
      BY <2>3, <2>4
    <3>7. Wire' # <<>> => Wire'[Len(Wire')].kind # "login"
      <4>1. Wire' # <<>> => Len(Wire') >= 1
        BY <2>1, Taking, WireMessages, HeadFacts
      <4> QED BY <2>3, <2>4, <4>1
    <3>8. IF Sending' THEN file_size' - received_size' = remain' + Bytes[DataCount']
                      ELSE Complete'
      BY <2>11, <3>4, <3>5
    <3> QED BY <3>1, <3>2, <3>6, <3>7, <3>8 DEF WireInv
  <2> QED BY <2>12, <2>13
<1>29. ASSUME Up /\ SDataFails PROVE WireInv'
  <2>1. open'["transmit"] = "closed"
    BY <1>29 DEF SDataFails, Gone
  <2> QED BY <2>1 DEF WireInv
<1>30. ASSUME Up /\ SSave PROVE WireInv'
  BY <1>30 DEF SSave, WireInv, Wire, HeaderLast, DataCount, Sending, Complete,
     WholeChunks, Name, Up
<1>31. ASSUME Up /\ SPush PROVE WireInv'
  BY <1>31 DEF SPush, WireInv, Wire, HeaderLast, DataCount, Sending, Complete,
     WholeChunks, Undefined, Name, Up
<1>32. ASSUME Up /\ SPost PROVE WireInv'
  BY <1>32 DEF SPost, WireInv, Wire, HeaderLast, DataCount, Sending, Complete,
     WholeChunks, Undefined, Up
<1>33. ASSUME Up /\ RAccept PROVE WireInv'
  <2>1. Wire' = Wire /\ open'["transmit"] = open["transmit"]
    BY <1>33 DEF RConnect, Connect, RAccept, Take, Wire, SocketType, Socks
  <2>2. UNCHANGED <<spc, file_size, received_size, tpc, remain, java, sizes>>
    BY <1>33 DEF RConnect, Connect, RAccept
  <2> HIDE <1>33
  <2>3. HeaderLast' = HeaderLast /\ DataCount' = DataCount
    BY <2>1 DEF HeaderLast, DataCount
  <2>4. WholeChunks' = WholeChunks /\ Sending' = Sending /\ Complete' = Complete
    BY <2>2, <2>3 DEF WholeChunks, Sending, Complete
  <2> QED BY <2>1, <2>2, <2>3, <2>4 DEF WireInv
<1>34. ASSUME Up /\ RLeave PROVE WireInv'
  BY <1>34 DEF RLeave, WireInv, Wire, HeaderLast, DataCount, Sending, Complete,
     WholeChunks, Up
<1>35. ASSUME Up /\ RMatch PROVE WireInv'
  BY <1>35 DEF RMatch, WireInv, Wire, HeaderLast, DataCount, Sending, Complete,
     WholeChunks, Up
<1>36. ASSUME Up /\ RDead PROVE WireInv'
  BY <1>36 DEF RDead, WireInv, Wire, HeaderLast, DataCount, Sending, Complete,
     WholeChunks, Up
<1>37. ASSUME Up /\ ChildMatch PROVE WireInv'
  BY <1>37 DEF ChildMatch, WireInv, Wire, HeaderLast, DataCount, Sending, Complete,
     WholeChunks, Up
<1>38. ASSUME Up /\ ChildSend PROVE WireInv'
  BY <1>38 DEF ChildSend, WireInv, Wire, HeaderLast, DataCount, Sending, Complete,
     WholeChunks, Back, Up
<1>39. ASSUME NEW s \in Socks, Up /\ NoLogin(s) PROVE WireInv'
  BY <1>39, ZenonT(60) DEF NoLogin, WireInv, Wire, HeaderLast, DataCount, Sending, Complete,
     WholeChunks, Gone, Up
<1> QED BY <1>1, <1>2, <1>3, <1>4, <1>5, <1>6, <1>7, <1>8, <1>9, <1>10, <1>11, <1>12,
           <1>13, <1>14, <1>15, <1>16, <1>17, <1>18, <1>19, <1>20, <1>21, <1>22, <1>23,
           <1>24, <1>25, <1>26, <1>27, <1>28, <1>29, <1>30, <1>31, <1>32, <1>33, <1>34,
           <1>35, <1>36, <1>37, <1>38, <1>39, NextSteps

(* One frame on its way at a time. *)
LEMMA CountStep ==
  ASSUME CallerType, ClientType, SocketType, ServerType, HeapType, CallerType',
         ClientType', SocketType', HeapType', CallerInv, SocketInv, AnswerInv, StartInv,
         HeaderInv, WireInv, CountInv, Next
  PROVE  CountInv'
<1> USE DEF caller, sems, cthreads, ends, cvars, net, transmit, heap, matching, svars
<1>1. ASSUME TConnect PROVE CountInv'
  <2>1. HeaderLast' => HeaderLast
    <3>1. CASE TConnect
      <4>1. Wire' = <<Login>>
        BY <3>1 DEF TConnect, Connect, Wire, SocketType, Socks
      <4> QED BY <4>1 DEF HeaderLast, Login
    <3>2. CASE SAccept
      BY <3>2, TakingHeader DEF SAccept
    <3> QED BY <1>1, <3>1, <3>2
  <2>2. UNCHANGED <<queue, jobs, answers, resultQueue, rpc, rsp, begun, asked, taken, java,
                    lockstep, sizes, globalStop>>
    BY <1>1 DEF TConnect, Connect, SAccept
  <2>3. to_client'["result"] = to_client["result"]
    BY <1>1 DEF TConnect, Connect, SAccept, Back, SocketType, Socks
  <2>4. spc' = spc \/ (spc = "none" /\ spc' = "header")
    BY <1>1 DEF TConnect, Connect, SAccept
  <2>5. Waiting' = Waiting
    BY <2>2, <2>3, <2>4 DEF Queued, Matching, Matched, Sent, Held, Waiting
  <2>6. Coming' <= Coming /\ Coming' \in Int /\ LoginAnswer' = LoginAnswer
    BY <2>1, <2>2, <2>4 DEF Coming, LoginAnswer
  <2>7. Lockstep' => Lockstep
    BY <2>2 DEF Lockstep, WholeChunks
  <2> HIDE <1>1
  <2> QED BY <2>2, <2>5, <2>6, <2>7, Numbers, CountKept
<1>2. ASSUME TLogin PROVE CountInv'
  <2>1. UNCHANGED <<queue, jobs, answers, resultQueue, rpc, rsp, begun, asked, taken, java,
                    lockstep, sizes, globalStop, to_server, spc>>
    BY <1>2 DEF TLogin, TOk
  <2>2. to_client'["result"] = to_client["result"]
    BY <1>2 DEF TLogin, TOk, Hear, SocketType, Socks
  <2>3. HeaderLast' = HeaderLast
    BY <2>1 DEF HeaderLast, Wire
  <2>4. Waiting' = Waiting /\ Coming' = Coming /\ LoginAnswer' = LoginAnswer
    BY <2>1, <2>2, <2>3 DEF Queued, Matching, Matched, Sent, Held, Waiting, Coming, LoginAnswer
  <2>5. Lockstep' => Lockstep
    BY <2>1 DEF Lockstep, WholeChunks
  <2> HIDE <1>2
  <2> QED BY <2>1, <2>4, <2>5, Numbers, CountKept
<1>3. ASSUME TAcquire PROVE CountInv'
  BY <1>3 DEF TAcquire, CountInv, Lockstep, Wire, HeaderLast, Waiting, Queued, Matching,
     Matched, Sent, Held, Taken, Coming, LoginAnswer, WholeChunks, Runs
<1>4. ASSUME THeader PROVE CountInv'
  <2>1. UNCHANGED <<queue, jobs, answers, resultQueue, rpc, rsp, asked, taken, java,
                    lockstep, globalStop, to_client, spc>>
    BY <1>4 DEF THeader
  <2>2. begun' = begun + 1 /\ sizes \subseteq sizes'
    BY <1>4 DEF THeader
  <2>3. Waiting' = Waiting /\ LoginAnswer' = LoginAnswer
    BY <2>1 DEF Queued, Matching, Matched, Sent, Held, Waiting, LoginAnswer
  <2>4. Coming' <= Coming + 1 /\ Coming' \in Int
    BY <2>1 DEF Coming
  <2>5. Lockstep' => Lockstep
    BY <2>1, <2>2 DEF Lockstep, WholeChunks
  <2> HIDE <1>4
  <2> QED BY <2>1, <2>2, <2>3, <2>4, <2>5, Numbers, CountKept
<1>5. ASSUME TOk PROVE CountInv'
  <2>1. UNCHANGED <<queue, jobs, answers, resultQueue, rpc, rsp, begun, asked, taken, java,
                    lockstep, sizes, globalStop, to_server, spc>>
    BY <1>5 DEF TLogin, TOk
  <2>2. to_client'["result"] = to_client["result"]
    BY <1>5 DEF TLogin, TOk, Hear, SocketType, Socks
  <2>3. HeaderLast' = HeaderLast
    BY <2>1 DEF HeaderLast, Wire
  <2>4. Waiting' = Waiting /\ Coming' = Coming /\ LoginAnswer' = LoginAnswer
    BY <2>1, <2>2, <2>3 DEF Queued, Matching, Matched, Sent, Held, Waiting, Coming, LoginAnswer
  <2>5. Lockstep' => Lockstep
    BY <2>1 DEF Lockstep, WholeChunks
  <2> HIDE <1>5
  <2> QED BY <2>1, <2>4, <2>5, Numbers, CountKept
<1>6. ASSUME JChunk PROVE CountInv'
  <2>1. UNCHANGED <<queue, jobs, answers, resultQueue, rpc, rsp, begun, asked, taken, java,
                    lockstep, sizes, globalStop, to_client, spc>>
    BY <1>6 DEF JChunk
  <2>2. PICK n \in 0 .. Chunk : Put("transmit", Data(begun, n))
    BY <1>6, ChunkAssumption DEF JChunk, ClientType
  <2>3. begun \in 0 .. MaxFrames
    BY <1>6, FramesAssumption DEF JChunk, CallerInv, InFrame, CallerType, ClientType
  <2>4. Data(begun, n) \in Messages /\ Data(begun, n).kind = "data"
    BY <2>3 DEF Data, Messages
  <2>5. HeaderLast' => HeaderLast
    <3>1. CASE Wire' = Wire
      BY <3>1 DEF HeaderLast
    <3>2. CASE Wire' # Wire
      <4>1. Len(Wire') = Len(Wire) + 1 /\ Wire'[Len(Wire) + 1] = Data(begun, n)
        BY <2>2, <2>4, <3>2, Putting
      <4>2. Wire'[Len(Wire')].kind = "data"
        BY <2>4, <4>1
      <4> QED BY <4>2 DEF HeaderLast
    <3> QED BY <3>1, <3>2
  <2>6. Waiting' = Waiting /\ LoginAnswer' = LoginAnswer /\ Coming' <= Coming /\ Coming' \in Int
    BY <2>1, <2>5 DEF Queued, Matching, Matched, Sent, Held, Waiting, Coming, LoginAnswer
  <2>7. Lockstep' => Lockstep
    BY <2>1 DEF Lockstep, WholeChunks
  <2> HIDE <1>6
  <2> QED BY <2>1, <2>6, <2>7, Numbers, CountKept
<1>7. ASSUME LChunk PROVE CountInv'
  BY <1>7 DEF LChunk, CountInv, Lockstep, Wire, HeaderLast, Waiting, Queued, Matching,
     Matched, Sent, Held, Taken, Coming, LoginAnswer, WholeChunks, Put, Data, Runs
<1>8. ASSUME LUnlock PROVE CountInv'
  BY <1>8 DEF LUnlock, CountInv, Lockstep, Wire, HeaderLast, Waiting, Queued, Matching,
     Matched, Sent, Held, Taken, Coming, LoginAnswer, WholeChunks, Runs
<1>9. ASSUME TRelease PROVE CountInv'
  BY <1>9 DEF TRelease, CountInv, Lockstep, Wire, HeaderLast, Waiting, Queued, Matching,
     Matched, Sent, Held, Taken, Coming, LoginAnswer, WholeChunks, Runs
<1>10. ASSUME RConnect PROVE CountInv'
  <2>1. UNCHANGED <<queue, jobs, answers, resultQueue, rsp, begun, asked, taken, java,
                    lockstep, sizes, globalStop, to_client, spc>> /\ rpc = "connect"
    BY <1>10 DEF RConnect, Connect
  <2>2. rsp = "none"
    BY <2>1 DEF AnswerInv
  <2>3. Wire' = Wire
    BY <1>10 DEF RConnect, Connect, Wire, SocketType, Socks
  <2>4. HeaderLast' = HeaderLast
    BY <2>3 DEF HeaderLast
  <2>5. Waiting' = Waiting /\ LoginAnswer' = LoginAnswer /\ Coming' = Coming
    BY <2>1, <2>2, <2>4 DEF Queued, Matching, Matched, Sent, Held, Waiting, Coming, LoginAnswer
  <2>6. Lockstep' => Lockstep
    BY <2>1 DEF Lockstep, WholeChunks
  <2> HIDE <1>10
  <2> QED BY <2>1, <2>5, <2>6, Numbers, CountKept
<1>11. ASSUME RLogin PROVE CountInv'
  <2>1. UNCHANGED <<queue, jobs, answers, resultQueue, rsp, begun, asked, taken, java,
                    lockstep, sizes, globalStop, to_server, spc>>
        /\ rpc = "login" /\ rpc' \in {"ended", "recv"}
    BY <1>11 DEF RLogin
  <2>2. to_client'["result"] = Tail(to_client["result"]) /\ to_client["result"] # <<>>
    BY <1>11 DEF RLogin, Heard, Hear, SocketType, Socks
  <2>3. rsp # "none"
    BY <2>1, <2>2 DEF AnswerInv
  <2>4. Len(to_client'["result"]) = Len(to_client["result"]) - 1
    BY <2>2, HeadFacts DEF SocketType, Socks
  <2>5. HeaderLast' = HeaderLast
    BY <2>1 DEF HeaderLast, Wire
  <2>6. Coming' = Coming /\ LoginAnswer = 1 /\ LoginAnswer' = 0
    BY <2>1, <2>3, <2>5 DEF Coming, LoginAnswer
  <2>7. Waiting' = Waiting - 1
    <3>1. Sent' = Sent - 1 /\ UNCHANGED <<Queued, Matching, Matched, Held>>
      BY <2>1, <2>4 DEF Queued, Matching, Matched, Sent, Held
    <3> QED BY <2>1, <3>1, Numbers DEF Waiting
  <2>8. Lockstep' => Lockstep
    BY <2>1 DEF Lockstep, WholeChunks
  <2> HIDE <1>11
  <2> QED BY <2>1, <2>6, <2>7, <2>8, Numbers, CountKept
<1>12. ASSUME ROffer PROVE CountInv'
  <2>1. SUFFICES ASSUME java PROVE CountInv'
    BY <1>12 DEF ROffer, CountInv, Lockstep
  <2>2. UNCHANGED <<queue, jobs, answers, rsp, begun, asked, taken, java,
                    lockstep, sizes, globalStop, to_server, spc>>
        /\ rpc = "recv" /\ rpc' = "signal"
        /\ resultQueue' = Append(resultQueue, Head(to_client["result"]))
    BY <1>12, <2>1 DEF ROffer
  <2>3. to_client'["result"] = Tail(to_client["result"]) /\ to_client["result"] # <<>>
    BY <1>12 DEF ROffer, Heard, Hear, SocketType, Socks
  <2>4. Len(to_client'["result"]) = Len(to_client["result"]) - 1
    BY <2>3, HeadFacts DEF SocketType, Socks
  <2>5. Len(resultQueue') = Len(resultQueue) + 1
    BY <2>2 DEF CallerType
  <2>6. HeaderLast' = HeaderLast
    BY <2>2 DEF HeaderLast, Wire
  <2>7. Coming' = Coming /\ LoginAnswer' = LoginAnswer
    BY <2>2, <2>6 DEF Coming, LoginAnswer
  <2>8. Waiting' = Waiting
    <3>1. Sent' = Sent - 1 /\ Held' = Held + 1
      BY <2>4, <2>5 DEF Sent, Held
    <3>2. UNCHANGED <<Queued, Matching, Matched>>
      BY <2>2 DEF Queued, Matching, Matched
    <3>3. /\ Queued \in Nat /\ Matching \in Nat /\ Matched \in Nat /\ Sent \in Nat
          /\ Held \in Nat
      BY Numbers
    <3>4. spc' = spc
      BY <2>2
    <3> QED BY <3>1, <3>2, <3>3, <3>4 DEF Waiting
  <2>9. Lockstep' => Lockstep
    BY <2>2 DEF Lockstep, WholeChunks
  <2>10. UNCHANGED <<asked, taken, begun>>
    BY <2>2
  <2> QED BY <2>7, <2>8, <2>9, <2>10, CountSame, Zenon
<1>13. ASSUME RRelease PROVE CountInv'
  BY <1>13 DEF RRelease, CountInv, Lockstep, Wire, HeaderLast, Waiting, Queued, Matching,
     Matched, Sent, Held, Taken, Coming, LoginAnswer, WholeChunks, Runs
<1>14. ASSUME ExitOnError PROVE CountInv'
  BY <1>14 DEF ExitOnError, CountInv, Lockstep, Wire, HeaderLast, Waiting, Queued,
     Matching, Matched, Sent, Held, Taken, Coming, LoginAnswer, WholeChunks, Runs
<1>15. ASSUME SendImageReturns PROVE CountInv'
  BY <1>15 DEF SendImageReturns, CountInv, Lockstep, Wire, HeaderLast, Waiting, Queued,
     Matching, Matched, Sent, Held, Taken, Coming, LoginAnswer, WholeChunks, Runs
<1>16. ASSUME GetResultReturns PROVE CountInv'
  <2>1. UNCHANGED <<queue, jobs, answers, rsp, begun, asked, java, rpc, to_client,
                    lockstep, sizes, globalStop, to_server, spc>>
        /\ resultQueue # <<>>
        /\ resultQueue' = Tail(resultQueue) /\ taken' = Append(taken, Head(resultQueue))
    <3>1. java /\ resultQueue # <<>>
      BY <1>16 DEF GetResultReturns, ResultInv, CallerInv, ClientType, CallerType
    <3> QED BY <1>16, <3>1 DEF GetResultReturns
  <2>2. Len(resultQueue') = Len(resultQueue) - 1 /\ Len(resultQueue) >= 1
        /\ Len(taken') = Len(taken) + 1
    BY <2>1, HeadFacts DEF CallerType
  <2>3. HeaderLast' = HeaderLast
    BY <2>1 DEF HeaderLast, Wire
  <2>4. Coming' = Coming /\ LoginAnswer' = LoginAnswer
    BY <2>1, <2>3 DEF Coming, LoginAnswer
  <2>5. Waiting' = Waiting - 1 /\ Waiting >= 1
    <3>1. Held' = Held - 1 /\ Held >= 1
      BY <2>2 DEF Held
    <3>2. UNCHANGED <<Queued, Matching, Matched, Sent>>
      BY <2>1 DEF Queued, Matching, Matched, Sent
    <3>3. /\ Queued \in Nat /\ Matching \in Nat /\ Matched \in Nat /\ Sent \in Nat
          /\ Held \in Nat
      BY Numbers
    <3>4. spc' = spc
      BY <2>1
    <3> QED BY <3>1, <3>2, <3>3, <3>4 DEF Waiting
  <2>6. Lockstep' => Lockstep
    BY <2>1 DEF Lockstep, WholeChunks
  <2>7. LoginAnswer = 1 => Waiting >= 2
    <3>1. ASSUME LoginAnswer = 1 PROVE Sent >= 1
      <4>1. to_client["result"] # <<>>
        BY <3>1 DEF LoginAnswer, AnswerInv
      <4> QED BY <4>1, HeadFacts DEF SocketType, Socks, Sent
    <3>2. Held >= 1
      BY <2>2 DEF Held
    <3> QED BY <3>1, <3>2, Numbers DEF Waiting
  <2>8. begun <= asked
    BY BegunAsked, Zenon
  <2>9. SUFFICES ASSUME Lockstep
                 PROVE  /\ Taken' <= asked' /\ asked' <= Taken' + 1
                        /\ Waiting' + Coming' + Taken' <= begun' + LoginAnswer'
    BY <2>6 DEF CountInv
  <2>10. /\ asked <= Taken + 1 /\ Waiting + Coming + Taken <= begun + LoginAnswer
    BY <2>9 DEF CountInv
  <2>11. Taken' = Taken + 1 /\ UNCHANGED <<asked, begun>>
    BY <2>1, <2>2 DEF Taken
  <2> HIDE <1>16, <2>1, <2>2
  <2>12. Taken + 1 <= begun
    BY <2>5, <2>7, <2>10, Numbers
  <2>13. Waiting' + Coming' + Taken' <= begun' + LoginAnswer'
    BY <2>4, <2>5, <2>10, <2>11, Numbers
  <2> QED BY <2>8, <2>10, <2>11, <2>12, <2>13, Numbers
<1>17. ASSUME Exit PROVE CountInv'
  BY <1>17 DEF Exit, CountInv, Lockstep, Wire, HeaderLast, Waiting, Queued, Matching,
     Matched, Sent, Held, Taken, Coming, LoginAnswer, WholeChunks, Runs
<1>18. ASSUME SendImage PROVE CountInv'
  <2>1. UNCHANGED <<queue, jobs, answers, rsp, begun, java, rpc, to_client, resultQueue,
                    sizes, globalStop, to_server, spc, taken>>
        /\ asked' = asked + 1 /\ lockstep' = (lockstep /\ Len(taken) = asked)
    BY <1>18 DEF SendImage
  <2>2. HeaderLast' = HeaderLast
    BY <2>1 DEF HeaderLast, Wire
  <2>3. Coming' = Coming /\ LoginAnswer' = LoginAnswer /\ Waiting' = Waiting
    BY <2>1, <2>2 DEF Queued, Matching, Matched, Sent, Held, Waiting, Coming, LoginAnswer
  <2>4. Lockstep' => Lockstep /\ Taken = asked
    BY <2>1 DEF Lockstep, WholeChunks, Taken
  <2>5. Taken' = Taken /\ asked' = asked + 1 /\ begun' = begun
    BY <2>1 DEF Taken
  <2> HIDE <1>18, <2>1
  <2> QED BY <2>3, <2>4, <2>5, Numbers DEF CountInv
<1>19. ASSUME GetResult PROVE CountInv'
  BY <1>19 DEF GetResult, CountInv, Lockstep, Wire, HeaderLast, Waiting, Queued, Matching,
     Matched, Sent, Held, Taken, Coming, LoginAnswer, WholeChunks, Idle, Runs
<1>20. ASSUME Stop PROVE CountInv'
  BY <1>20 DEF Stop, CountInv, Lockstep, Wire, HeaderLast, Waiting, Queued, Matching,
     Matched, Sent, Held, Taken, Coming, LoginAnswer, WholeChunks, Idle, Runs
<1>21. ASSUME LSpawn PROVE CountInv'
  BY <1>21 DEF LSpawn, CountInv, Lockstep, Wire, HeaderLast, Waiting, Queued, Matching,
     Matched, Sent, Held, Taken, Coming, LoginAnswer, WholeChunks, Runs
<1>22. ASSUME LExit PROVE CountInv'
  BY <1>22 DEF LExit, CountInv, Lockstep, Wire, HeaderLast, Waiting, Queued, Matching,
     Matched, Sent, Held, Taken, Coming, LoginAnswer, WholeChunks, Runs
<1>23. ASSUME NEW s \in Socks, Close(s) PROVE CountInv'
  BY <1>23 DEF Close, CountInv, Lockstep, Wire, HeaderLast, Waiting, Queued, Matching,
     Matched, Sent, Held, Taken, Coming, LoginAnswer, WholeChunks, Runs
<1>24. ASSUME NEW s \in Socks, Tell(s) PROVE CountInv'
  <2>1. globalStop
    BY <1>24 DEF Tell, SocketInv, SocketType, CallerInv
  <2>2. globalStop' = globalStop
    BY <1>24 DEF Tell
  <2> QED BY <2>1, <2>2 DEF CountInv, Lockstep
<1>25. ASSUME Up /\ SAccept PROVE CountInv'
  <2>1. HeaderLast' => HeaderLast
    <3>1. CASE TConnect
      <4>1. Wire' = <<Login>>
        BY <3>1 DEF TConnect, Connect, Wire, SocketType, Socks
      <4> QED BY <4>1 DEF HeaderLast, Login
    <3>2. CASE SAccept
      BY <3>2, TakingHeader DEF SAccept
    <3> QED BY <1>25, <3>1, <3>2
  <2>2. UNCHANGED <<queue, jobs, answers, resultQueue, rpc, rsp, begun, asked, taken, java,
                    lockstep, sizes, globalStop>>
    BY <1>25 DEF TConnect, Connect, SAccept
  <2>3. to_client'["result"] = to_client["result"]
    BY <1>25 DEF TConnect, Connect, SAccept, Back, SocketType, Socks
  <2>4. spc' = spc \/ (spc = "none" /\ spc' = "header")
    BY <1>25 DEF TConnect, Connect, SAccept
  <2>5. Waiting' = Waiting
    BY <2>2, <2>3, <2>4 DEF Queued, Matching, Matched, Sent, Held, Waiting
  <2>6. Coming' <= Coming /\ Coming' \in Int /\ LoginAnswer' = LoginAnswer
    BY <2>1, <2>2, <2>4 DEF Coming, LoginAnswer
  <2>7. Lockstep' => Lockstep
    BY <2>2 DEF Lockstep, WholeChunks
  <2> HIDE <1>25
  <2> QED BY <2>2, <2>5, <2>6, <2>7, Numbers, CountKept
<1>26. ASSUME Up /\ SHeader PROVE CountInv'
  <2>1. /\ Arrived("transmit") /\ Take("transmit") /\ spc = "header" /\ spc' = "data"
        /\ UNCHANGED <<queue, jobs, answers, rsp, begun, java, rpc, resultQueue,
                    sizes, globalStop, taken, asked, lockstep>>
        /\ Back("transmit", Ok)
    BY <1>26 DEF SHeader
  <2>2. to_client'["result"] = to_client["result"]
    BY <2>1, Taking, Answering
  <2>3. Lockstep' => Lockstep
    BY <2>1 DEF Lockstep, WholeChunks
  <2>4. ASSUME Lockstep PROVE HeaderLast /\ ~HeaderLast'
    <3>1. \A i \in 1 .. Len(Wire) : Wire[i].kind = "header"
      BY <2>1, <2>4, Taking DEF WireInv, Lockstep
    <3>2. \A i \in 1 .. Len(Wire) : i = Len(Wire)
      BY <2>4, <3>1 DEF HeaderInv, Lockstep
    <3>3. Len(Wire) \in Nat /\ Len(Wire) >= 1 /\ 1 \in 1 .. Len(Wire) /\ Wire # <<>>
      BY <2>1, Taking
    <3>4. Len(Wire) = 1
      BY <3>2, <3>3
    <3>5. Wire' = <<>>
      BY <2>1, <3>4, Taking, WireMessages, HeadFacts
    <3> QED BY <3>1, <3>3, <3>4, <3>5 DEF HeaderLast
  <2>5. Waiting' = Waiting /\ LoginAnswer' = LoginAnswer
    BY <2>1, <2>2 DEF Queued, Matching, Matched, Sent, Held, Waiting, LoginAnswer
  <2>6. Lockstep => Coming' = Coming
    BY <2>1, <2>4 DEF Coming
  <2> HIDE <1>26
  <2> QED BY <2>1, <2>3, <2>5, <2>6, Numbers, CountKept
<1>27. ASSUME Up /\ SHeaderFails PROVE CountInv'
  BY <1>27 DEF SHeaderFails, CountInv, Lockstep, Wire, HeaderLast, Waiting, Queued,
     Matching, Matched, Sent, Held, Taken, Coming, LoginAnswer, WholeChunks, Gone, Signal,
     Undefined, Up
<1>28. ASSUME Up /\ SData PROVE CountInv'
  <2>1. /\ Arrived("transmit") /\ Take("transmit") /\ spc = "data" /\ spc' \in {"data", "save"}
        /\ UNCHANGED <<queue, jobs, answers, rsp, begun, java, rpc, resultQueue, to_client,
                    sizes, globalStop, taken, asked, lockstep>>
    BY <1>28 DEF SData, Chunked
  <2>2. HeaderLast' => HeaderLast
    BY <2>1, TakingHeader
  <2>3. Waiting' = Waiting /\ LoginAnswer' = LoginAnswer
    BY <2>1 DEF Queued, Matching, Matched, Sent, Held, Waiting, LoginAnswer
  <2>4. Coming' <= Coming /\ Coming' \in Int
    BY <2>1, <2>2 DEF Coming
  <2>5. Lockstep' => Lockstep
    BY <2>1 DEF Lockstep, WholeChunks
  <2> HIDE <1>28
  <2> QED BY <2>1, <2>3, <2>4, <2>5, Numbers, CountKept
<1>29. ASSUME Up /\ SDataFails PROVE CountInv'
  BY <1>29 DEF SDataFails, CountInv, Lockstep, Wire, HeaderLast, Waiting, Queued,
     Matching, Matched, Sent, Held, Taken, Coming, LoginAnswer, WholeChunks, Gone, Signal,
     Undefined, Chunked, Up
<1>30. ASSUME Up /\ SSave PROVE CountInv'
  <2>1. /\ spc = "save" /\ spc' \in {"push", "ended"}
        /\ UNCHANGED <<queue, jobs, answers, rsp, begun, java, rpc, resultQueue, to_client,
                    sizes, globalStop, taken, asked, lockstep, to_server>>
    BY <1>30 DEF SSave
  <2>2. HeaderLast' = HeaderLast
    BY <2>1 DEF HeaderLast, Wire
  <2>3. Coming' = Coming - 1 /\ LoginAnswer' = LoginAnswer
    BY <2>1, <2>2 DEF Coming, LoginAnswer
  <2>4. Waiting' <= Waiting + 1 /\ Waiting' \in Int
    <3>1. UNCHANGED <<Queued, Matching, Matched, Sent, Held>>
      BY <2>1 DEF Queued, Matching, Matched, Sent, Held
    <3> QED BY <2>1, <3>1, Numbers DEF Waiting
  <2>5. Lockstep' => Lockstep
    BY <2>1 DEF Lockstep, WholeChunks
  <2> HIDE <1>30
  <2> QED BY <2>1, <2>3, <2>4, <2>5, Numbers, CountKept
<1>31. ASSUME Up /\ SPush PROVE CountInv'
  <2>1. /\ spc = "push" /\ spc' = "post"
        /\ UNCHANGED <<jobs, answers, rsp, begun, java, rpc, resultQueue, to_client,
                    sizes, globalStop, taken, asked, lockstep, to_server>>
    BY <1>31 DEF SPush
  <2>2. HeaderLast' = HeaderLast
    BY <2>1 DEF HeaderLast, Wire
  <2>3. Coming' = Coming /\ LoginAnswer' = LoginAnswer
    BY <2>1, <2>2 DEF Coming, LoginAnswer
  <2>4. Len(queue') \in {Len(queue), Len(queue) + 1}
    <3>1. queue' = queue \/ queue' = Append(queue, Name(frame))
      BY <1>31 DEF SPush
    <3> QED BY <3>1 DEF HeapType
  <2>5. Waiting' <= Waiting /\ Waiting' \in Int
    <3>1. Queued' \in {Queued, Queued + 1} /\ UNCHANGED <<Matching, Matched, Sent, Held>>
      BY <2>1, <2>4 DEF Queued, Matching, Matched, Sent, Held
    <3> QED BY <2>1, <3>1, Numbers DEF Waiting
  <2>6. Lockstep' => Lockstep
    BY <2>1 DEF Lockstep, WholeChunks
  <2> HIDE <1>31
  <2> QED BY <2>1, <2>3, <2>5, <2>6, Numbers, CountKept
<1>32. ASSUME Up /\ SPost PROVE CountInv'
  BY <1>32 DEF SPost, CountInv, Lockstep, Wire, HeaderLast, Waiting, Queued, Matching,
     Matched, Sent, Held, Taken, Coming, LoginAnswer, WholeChunks, Undefined, Up
<1>33. ASSUME Up /\ RAccept PROVE CountInv'
  <2>1. /\ rsp = "none" /\ rsp' = "wait" /\ Arrived("result") /\ Back("result", Ok)
        /\ UNCHANGED <<queue, jobs, answers, begun, java, rpc, resultQueue,
                    sizes, globalStop, taken, asked, lockstep, spc>>
    BY <1>33 DEF RAccept
  <2>2. rpc = "login" /\ open["result"] = "open"
    BY <2>1 DEF AnswerInv, SocketInv, Arrived, Socks
  <2>3. to_client'["result"] = Append(to_client["result"], Ok)
    BY <2>1, <2>2 DEF Back, SocketType, Socks
  <2>4. Len(to_client'["result"]) = Len(to_client["result"]) + 1
    BY <2>3 DEF SocketType, Socks
  <2>5. Wire' = Wire
    BY <1>33 DEF RAccept, Take, Wire, SocketType, Socks
  <2>6. Coming' = Coming /\ LoginAnswer = 0 /\ LoginAnswer' = 1
    BY <2>1, <2>2, <2>5 DEF Coming, LoginAnswer, HeaderLast
  <2>7. Waiting' = Waiting + 1
    <3>1. Sent' = Sent + 1 /\ UNCHANGED <<Queued, Matching, Matched, Held>>
      BY <2>1, <2>4 DEF Queued, Matching, Matched, Sent, Held
    <3> QED BY <2>1, <3>1, Numbers DEF Waiting
  <2>8. Lockstep' => Lockstep
    BY <2>1 DEF Lockstep, WholeChunks
  <2> HIDE <1>33
  <2> QED BY <2>1, <2>6, <2>7, <2>8, Numbers, CountKept
<1>34. ASSUME Up /\ RLeave PROVE CountInv'
  BY <1>34 DEF RLeave, CountInv, Lockstep, Wire, HeaderLast, Waiting, Queued, Matching,
     Matched, Sent, Held, Taken, Coming, LoginAnswer, WholeChunks, Up
<1>35. ASSUME Up /\ RMatch PROVE CountInv'
  <2>1. /\ queue # <<>> /\ jobs' = Append(jobs, Head(queue)) /\ queue' = Tail(queue)
        /\ UNCHANGED <<answers, begun, java, rpc, resultQueue, rsp, to_client, to_server,
                    sizes, globalStop, taken, asked, lockstep, spc>>
    BY <1>35 DEF RMatch
  <2>2. Len(queue') = Len(queue) - 1 /\ Len(jobs') = Len(jobs) + 1
    BY <2>1, HeadFacts DEF HeapType
  <2>3. Coming' = Coming /\ LoginAnswer' = LoginAnswer
    BY <2>1 DEF Coming, LoginAnswer, HeaderLast, Wire
  <2>4. Waiting' = Waiting
    <3>1. Queued' = Queued - 1 /\ Matching' = Matching + 1
      BY <2>2 DEF Queued, Matching
    <3>2. UNCHANGED <<Matched, Sent, Held>>
      BY <2>1 DEF Matched, Sent, Held
    <3>3. /\ Queued \in Nat /\ Matching \in Nat /\ Matched \in Nat /\ Sent \in Nat
          /\ Held \in Nat
      BY Numbers
    <3>4. spc' = spc
      BY <2>1
    <3> QED BY <3>1, <3>2, <3>3, <3>4 DEF Waiting
  <2>5. Lockstep' => Lockstep
    BY <2>1 DEF Lockstep, WholeChunks
  <2>6. UNCHANGED <<asked, taken, begun>>
    BY <2>1
  <2> QED BY <2>3, <2>4, <2>5, <2>6, CountSame, Zenon
<1>36. ASSUME Up /\ RDead PROVE CountInv'
  BY <1>36 DEF RDead, CountInv, Lockstep, Wire, HeaderLast, Waiting, Queued, Matching,
     Matched, Sent, Held, Taken, Coming, LoginAnswer, WholeChunks, Up
<1>37. ASSUME Up /\ ChildMatch PROVE CountInv'
  <2>1. /\ UNCHANGED <<queue, begun, java, rpc, resultQueue, rsp, to_client, to_server,
                    sizes, globalStop, taken, asked, lockstep, spc>>
    BY <1>37 DEF ChildMatch
  <2>2. PICK j \in DOMAIN jobs :
          jobs' = RemoveAt(jobs, j) /\ answers' = Append(answers, file[jobs[j]])
    BY <1>37 DEF ChildMatch
  <2>3. Len(jobs') = Len(jobs) - 1
    BY <2>2, RemoveFacts DEF HeapType
  <2>4. Len(answers') = Len(answers) + 1
    BY <2>2 DEF HeapType
  <2>5. Coming' = Coming /\ LoginAnswer' = LoginAnswer
    BY <2>1 DEF Coming, LoginAnswer, HeaderLast, Wire
  <2>6. Waiting' = Waiting
    <3>1. Matching' = Matching - 1 /\ Matched' = Matched + 1 /\ UNCHANGED <<Queued, Sent, Held>>
      BY <2>1, <2>3, <2>4 DEF Queued, Matching, Matched, Sent, Held
    <3> QED BY <2>1, <3>1, Numbers DEF Waiting
  <2>7. Lockstep' => Lockstep
    BY <2>1 DEF Lockstep, WholeChunks
  <2> HIDE <1>37
  <2> QED BY <2>1, <2>5, <2>6, <2>7, Numbers, CountKept
<1>38. ASSUME Up /\ ChildSend PROVE CountInv'
  <2>1. /\ UNCHANGED <<queue, begun, java, rpc, resultQueue, rsp, to_server, jobs,
                    sizes, globalStop, taken, asked, lockstep, spc>>
    BY <1>38 DEF ChildSend
  <2>2. PICK a \in DOMAIN answers :
          answers' = RemoveAt(answers, a) /\ Back("result", answers[a])
    BY <1>38 DEF ChildSend
  <2>3. Len(answers') = Len(answers) - 1
    BY <2>2, RemoveFacts DEF HeapType
  <2>4. Len(to_client'["result"]) \in {Len(to_client["result"]), Len(to_client["result"]) + 1}
    <3>1. \/ to_client'["result"] = to_client["result"]
          \/ to_client'["result"] = Append(to_client["result"], answers[a])
      BY <2>2 DEF Back, SocketType, Socks
    <3> QED BY <3>1 DEF SocketType, Socks
  <2>5. Coming' = Coming /\ LoginAnswer' = LoginAnswer
    BY <2>1 DEF Coming, LoginAnswer, HeaderLast, Wire
  <2>6. Waiting' <= Waiting /\ Waiting' \in Int
    <3>1. Matched' = Matched - 1 /\ Sent' \in {Sent, Sent + 1} /\ UNCHANGED <<Queued, Matching, Held>>
      BY <2>1, <2>3, <2>4 DEF Queued, Matching, Matched, Sent, Held
    <3> QED BY <2>1, <3>1, Numbers DEF Waiting
  <2>7. Lockstep' => Lockstep
    BY <2>1 DEF Lockstep, WholeChunks
  <2> HIDE <1>38
  <2> QED BY <2>1, <2>5, <2>6, <2>7, Numbers, CountKept
<1>39. ASSUME NEW s \in Socks, Up /\ NoLogin(s) PROVE CountInv'
  BY <1>39, ZenonT(60) DEF NoLogin, CountInv, Lockstep, Wire, HeaderLast, Waiting, Queued, Matching,
     Matched, Sent, Held, Taken, Coming, LoginAnswer, WholeChunks, Gone, Up
<1> QED BY <1>1, <1>2, <1>3, <1>4, <1>5, <1>6, <1>7, <1>8, <1>9, <1>10, <1>11, <1>12,
           <1>13, <1>14, <1>15, <1>16, <1>17, <1>18, <1>19, <1>20, <1>21, <1>22, <1>23,
           <1>24, <1>25, <1>26, <1>27, <1>28, <1>29, <1>30, <1>31, <1>32, <1>33, <1>34,
           <1>35, <1>36, <1>37, <1>38, <1>39, NextSteps

(* It is the last one. *)
LEMMA OwnStep ==
  ASSUME CallerType, ClientType, SocketType, ServerType, HeapType, CallerInv, ResultInv,
         SocketInv, AnswerInv, StartInv, LifeInv, HeaderInv, WireInv, CountInv, OwnInv,
         Next
  PROVE  OwnInv'
<1> USE DEF caller, sems, cthreads, ends, cvars, net, transmit, heap, matching, svars
<1>1. ASSUME TConnect PROVE OwnInv'
  BY <1>1 DEF TConnect, OwnInv, Lockstep, WholeChunks, Connect, Runs
<1>2. ASSUME TLogin PROVE OwnInv'
  BY <1>2 DEF TLogin, OwnInv, Lockstep, WholeChunks, Heard, Hear, Runs
<1>3. ASSUME TAcquire PROVE OwnInv'
  BY <1>3 DEF TAcquire, OwnInv, Lockstep, WholeChunks, Runs
<1>4. ASSUME THeader PROVE OwnInv'
  BY <1>4 DEF THeader, OwnInv, Lockstep, WholeChunks, Put, Header, Runs
<1>5. ASSUME TOk PROVE OwnInv'
  BY <1>5 DEF TOk, OwnInv, Lockstep, WholeChunks, Heard, Hear, Runs
<1>6. ASSUME JChunk PROVE OwnInv'
  BY <1>6 DEF JChunk, OwnInv, Lockstep, WholeChunks, Put, Data, Runs
<1>7. ASSUME LChunk PROVE OwnInv'
  BY <1>7 DEF LChunk, OwnInv, Lockstep, WholeChunks, Put, Data, Runs
<1>8. ASSUME LUnlock PROVE OwnInv'
  BY <1>8 DEF LUnlock, OwnInv, Lockstep, WholeChunks, Runs
<1>9. ASSUME TRelease PROVE OwnInv'
  BY <1>9 DEF TRelease, OwnInv, Lockstep, WholeChunks, Runs
<1>10. ASSUME RConnect PROVE OwnInv'
  BY <1>10 DEF RConnect, OwnInv, Lockstep, WholeChunks, Connect, Runs
<1>11. ASSUME RLogin PROVE OwnInv'
  BY <1>11 DEF RLogin, OwnInv, Lockstep, WholeChunks, Heard, Hear, Runs
<1>12. ASSUME ROffer PROVE OwnInv'
  <2>1. SUFFICES ASSUME java PROVE OwnInv'
    BY <1>12 DEF ROffer, OwnInv, Lockstep
  <2>2. UNCHANGED <<queue, jobs, answers, asked, java, lockstep, sizes, globalStop, spc, frame,
                    file>>
        /\ rpc = "recv"
        /\ resultQueue' = Append(resultQueue, Head(to_client["result"]))
    BY <1>12, <2>1 DEF ROffer
  <2>3. /\ to_client'["result"] = Tail(to_client["result"]) /\ to_client["result"] # <<>>
        /\ to_client["result"] \in Seq(Names \cup {Ok})
    BY <1>12 DEF ROffer, Heard, Hear, SocketType, Socks
  <2>4. /\ Head(to_client["result"]) = to_client["result"][1] /\ 1 \in 1 .. Len(to_client["result"])
        /\ \A i \in 1 .. Len(Tail(to_client["result"])) :
             /\ i + 1 \in 1 .. Len(to_client["result"])
             /\ Tail(to_client["result"])[i] = to_client["result"][i + 1]
    BY <2>3, HeadFacts
  <2>5. to_client["result"][1] # Ok
    BY <2>2, <2>4 DEF AnswerInv
  <2>6. SUFFICES ASSUME Lockstep PROVE OwnInv'
    BY <2>2 DEF OwnInv, Lockstep, WholeChunks
  <2>7. Head(to_client["result"]) = asked /\ asked \in Names
    BY <2>4, <2>5, <2>6, FramesAssumption DEF OwnInv, CallerType, Names
  <2>8. \A i \in 1 .. Len(to_client'["result"]) : to_client'["result"][i] \in {Ok, asked}
    BY <2>3, <2>4, <2>6 DEF OwnInv
  <2>9. \A i \in 1 .. Len(resultQueue') : resultQueue'[i] = asked
    <3>1. \A i \in 1 .. Len(resultQueue) : resultQueue[i] = asked
      BY <2>6 DEF OwnInv
    <3> QED BY <2>2, <2>7, <3>1 DEF CallerType
  <2> HIDE <1>12
  <2> QED BY <2>2, <2>6, <2>8, <2>9 DEF OwnInv
<1>13. ASSUME RRelease PROVE OwnInv'
  BY <1>13 DEF RRelease, OwnInv, Lockstep, WholeChunks, Runs
<1>14. ASSUME ExitOnError PROVE OwnInv'
  BY <1>14 DEF ExitOnError, OwnInv, Lockstep, WholeChunks, Runs
<1>15. ASSUME SendImageReturns PROVE OwnInv'
  BY <1>15 DEF SendImageReturns, OwnInv, Lockstep, WholeChunks, Runs
<1>16. ASSUME GetResultReturns PROVE OwnInv'
  BY <1>16 DEF GetResultReturns, OwnInv, Lockstep, WholeChunks, Runs
<1>17. ASSUME Exit PROVE OwnInv'
  BY <1>17 DEF Exit, OwnInv, Lockstep, WholeChunks, Runs
<1>18. ASSUME SendImage PROVE OwnInv'
  <2>1. /\ UNCHANGED <<queue, jobs, answers, java, to_client, resultQueue, sizes, globalStop,
                       spc, taken, frame, file>>
        /\ asked' = asked + 1 /\ lockstep' = (lockstep /\ Len(taken) = asked)
        /\ java /\ user = "idle"
    BY <1>18 DEF SendImage, Idle
  <2>2. SUFFICES ASSUME Lockstep, Len(taken) = asked PROVE OwnInv'
    BY <2>1 DEF OwnInv, Lockstep, WholeChunks
  <2>3. Taken = asked /\ begun = asked
    BY <2>1, <2>2 DEF Taken, CallerInv
  <2>4. Waiting + Coming + Taken <= begun + LoginAnswer
    BY <2>2 DEF CountInv
  <2>5. Waiting + Coming <= LoginAnswer
    BY <2>3, <2>4, Numbers
  <2>6. LoginAnswer = 1 => Sent >= 1 /\ to_client["result"][1] = Ok
    <3>1. ASSUME LoginAnswer = 1 PROVE to_client["result"] # <<>> /\ to_client["result"][1] = Ok
      BY <3>1 DEF LoginAnswer, AnswerInv
    <3>2. to_client["result"] # <<>> => Sent >= 1
      BY HeadFacts DEF SocketType, Socks, Sent
    <3> QED BY <3>1, <3>2
  <2>7. /\ Queued = 0 /\ Matching = 0 /\ Matched = 0 /\ Held = 0 /\ Coming = 0
        /\ spc # "push" /\ Sent <= LoginAnswer
    <3> DEFINE p == IF spc = "push" THEN 1 ELSE 0
    <3>1. LoginAnswer = 1 => Sent >= 1
      BY <2>6
    <3>2. Waiting = Queued + Matching + Matched + Sent + Held + p
      BY DEF Waiting
    <3>3. p \in 0 .. 1 /\ (p = 0 => spc # "push")
      OBVIOUS
    <3> HIDE DEF p
    <3>4. /\ Queued \in Nat /\ Matching \in Nat /\ Matched \in Nat /\ Sent \in Nat
          /\ Held \in Nat /\ Coming \in 0 .. 2 /\ LoginAnswer \in 0 .. 1
      BY Numbers
    <3>5. /\ Queued = 0 /\ Matching = 0 /\ Matched = 0 /\ Held = 0 /\ Coming = 0
          /\ p = 0 /\ Sent <= LoginAnswer
      <4>1. CASE LoginAnswer = 0
        BY <2>5, <3>2, <3>3, <3>4, <4>1
      <4>2. CASE LoginAnswer = 1
        BY <2>5, <3>1, <3>2, <3>3, <3>4, <4>2
      <4> QED BY <3>4, <4>1, <4>2
    <3> QED BY <3>3, <3>5
  <2>8. spc \notin {"data", "save", "push"}
    BY <2>7 DEF Coming
  <2>9. queue = <<>> /\ jobs = <<>>
    BY <2>7 DEF Queued, Matching, HeapType
  <2>10. \A i \in 1 .. Len(to_client["result"]) : to_client["result"][i] \in {Ok, asked + 1}
    <3>1. ASSUME NEW i \in 1 .. Sent PROVE to_client["result"][i] = Ok
      BY <2>6, <2>7, <3>1, Numbers
    <3> QED BY <3>1 DEF Sent
  <2>11. Len(resultQueue) = 0 /\ Len(answers) = 0 /\ Len(jobs) = 0 /\ Len(queue) = 0
    BY <2>7 DEF Held, Matched, Matching, Queued
  <2> HIDE <1>18
  <2> QED BY <2>1, <2>8, <2>9, <2>10, <2>11 DEF OwnInv
<1>19. ASSUME GetResult PROVE OwnInv'
  BY <1>19 DEF GetResult, OwnInv, Lockstep, WholeChunks, Idle, Runs
<1>20. ASSUME Stop PROVE OwnInv'
  BY <1>20 DEF Stop, OwnInv, Lockstep, WholeChunks, Idle, Runs
<1>21. ASSUME LSpawn PROVE OwnInv'
  BY <1>21 DEF LSpawn, OwnInv, Lockstep, WholeChunks, Runs
<1>22. ASSUME LExit PROVE OwnInv'
  BY <1>22 DEF LExit, OwnInv, Lockstep, WholeChunks, Runs
<1>23. ASSUME NEW s \in Socks, Close(s) PROVE OwnInv'
  BY <1>23 DEF Close, OwnInv, Lockstep, WholeChunks, Runs
<1>24. ASSUME NEW s \in Socks, Tell(s) PROVE OwnInv'
  BY <1>24 DEF Tell, OwnInv, Lockstep, WholeChunks, Runs
<1>25. ASSUME Up /\ SAccept PROVE OwnInv'
  BY <1>25 DEF SAccept, OwnInv, Lockstep, WholeChunks, Arrived, Take, Back, Up
<1>26. ASSUME Up /\ SHeader PROVE OwnInv'
  <2>1. /\ Arrived("transmit") /\ Take("transmit") /\ spc = "header" /\ spc' = "data"
        /\ UNCHANGED <<queue, jobs, answers, java, resultQueue, sizes, globalStop, asked,
                       lockstep, file>>
        /\ Back("transmit", Ok)
    BY <1>26 DEF SHeader
  <2>2. to_client'["result"] = to_client["result"]
    BY <2>1, Taking, Answering
  <2>3. SUFFICES ASSUME Lockstep PROVE OwnInv'
    BY <2>1 DEF OwnInv, Lockstep, WholeChunks
  <2>4. /\ Len(Wire) \in Nat /\ Len(Wire) >= 1 /\ 1 \in 1 .. Len(Wire)
        /\ Head(to_server["transmit"]) = Wire[1] /\ open["transmit"] = "open"
    BY <2>1, Taking
  <2>5. Wire[1].kind = "header"
    BY <2>1, <2>3, <2>4 DEF WireInv, Lockstep
  <2>6. Wire[1].frame = begun /\ tpc = "ok"
    BY <2>3, <2>4, <2>5 DEF HeaderInv, Lockstep
  <2>7. begun = asked
    BY <2>3, <2>6 DEF CallerInv, InFrame, Lockstep, CallerType, ClientType
  <2>8. frame' = asked
    BY <1>26, <2>4, <2>5, <2>6, <2>7 DEF SHeader
  <2> HIDE <1>26
  <2> QED BY <2>1, <2>2, <2>3, <2>8 DEF OwnInv
<1>27. ASSUME Up /\ SHeaderFails PROVE OwnInv'
  BY <1>27 DEF SHeaderFails, OwnInv, Lockstep, WholeChunks, Gone, Signal, Undefined, Up
<1>28. ASSUME Up /\ SData PROVE OwnInv'
  BY <1>28 DEF SData, OwnInv, Lockstep, WholeChunks, Arrived, Take, Chunked, Up
<1>29. ASSUME Up /\ SDataFails PROVE OwnInv'
  BY <1>29 DEF SDataFails, OwnInv, Lockstep, WholeChunks, Gone, Signal, Undefined,
     Chunked, Up
<1>30. ASSUME Up /\ SSave PROVE OwnInv'
  <2>1. /\ spc = "save" /\ spc' \in {"push", "ended"}
        /\ UNCHANGED <<queue, jobs, answers, java, resultQueue, sizes, globalStop, asked,
                       lockstep, to_client, frame>>
    BY <1>30 DEF SSave
  <2>2. SUFFICES ASSUME Lockstep PROVE OwnInv'
    BY <2>1 DEF OwnInv, Lockstep, WholeChunks
  <2>3. ~torn
    <3>1. torn => globalStop
      BY DEF LifeInv, SocketInv, SocketType, Socks, CallerInv
    <3> QED BY <2>2, <3>1 DEF Lockstep
  <2>4. frame = asked /\ java
    BY <2>1, <2>2 DEF OwnInv, Lockstep
  <2>5. CASE file' = [file EXCEPT ![Name(frame)] = IF torn THEN Garbage ELSE frame]
    <3>1. 1 \in Names
      BY <2>1, FrameBegun
    <3>2. file'[1] = asked
      BY <2>3, <2>4, <2>5, <3>1 DEF Name, HeapType
    <3> QED BY <2>1, <2>2, <2>4, <3>2 DEF OwnInv
  <2>6. CASE file' = file /\ spc' = "ended"
    BY <2>1, <2>2, <2>6 DEF OwnInv
  <2> QED BY <1>30, <2>5, <2>6 DEF SSave
<1>31. ASSUME Up /\ SPush PROVE OwnInv'
  BY <1>31 DEF SPush, OwnInv, Lockstep, WholeChunks, Undefined, Name, Up
<1>32. ASSUME Up /\ SPost PROVE OwnInv'
  BY <1>32 DEF SPost, OwnInv, Lockstep, WholeChunks, Undefined, Up
<1>33. ASSUME Up /\ RAccept PROVE OwnInv'
  BY <1>33 DEF RAccept, OwnInv, Lockstep, WholeChunks, Arrived, Take, Back, Up
<1>34. ASSUME Up /\ RLeave PROVE OwnInv'
  BY <1>34 DEF RLeave, OwnInv, Lockstep, WholeChunks, Up
<1>35. ASSUME Up /\ RMatch PROVE OwnInv'
  BY <1>35 DEF RMatch, OwnInv, Lockstep, WholeChunks, Up
<1>36. ASSUME Up /\ RDead PROVE OwnInv'
  BY <1>36 DEF RDead, OwnInv, Lockstep, WholeChunks, Up
<1>37. ASSUME Up /\ ChildMatch PROVE OwnInv'
  <2>1. /\ UNCHANGED <<queue, java, resultQueue, sizes, globalStop, asked,
                       lockstep, to_client, frame, file, spc>>
    BY <1>37 DEF ChildMatch
  <2>2. PICK j \in DOMAIN jobs :
          jobs' = RemoveAt(jobs, j) /\ answers' = Append(answers, file[jobs[j]])
    BY <1>37 DEF ChildMatch
  <2>3. SUFFICES ASSUME Lockstep PROVE OwnInv'
    BY <2>1 DEF OwnInv, Lockstep, WholeChunks
  <2>4. /\ jobs \in Seq(Names) /\ j \in 1 .. Len(jobs) /\ jobs # <<>>
        /\ \A i \in 1 .. Len(jobs') : \E h \in 1 .. Len(jobs) : jobs'[i] = jobs[h]
    <3>1. jobs \in Seq(Names)
      BY DEF HeapType
    <3>2. j \in 1 .. Len(jobs) /\ jobs # <<>>
      BY <3>1
    <3>3. Fewer(jobs, RemoveAt(jobs, j))
      BY <3>1, FewerNames, Zenon
    <3>4. jobs' = RemoveAt(jobs, j)
      BY <2>2
    <3>5. Fewer(jobs, jobs')
      BY <3>3, <3>4, Zenon
    <3> QED BY <3>1, <3>2, <3>5, Zenon DEF Fewer
  <2>5. jobs[j] = 1 /\ file[1] = asked
    BY <2>3, <2>4 DEF OwnInv
  <2>6. \A i \in 1 .. Len(jobs') : jobs'[i] = 1
    BY <2>3, <2>4 DEF OwnInv
  <2>7. \A i \in 1 .. Len(answers') : answers'[i] = asked
    <3>1. \A i \in 1 .. Len(answers) : answers[i] = asked
      BY <2>3 DEF OwnInv
    <3> QED BY <2>2, <2>5, <3>1 DEF HeapType
  <2>8. file[1] = asked
    BY <2>5
  <2> HIDE <1>37
  <2> QED BY <2>1, <2>3, <2>6, <2>7, <2>8 DEF OwnInv
<1>38. ASSUME Up /\ ChildSend PROVE OwnInv'
  <2>1. /\ UNCHANGED <<queue, java, resultQueue, sizes, globalStop, asked, jobs,
                       lockstep, frame, file, spc>>
    BY <1>38 DEF ChildSend
  <2>2. PICK a \in DOMAIN answers :
          answers' = RemoveAt(answers, a) /\ Back("result", answers[a])
    BY <1>38 DEF ChildSend
  <2>3. SUFFICES ASSUME Lockstep PROVE OwnInv'
    BY <2>1 DEF OwnInv, Lockstep, WholeChunks
  <2>4. /\ answers \in Seq(Names) /\ a \in 1 .. Len(answers) /\ answers # <<>>
        /\ \A i \in 1 .. Len(answers') : \E h \in 1 .. Len(answers) : answers'[i] = answers[h]
    <3>1. answers \in Seq(Names)
      BY DEF HeapType
    <3>2. a \in 1 .. Len(answers) /\ answers # <<>>
      BY <3>1
    <3>3. Fewer(answers, RemoveAt(answers, a))
      BY <3>1, FewerNames, Zenon
    <3>4. answers' = RemoveAt(answers, a)
      BY <2>2
    <3>5. Fewer(answers, answers')
      BY <3>3, <3>4, Zenon
    <3> QED BY <3>1, <3>2, <3>5, Zenon DEF Fewer
  <2>5. answers[a] = asked
    BY <2>3, <2>4 DEF OwnInv
  <2>6. \A i \in 1 .. Len(answers') : answers'[i] = asked
    BY <2>3, <2>4 DEF OwnInv
  <2>7. \A i \in 1 .. Len(to_client'["result"]) : to_client'["result"][i] \in {Ok, asked}
    <3>1. \A i \in 1 .. Len(to_client["result"]) : to_client["result"][i] \in {Ok, asked}
      BY <2>3 DEF OwnInv
    <3>2. \/ to_client'["result"] = to_client["result"]
          \/ to_client'["result"] = Append(to_client["result"], asked)
      <4>1. to_client \in [Socks -> Seq(Names \cup {Ok})] /\ "result" \in Socks
        BY DEF SocketType, Socks
      <4>2. to_client' = IF open["result"] = "open"
                         THEN [to_client EXCEPT !["result"] = Append(@, asked)] ELSE to_client
        BY <2>2, <2>5 DEF Back
      <4>3. CASE open["result"] # "open"
        BY <4>2, <4>3, Zenon
      <4>4. CASE open["result"] = "open"
        <5>1. to_client' = [to_client EXCEPT !["result"] = Append(to_client["result"], asked)]
          BY <4>2, <4>4
        <5> QED BY <4>1, <5>1
      <4> QED BY <4>3, <4>4, Zenon
    <3>3. to_client["result"] \in Seq(Names \cup {Ok})
      BY DEF SocketType, Socks
    <3>4. asked \in Names \cup {Ok}
      BY <2>4, <2>5, ElementOf
    <3>5. CASE to_client'["result"] = Append(to_client["result"], asked)
      <4> DEFINE q == to_client["result"]
      <4>1. /\ Len(q) \in Nat /\ Len(Append(q, asked)) = Len(q) + 1
            /\ Append(q, asked)[Len(q) + 1] = asked
            /\ \A i \in 1 .. Len(q) : Append(q, asked)[i] = q[i]
        BY <3>3, <3>4, AppendFacts
      <4> QED BY <3>1, <3>5, <4>1
    <3> QED BY <3>1, <3>2, <3>5
  <2> HIDE <1>38
  <2> QED BY <2>1, <2>3, <2>6, <2>7 DEF OwnInv
<1>39. ASSUME NEW s \in Socks, Up /\ NoLogin(s) PROVE OwnInv'
  BY <1>39 DEF NoLogin, OwnInv, Lockstep, WholeChunks, Gone, Up
<1> QED BY <1>1, <1>2, <1>3, <1>4, <1>5, <1>6, <1>7, <1>8, <1>9, <1>10, <1>11, <1>12,
           <1>13, <1>14, <1>15, <1>16, <1>17, <1>18, <1>19, <1>20, <1>21, <1>22, <1>23,
           <1>24, <1>25, <1>26, <1>27, <1>28, <1>29, <1>30, <1>31, <1>32, <1>33, <1>34,
           <1>35, <1>36, <1>37, <1>38, <1>39, NextSteps

(* What a crash comes after. *)
LEMMA CrashesStep ==
  ASSUME ServerType, HeapType, SocketType, SocketInv, StartInv, LifeInv, TokenInv,
         HeaderInv, WireInv, CrashesOnly, Next
  PROVE  CrashesOnly'
<1> USE DEF caller, sems, cthreads, ends, cvars, net, transmit, heap, matching, svars
<1>1. ASSUME TConnect PROVE CrashesOnly'
  <2>1. UNCHANGED <<server, java, sizes, sem_match, rsp, torn, unsaved>>
    BY <1>1 DEF TConnect, RConnect, Connect
  <2>2. \A s \in Socks : open[s] = "closed" => open'[s] = "closed"
    BY <1>1 DEF TConnect, RConnect, Connect, SocketInv, SocketType, Socks
  <2> HIDE <1>1
  <2> QED BY <2>1, <2>2 DEF CrashesOnly, EarlyClose, WholeChunks, Socks
<1>2. ASSUME TLogin PROVE CrashesOnly'
  BY <1>2 DEF TLogin, CrashesOnly, EarlyClose, WholeChunks, Heard, Hear, Runs
<1>3. ASSUME TAcquire PROVE CrashesOnly'
  BY <1>3 DEF TAcquire, CrashesOnly, EarlyClose, WholeChunks, Runs
<1>4. ASSUME THeader PROVE CrashesOnly'
  BY <1>4 DEF THeader, CrashesOnly, EarlyClose, WholeChunks, Put, Header, Runs
<1>5. ASSUME TOk PROVE CrashesOnly'
  BY <1>5 DEF TOk, CrashesOnly, EarlyClose, WholeChunks, Heard, Hear, Runs
<1>6. ASSUME JChunk PROVE CrashesOnly'
  BY <1>6 DEF JChunk, CrashesOnly, EarlyClose, WholeChunks, Put, Data, Runs
<1>7. ASSUME LChunk PROVE CrashesOnly'
  BY <1>7 DEF LChunk, CrashesOnly, EarlyClose, WholeChunks, Put, Data, Runs
<1>8. ASSUME LUnlock PROVE CrashesOnly'
  BY <1>8 DEF LUnlock, CrashesOnly, EarlyClose, WholeChunks, Runs
<1>9. ASSUME TRelease PROVE CrashesOnly'
  BY <1>9 DEF TRelease, CrashesOnly, EarlyClose, WholeChunks, Runs
<1>10. ASSUME RConnect PROVE CrashesOnly'
  <2>1. UNCHANGED <<server, java, sizes, sem_match, rsp, torn, unsaved>>
    BY <1>10 DEF TConnect, RConnect, Connect
  <2>2. \A s \in Socks : open[s] = "closed" => open'[s] = "closed"
    BY <1>10 DEF TConnect, RConnect, Connect, SocketInv, SocketType, Socks
  <2> HIDE <1>10
  <2> QED BY <2>1, <2>2 DEF CrashesOnly, EarlyClose, WholeChunks, Socks
<1>11. ASSUME RLogin PROVE CrashesOnly'
  BY <1>11 DEF RLogin, CrashesOnly, EarlyClose, WholeChunks, Heard, Hear, Runs
<1>12. ASSUME ROffer PROVE CrashesOnly'
  BY <1>12 DEF ROffer, CrashesOnly, EarlyClose, WholeChunks, Heard, Hear, Runs
<1>13. ASSUME RRelease PROVE CrashesOnly'
  BY <1>13 DEF RRelease, CrashesOnly, EarlyClose, WholeChunks, Runs
<1>14. ASSUME ExitOnError PROVE CrashesOnly'
  BY <1>14 DEF ExitOnError, CrashesOnly, EarlyClose, WholeChunks, Runs
<1>15. ASSUME SendImageReturns PROVE CrashesOnly'
  BY <1>15 DEF SendImageReturns, CrashesOnly, EarlyClose, WholeChunks, Runs
<1>16. ASSUME GetResultReturns PROVE CrashesOnly'
  BY <1>16 DEF GetResultReturns, CrashesOnly, EarlyClose, WholeChunks, Runs
<1>17. ASSUME Exit PROVE CrashesOnly'
  BY <1>17 DEF Exit, CrashesOnly, EarlyClose, WholeChunks, Runs
<1>18. ASSUME SendImage PROVE CrashesOnly'
  BY <1>18 DEF SendImage, CrashesOnly, EarlyClose, WholeChunks, Idle, Runs
<1>19. ASSUME GetResult PROVE CrashesOnly'
  BY <1>19 DEF GetResult, CrashesOnly, EarlyClose, WholeChunks, Idle, Runs
<1>20. ASSUME Stop PROVE CrashesOnly'
  BY <1>20 DEF Stop, CrashesOnly, EarlyClose, WholeChunks, Idle, Runs
<1>21. ASSUME LSpawn PROVE CrashesOnly'
  BY <1>21 DEF LSpawn, CrashesOnly, EarlyClose, WholeChunks, Runs
<1>22. ASSUME LExit PROVE CrashesOnly'
  BY <1>22 DEF LExit, CrashesOnly, EarlyClose, WholeChunks, Runs
<1>23. ASSUME NEW s \in Socks, Close(s) PROVE CrashesOnly'
  BY <1>23 DEF Close, CrashesOnly, EarlyClose, WholeChunks, Runs
<1>24. ASSUME NEW s \in Socks, Tell(s) PROVE CrashesOnly'
  BY <1>24 DEF Tell, CrashesOnly, EarlyClose, WholeChunks, Runs
<1>25. ASSUME Up /\ SAccept PROVE CrashesOnly'
  BY <1>25 DEF SAccept, CrashesOnly, EarlyClose, WholeChunks, Arrived, Take, Back, Up
<1>26. ASSUME Up /\ SHeader PROVE CrashesOnly'
  <2>1. /\ Arrived("transmit") /\ Take("transmit") /\ spc = "header"
        /\ UNCHANGED <<java, sizes>> /\ server = "up"
    BY <1>26 DEF SHeader, Up
  <2>2. SUFFICES ASSUME ~WholeChunks PROVE server' = "up"
    BY <2>1 DEF CrashesOnly, WholeChunks
  <2>3. /\ Len(Wire) \in Nat /\ Len(Wire) >= 1 /\ 1 \in 1 .. Len(Wire)
        /\ Head(to_server["transmit"]) = Wire[1] /\ open["transmit"] = "open"
    BY <2>1, Taking
  <2>4. Wire[1].kind = "header"
    BY <2>1, <2>2, <2>3 DEF WireInv
  <2> QED BY <1>26, <2>1, <2>3, <2>4 DEF SHeader
<1>27. ASSUME Up /\ SHeaderFails PROVE CrashesOnly'
  <2>1. /\ spc = "header" /\ open["transmit"] = "closed" /\ server = "up"
        /\ UNCHANGED <<java, sizes, open, sem_match, torn, unsaved>>
    BY <1>27 DEF SHeaderFails, Gone, Up
  <2>2. CASE ~sem_match
    <3>1. EarlyClose'
      BY <2>1, <2>2 DEF EarlyClose
    <3> QED BY <3>1 DEF CrashesOnly
  <2>3. CASE sem_match /\ sem_live
    <3>1. server' = "up"
      BY <1>27, <2>1, <2>3 DEF SHeaderFails, Signal
    <3> QED BY <3>1 DEF CrashesOnly
  <2>4. CASE sem_match /\ ~sem_live
    <3>1. rsp = "ended"
      BY <2>4 DEF LifeInv, ServerType
    <3>2. torn \/ unsaved
      BY <2>1, <3>1 DEF TokenInv
    <3>3. torn' \/ unsaved'
      BY <2>1, <3>2
    <3> QED BY <3>3 DEF CrashesOnly
  <2> QED BY <2>2, <2>3, <2>4
<1>28. ASSUME Up /\ SData PROVE CrashesOnly'
  BY <1>28 DEF SData, CrashesOnly, EarlyClose, WholeChunks, Arrived, Take, Chunked, Up
<1>29. ASSUME Up /\ SDataFails PROVE CrashesOnly'
  BY <1>29 DEF SDataFails, CrashesOnly, EarlyClose, WholeChunks, Gone, Signal, Undefined,
     Chunked, Up
<1>30. ASSUME Up /\ SSave PROVE CrashesOnly'
  BY <1>30 DEF SSave, CrashesOnly, EarlyClose, WholeChunks, Name, Up
<1>31. ASSUME Up /\ SPush PROVE CrashesOnly'
  <2>1. /\ spc = "push" /\ server = "up" /\ UNCHANGED <<torn, unsaved>>
    BY <1>31 DEF SPush, Up
  <2>2. CASE queue_live
    <3>1. server' = "up"
      BY <1>31, <2>1, <2>2 DEF SPush
    <3> QED BY <3>1 DEF CrashesOnly
  <2>3. CASE ~queue_live
    <3>1. rsp = "ended" \/ unsaved
      BY <2>1, <2>3 DEF LifeInv
    <3>2. torn \/ unsaved
      BY <2>1, <3>1 DEF TokenInv
    <3>3. torn' \/ unsaved'
      BY <2>1, <3>2
    <3> QED BY <3>3 DEF CrashesOnly
  <2> QED BY <2>2, <2>3
<1>32. ASSUME Up /\ SPost PROVE CrashesOnly'
  <2>1. /\ spc = "post" /\ server = "up" /\ UNCHANGED <<torn, unsaved>>
    BY <1>32 DEF SPost, Up
  <2>2. CASE sem_live
    <3>1. server' = "up"
      BY <1>32, <2>1, <2>2 DEF SPost
    <3> QED BY <3>1 DEF CrashesOnly
  <2>3. CASE ~sem_live
    <3>1. sem_match
      BY <1>32, <2>3 DEF SPost
    <3>2. rsp = "ended"
      BY <2>3, <3>1 DEF LifeInv, ServerType
    <3>3. torn \/ unsaved
      BY <2>1, <3>2 DEF TokenInv
    <3>4. torn' \/ unsaved'
      BY <2>1, <3>3
    <3> QED BY <3>4 DEF CrashesOnly
  <2> QED BY <2>2, <2>3
<1>33. ASSUME Up /\ RAccept PROVE CrashesOnly'
  BY <1>33 DEF RAccept, CrashesOnly, EarlyClose, WholeChunks, Arrived, Take, Back, Up
<1>34. ASSUME Up /\ RLeave PROVE CrashesOnly'
  BY <1>34 DEF RLeave, CrashesOnly, EarlyClose, WholeChunks, Up
<1>35. ASSUME Up /\ RMatch PROVE CrashesOnly'
  BY <1>35 DEF RMatch, CrashesOnly, EarlyClose, WholeChunks, Up
<1>36. ASSUME Up /\ RDead PROVE CrashesOnly'
  <2>1. /\ rsp = "wait" /\ sem > 0 /\ ~queue_live /\ UNCHANGED unsaved
    BY <1>36 DEF RDead
  <2>2. sem_match
    BY <2>1 DEF LifeInv
  <2>3. spc # "none"
    BY <2>2 DEF LifeInv
  <2>4. unsaved
    BY <2>1, <2>3 DEF LifeInv
  <2>5. unsaved'
    BY <2>1, <2>4
  <2> QED BY <2>5 DEF CrashesOnly
<1>37. ASSUME Up /\ ChildMatch PROVE CrashesOnly'
  BY <1>37 DEF ChildMatch, CrashesOnly, EarlyClose, WholeChunks, Up
<1>38. ASSUME Up /\ ChildSend PROVE CrashesOnly'
  BY <1>38 DEF ChildSend, CrashesOnly, EarlyClose, WholeChunks, Back, Up
<1>39. ASSUME NEW s \in Socks, Up /\ NoLogin(s) PROVE CrashesOnly'
  <2>1. /\ open[s] = "closed" /\ UNCHANGED <<open, sem_match, rsp>>
        /\ IF s = "transmit" THEN spc = "none" ELSE rsp = "none"
    BY <1>39 DEF NoLogin, Gone
  <2>2. s = "transmit" => ~sem_match
    BY <2>1 DEF LifeInv
  <2>3. EarlyClose'
    <3>1. s = "transmit" \/ s = "result"
      BY DEF Socks
    <3> QED BY <2>1, <2>2, <3>1 DEF EarlyClose
  <2> QED BY <2>3 DEF CrashesOnly
<1> QED BY <1>1, <1>2, <1>3, <1>4, <1>5, <1>6, <1>7, <1>8, <1>9, <1>10, <1>11, <1>12,
           <1>13, <1>14, <1>15, <1>16, <1>17, <1>18, <1>19, <1>20, <1>21, <1>22, <1>23,
           <1>24, <1>25, <1>26, <1>27, <1>28, <1>29, <1>30, <1>31, <1>32, <1>33, <1>34,
           <1>35, <1>36, <1>37, <1>38, <1>39, NextSteps

(* The results taken. *)
LEMMA OwnResultStep ==
  ASSUME CallerType, ClientType, SocketType, ServerType, HeapType, CallerInv, ResultInv,
         AnswerInv, CountInv, OwnInv, OwnResult, Next
  PROVE  OwnResult'
<1> USE DEF caller, sems, cthreads, ends, cvars, net, transmit, heap, matching, svars
<1>1. ASSUME TConnect PROVE OwnResult'
  BY <1>1 DEF TConnect, OwnResult, WholeChunks, Connect, Runs
<1>2. ASSUME TLogin PROVE OwnResult'
  BY <1>2 DEF TLogin, OwnResult, WholeChunks, Heard, Hear, Runs
<1>3. ASSUME TAcquire PROVE OwnResult'
  BY <1>3 DEF TAcquire, OwnResult, WholeChunks, Runs
<1>4. ASSUME THeader PROVE OwnResult'
  BY <1>4 DEF THeader, OwnResult, WholeChunks, Put, Header, Runs
<1>5. ASSUME TOk PROVE OwnResult'
  BY <1>5 DEF TOk, OwnResult, WholeChunks, Heard, Hear, Runs
<1>6. ASSUME JChunk PROVE OwnResult'
  BY <1>6 DEF JChunk, OwnResult, WholeChunks, Put, Data, Runs
<1>7. ASSUME LChunk PROVE OwnResult'
  BY <1>7 DEF LChunk, OwnResult, WholeChunks, Put, Data, Runs
<1>8. ASSUME LUnlock PROVE OwnResult'
  BY <1>8 DEF LUnlock, OwnResult, WholeChunks, Runs
<1>9. ASSUME TRelease PROVE OwnResult'
  BY <1>9 DEF TRelease, OwnResult, WholeChunks, Runs
<1>10. ASSUME RConnect PROVE OwnResult'
  BY <1>10 DEF RConnect, OwnResult, WholeChunks, Connect, Runs
<1>11. ASSUME RLogin PROVE OwnResult'
  BY <1>11 DEF RLogin, OwnResult, WholeChunks, Heard, Hear, Runs
<1>12. ASSUME ROffer PROVE OwnResult'
  BY <1>12 DEF ROffer, OwnResult, WholeChunks, Heard, Hear, Runs
<1>13. ASSUME RRelease PROVE OwnResult'
  BY <1>13 DEF RRelease, OwnResult, WholeChunks, Runs
<1>14. ASSUME ExitOnError PROVE OwnResult'
  BY <1>14 DEF ExitOnError, OwnResult, WholeChunks, Runs
<1>15. ASSUME SendImageReturns PROVE OwnResult'
  BY <1>15 DEF SendImageReturns, OwnResult, WholeChunks, Runs
<1>16. ASSUME GetResultReturns PROVE OwnResult'
  <2>1. UNCHANGED <<java, lockstep, sizes>> /\ user = "getting"
        /\ taken' = Append(taken, Head(resultQueue))
    BY <1>16 DEF GetResultReturns
  <2>2. SUFFICES ASSUME java, lockstep, ~WholeChunks
                 PROVE  \A i \in DOMAIN taken' : taken'[i] = i
    BY <2>1 DEF OwnResult, WholeChunks
  <2>3. resultQueue # <<>>
    BY <1>16 DEF GetResultReturns, ResultInv, CallerInv, ClientType, CallerType
  <2>4. Lockstep /\ begun = asked
    BY <2>1, <2>2 DEF Lockstep, CallerInv
  <2>5. Head(resultQueue) = resultQueue[1] /\ 1 \in 1 .. Len(resultQueue) /\ Held >= 1
    BY <2>3, HeadFacts DEF CallerType, Held
  <2>6. Head(resultQueue) = asked
    BY <2>4, <2>5 DEF OwnInv
  <2>7. /\ Taken <= asked /\ asked <= Taken + 1
        /\ Waiting + Coming + Taken <= begun + LoginAnswer
    BY <2>4 DEF CountInv
  <2>8. LoginAnswer = 1 => Sent >= 1
    <3>1. ASSUME LoginAnswer = 1 PROVE Sent >= 1
      <4>1. to_client["result"] # <<>>
        BY <3>1 DEF LoginAnswer, AnswerInv
      <4> QED BY <4>1, HeadFacts DEF SocketType, Socks, Sent
    <3> QED BY <3>1
  <2>9. LoginAnswer < Waiting
    <3>1. Held >= 1
      BY <2>5
    <3> QED BY <2>8, <3>1, Numbers DEF Waiting
  <2>10. asked = Taken + 1
    BY <2>4, <2>7, <2>9, Numbers
  <2>11. \A i \in 1 .. Len(taken) : taken[i] = i
    BY <2>2 DEF OwnResult, CallerType
  <2>12. asked = Len(taken) + 1 /\ Head(resultQueue) \in Names
    BY <2>5, <2>10 DEF Taken, CallerType
  <2>13. /\ Len(Append(taken, Head(resultQueue))) = Len(taken) + 1 /\ Len(taken) \in Nat
         /\ Append(taken, Head(resultQueue)) \in Seq(Names)
         /\ Append(taken, Head(resultQueue))[Len(taken) + 1] = Head(resultQueue)
         /\ \A i \in 1 .. Len(taken) : Append(taken, Head(resultQueue))[i] = taken[i]
    BY <2>12, AppendFacts DEF CallerType
  <2>14. DOMAIN taken' = 1 .. Len(taken) + 1
    BY <2>1, <2>13
  <2> QED BY <2>1, <2>6, <2>11, <2>12, <2>13, <2>14
<1>17. ASSUME Exit PROVE OwnResult'
  BY <1>17 DEF Exit, OwnResult, WholeChunks, Runs
<1>18. ASSUME SendImage PROVE OwnResult'
  BY <1>18 DEF SendImage, OwnResult, WholeChunks, Idle, Runs
<1>19. ASSUME GetResult PROVE OwnResult'
  BY <1>19 DEF GetResult, OwnResult, WholeChunks, Idle, Runs
<1>20. ASSUME Stop PROVE OwnResult'
  BY <1>20 DEF Stop, OwnResult, WholeChunks, Idle, Runs
<1>21. ASSUME LSpawn PROVE OwnResult'
  BY <1>21 DEF LSpawn, OwnResult, WholeChunks, Runs
<1>22. ASSUME LExit PROVE OwnResult'
  BY <1>22 DEF LExit, OwnResult, WholeChunks, Runs
<1>23. ASSUME NEW s \in Socks, Close(s) PROVE OwnResult'
  BY <1>23 DEF Close, OwnResult, WholeChunks, Runs
<1>24. ASSUME NEW s \in Socks, Tell(s) PROVE OwnResult'
  BY <1>24 DEF Tell, OwnResult, WholeChunks, Runs
<1>25. ASSUME Up /\ SAccept PROVE OwnResult'
  BY <1>25 DEF SAccept, OwnResult, WholeChunks, Arrived, Take, Back, Up
<1>26. ASSUME Up /\ SHeader PROVE OwnResult'
  BY <1>26 DEF SHeader, OwnResult, WholeChunks, Arrived, Take, Back, Up
<1>27. ASSUME Up /\ SHeaderFails PROVE OwnResult'
  BY <1>27 DEF SHeaderFails, OwnResult, WholeChunks, Gone, Signal, Undefined, Up
<1>28. ASSUME Up /\ SData PROVE OwnResult'
  BY <1>28 DEF SData, OwnResult, WholeChunks, Arrived, Take, Chunked, Up
<1>29. ASSUME Up /\ SDataFails PROVE OwnResult'
  BY <1>29 DEF SDataFails, OwnResult, WholeChunks, Gone, Signal, Undefined, Chunked, Up
<1>30. ASSUME Up /\ SSave PROVE OwnResult'
  BY <1>30 DEF SSave, OwnResult, WholeChunks, Name, Up
<1>31. ASSUME Up /\ SPush PROVE OwnResult'
  BY <1>31 DEF SPush, OwnResult, WholeChunks, Undefined, Name, Up
<1>32. ASSUME Up /\ SPost PROVE OwnResult'
  BY <1>32 DEF SPost, OwnResult, WholeChunks, Undefined, Up
<1>33. ASSUME Up /\ RAccept PROVE OwnResult'
  BY <1>33 DEF RAccept, OwnResult, WholeChunks, Arrived, Take, Back, Up
<1>34. ASSUME Up /\ RLeave PROVE OwnResult'
  BY <1>34 DEF RLeave, OwnResult, WholeChunks, Up
<1>35. ASSUME Up /\ RMatch PROVE OwnResult'
  BY <1>35 DEF RMatch, OwnResult, WholeChunks, Up
<1>36. ASSUME Up /\ RDead PROVE OwnResult'
  BY <1>36 DEF RDead, OwnResult, WholeChunks, Up
<1>37. ASSUME Up /\ ChildMatch PROVE OwnResult'
  BY <1>37 DEF ChildMatch, OwnResult, WholeChunks, Up
<1>38. ASSUME Up /\ ChildSend PROVE OwnResult'
  BY <1>38 DEF ChildSend, OwnResult, WholeChunks, Back, Up
<1>39. ASSUME NEW s \in Socks, Up /\ NoLogin(s) PROVE OwnResult'
  BY <1>39 DEF NoLogin, OwnResult, WholeChunks, Gone, Up
<1> QED BY <1>1, <1>2, <1>3, <1>4, <1>5, <1>6, <1>7, <1>8, <1>9, <1>10, <1>11, <1>12,
           <1>13, <1>14, <1>15, <1>16, <1>17, <1>18, <1>19, <1>20, <1>21, <1>22, <1>23,
           <1>24, <1>25, <1>26, <1>27, <1>28, <1>29, <1>30, <1>31, <1>32, <1>33, <1>34,
           <1>35, <1>36, <1>37, <1>38, <1>39, NextSteps

-----------------------------------------------------------------------------
(* All parts together. *)

\* The initial states are in the invariant.
LEMMA InitIInv ==
  ASSUME Init
  PROVE  IInv
<1>1. CallerType /\ ClientType /\ ServerType /\ HeapType
  <2>1. 0 \in Names /\ Garbage = 0
    BY FramesAssumption DEF Names, Garbage
  <2>2. [n \in Names |-> Garbage] \in [Names -> Names]
    BY <2>1
  <2> QED BY <2>1, <2>2, FramesAssumption DEF Init, CallerType, ClientType, ServerType, HeapType
<1>2. SocketType
  BY DEF Init, SocketType, Socks
<1>3. Wire = <<>> /\ to_client["result"] = <<>> /\ to_client["transmit"] = <<>>
      /\ open["transmit"] = "none" /\ open["result"] = "none"
  BY DEF Init, Wire, Socks
<1>4. SizeType /\ HeaderInv
  BY <1>3 DEF SizeType, HeaderInv
<1>5. CallerInv
  BY DEF Init, CallerInv, InFrame
<1>6. ResultInv
  BY DEF Init, ResultInv
<1>7. SocketInv
  BY DEF Init, SocketInv, Socks
<1>8. AnswerInv
  BY <1>3 DEF Init, AnswerInv
<1>9. StartInv
  BY <1>3 DEF Init, StartInv
<1>10. LifeInv /\ UserInv
  BY DEF Init, LifeInv, UserInv
<1>11. TokenInv
  BY DEF Init, TokenInv
<1>12. RemainInv /\ StepInv /\ WireInv
  BY DEF Init, RemainInv, StepInv, WireInv
<1>13. CountInv
  <2>1. ~HeaderLast
    BY <1>3 DEF HeaderLast
  <2>2. /\ Queued = 0 /\ Matching = 0 /\ Matched = 0 /\ Sent = 0 /\ Held = 0 /\ Taken = 0
    BY <1>3 DEF Init, Queued, Matching, Matched, Sent, Held, Taken
  <2>3. Waiting = 0 /\ Coming = 0 /\ LoginAnswer = 0 /\ begun = 0 /\ asked = 0
    BY <2>1, <2>2 DEF Init, Waiting, Coming, LoginAnswer
  <2> QED BY <2>2, <2>3 DEF CountInv
<1>14. OwnInv
  BY <1>3 DEF Init, OwnInv
<1>15. CrashesOnly /\ OwnResult
  BY DEF Init, CrashesOnly, OwnResult
<1> QED BY <1>1, <1>2, <1>4, <1>5, <1>6, <1>7, <1>8, <1>9, <1>10, <1>11, <1>12, <1>13, <1>14,
           <1>15 DEF IInv

\* Every action keeps every part of the invariant.
LEMMA StepIInv ==
  ASSUME IInv, Next
  PROVE  IInv'
<1> USE DEF IInv
<1>1. CallerType' /\ ClientType' /\ SocketType' /\ ServerType' /\ SizeType' /\ HeapType'
  BY CallerTypeStep, ClientTypeStep, SocketTypeStep, ServerTypeStep, SizeTypeStep, HeapTypeStep
<1>2. CallerInv' /\ ResultInv' /\ SocketInv' /\ AnswerInv'
  BY CallerStep, ResultStep, SocketStep, AnswerStep
<1>3. StartInv' /\ LifeInv' /\ UserInv' /\ TokenInv'
  BY StartStep, LifeStep, UserStep, TokenStep
<1>4. RemainInv' /\ HeaderInv' /\ StepInv' /\ WireInv'
  BY RemainStep, HeaderStep, StepStep, WireStep
<1>5. CountInv' /\ OwnInv'
  BY <1>1, CountStep, OwnStep
<1>6. CrashesOnly' /\ OwnResult'
  BY CrashesStep, OwnResultStep
<1> QED BY <1>1, <1>2, <1>3, <1>4, <1>5, <1>6

\* A step that changes nothing keeps the invariant.
LEMMA StutterIInv ==
  ASSUME IInv, UNCHANGED vars
  PROVE  IInv'
<1> USE DEF caller, sems, cthreads, ends, cvars, net, transmit, heap, matching, svars, vars
<1>1. CallerType' /\ ClientType' /\ SocketType' /\ ServerType' /\ SizeType' /\ HeapType'
  BY DEF IInv, CallerType, ClientType, SocketType, ServerType, SizeType, HeapType, Wire
<1>2. CallerInv' /\ ResultInv' /\ SocketInv' /\ AnswerInv'
  BY DEF IInv, CallerInv, ResultInv, SocketInv, AnswerInv, InFrame
<1>3. StartInv' /\ LifeInv' /\ UserInv' /\ TokenInv'
  BY DEF IInv, StartInv, LifeInv, UserInv, TokenInv, Wire
<1>4. WholeChunks' = WholeChunks /\ Wire' = Wire /\ HeaderLast' = HeaderLast
      /\ DataCount' = DataCount /\ Lockstep' = Lockstep
  BY DEF WholeChunks, Wire, HeaderLast, DataCount, Lockstep
<1>5. Sending' = Sending /\ Complete' = Complete
  BY <1>4 DEF Sending, Complete
<1>6. RemainInv' /\ HeaderInv' /\ StepInv' /\ WireInv'
  BY <1>4, <1>5 DEF IInv, RemainInv, HeaderInv, StepInv, WireInv
<1>7. Waiting' = Waiting /\ Coming' = Coming /\ LoginAnswer' = LoginAnswer /\ Taken' = Taken
  BY <1>4 DEF Waiting, Queued, Matching, Matched, Sent, Held, Taken, Coming, LoginAnswer
<1>8. CountInv' /\ OwnInv'
  BY <1>4, <1>7 DEF IInv, CountInv, OwnInv
<1>9. CrashesOnly' /\ OwnResult'
  BY <1>4 DEF IInv, CrashesOnly, OwnResult, EarlyClose
<1> QED BY <1>1, <1>2, <1>3, <1>6, <1>8, <1>9 DEF IInv

(* Every reachable state satisfies the inductive invariant. *)
THEOREM Invariance == Spec => []IInv
<1>1. Init => IInv
  BY InitIInv
<1>2. IInv /\ [Next]_vars => IInv'
  BY StepIInv, StutterIInv
<1> QED BY <1>1, <1>2, PTL DEF Spec

(* Every variable has its type; no permit of sendEndSem is left over, and    *)
(* resultSem never counts more results than resultQueue holds.               *)
THEOREM TypeCorrect == Spec => []TypeOK
<1>1. ASSUME IInv PROVE TypeOK
  <2>1. begun \in 0 .. asked /\ sendStartSem \in 0 .. MaxFrames + 1 /\ sendEndSem \in 0 .. 1
    BY <1>1, FramesAssumption DEF IInv, CallerType, ClientType, CallerInv, InFrame
  <2>2. resultSem \in 0 .. Len(resultQueue)
    BY <1>1 DEF IInv, CallerType, ClientType, CallerInv, ResultInv
  <2>3. /\ java \in BOOLEAN /\ program \in {"run", "exited"}
        /\ user \in {"idle", "sending", "getting", "stopping"}
        /\ globalStop \in BOOLEAN /\ lockstep \in BOOLEAN
        /\ asked \in 0 .. MaxFrames /\ imgSize \in Sizes \cup {0}
        /\ resultQueue \in Seq(Names) /\ taken \in Seq(Names)
    BY <1>1 DEF IInv, CallerType
  <2>4. /\ tpc \in {"connect", "login", "wait", "header", "ok", "chunks", "release", "ended"}
        /\ remain \in Nat /\ rpc \in {"connect", "login", "recv", "signal", "ended"}
        /\ sizes \subseteq Sizes
    BY <1>1 DEF IInv, ClientType
  <2>5. SocketType /\ ServerType /\ HeapType /\ user_map \in 0 .. 2
    BY <1>1 DEF IInv, UserInv
  <2> QED BY <2>1, <2>2, <2>3, <2>4, <2>5 DEF TypeOK, SocketType, ServerType, HeapType
<1> QED BY <1>1, Invariance, PTL

(* The server crashes only after a Java frame of whole chunks, after a close *)
(* before or within a frame, or after a file that did not open.              *)
THEOREM CrashesOnlyHolds == Spec => []CrashesOnly
<1>1. IInv => CrashesOnly
  BY DEF IInv
<1> QED BY <1>1, Invariance, PTL

(* A caller who takes every result before it sends the next image gets the   *)
(* result of that image.                                                     *)
THEOREM OwnResultTaken == Spec => []OwnResult
<1>1. IInv => OwnResult
  BY DEF IInv
<1> QED BY <1>1, Invariance, PTL

=============================================================================
