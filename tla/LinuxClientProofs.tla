-------------------------- MODULE LinuxClientProofs --------------------------
(* Proofs about LinuxClient: what is on the connection goes with what the    *)
(* child that has sendLock has done, and with what the server has read.      *)
EXTENDS LinuxClient, SequenceTheorems, TLAPS

Units == [kind : {"header", "data"}, by : Frames, size : Nat, blank : BOOLEAN]

\* TypeOK, in parts.
DisplayType ==
  /\ test \in BOOLEAN /\ client \in {"up", "exited"} /\ global_stop \in BOOLEAN
  /\ dpc \in {"connect", "login", "loop", "cleared", "spawn", "draw", "done"}
  /\ index \in 0 .. MaxFrames /\ trans_info \in 0 .. MaxFrames
  /\ sockfd \in {"none", "open", "closed"}

PStates == Exchange \cup {"none", "stat", "lock", "done"}

ChildType ==
  /\ pc \in [Frames -> PStates]
  /\ stated \in [Frames -> 0 .. MaxFrames] /\ opened \in [Frames -> 0 .. MaxFrames]
  /\ sent \in [Frames -> Nat] /\ round \in [Frames -> 0 .. SizePerTime]
  /\ sendLock \in 0 .. MaxFrames /\ torn \in BOOLEAN

DrawnType ==
  /\ rpc \in {"connect", "login", "loop", "recv", "title", "coord", "flag", "done"}
  /\ counter \in 1 .. SizePerTime /\ drawResult \in BOOLEAN
  /\ fresh \in 0 .. MaxResults /\ title \in 0 .. MaxResults /\ coord \in 0 .. MaxResults
  /\ results \in 0 .. MaxResults /\ rlink \in Seq(0 .. MaxResults)

ServerType ==
  /\ spc \in {"header", "data", "ended", "gone"}
  /\ file_size \in Int /\ offset \in Nat /\ owner \in 0 .. MaxFrames
  /\ from \subseteq Frames
  /\ to_server \in Seq(Units) /\ to_client \in Seq({"ok"})

\* What a child has in hand.
ChildInv ==
  \A k \in Frames :
    /\ pc[k] \notin {"none", "stat"} => stated[k] \in Frames
    /\ pc[k] \in {"data", "answer"} => opened[k] \in Frames
    /\ pc[k] = "data" => sent[k] <= SizeOf[opened[k]]
    /\ pc[k] # "done" => round[k] < SizePerTime

\* The name in trans_info is of the frame that was started last or comes next.
NameInv ==
  /\ dpc \in {"cleared", "spawn"} => index < MaxFrames
  /\ IF dpc = "spawn" THEN trans_info = index + 1 ELSE trans_info \in {0, index}
  /\ \A k \in Frames :
       /\ pc[k] # "none" => k <= index
       /\ stated[k] <= index + (IF dpc = "spawn" THEN 1 ELSE 0)

\* The lock is with the one child in its exchange.
LockInv == \A k \in Frames : pc[k] \in Exchange <=> sendLock = k

\* The strings, the coordinates and the flag are of one result.
DrawnInv ==
  /\ drawResult => title = coord /\ title # 0 /\ rpc \notin {"title", "coord", "flag"}
  /\ rpc \in {"title", "coord", "flag"} => fresh # 0
  /\ rpc \in {"coord", "flag"} => title = fresh
  /\ rpc = "flag" => coord = fresh

\* Until the client closes.
Open == sockfd # "closed"
EndInv ==
  /\ dpc # "done" => Open
  /\ spc = "ended" => ~Open \/ client = "exited"

\* While the server reads the data of a frame, the connection has only data of
\* its child, and the child cannot get past the answer to it.
ReadInv ==
  spc = "data" =>
    IF owner = 0 THEN file_size = -1 /\ torn
    ELSE /\ from \subseteq {owner}
         /\ \A i \in 1 .. Len(to_server) :
              to_server[i].kind = "data" /\ to_server[i].by = owner
         /\ Open => /\ sendLock = owner
                    /\ \/ pc[owner] = "ack" /\ Len(to_client) = 1 /\ to_server = <<>>
                       \/ pc[owner] = "open" /\ to_client = <<>> /\ to_server = <<>>
                       \/ pc[owner] \in {"data", "answer"} /\ to_client = <<>>

\* While it waits for a header, the connection has one as its last at most, and
\* an answer is for a child that has sent its data.
HeaderInv ==
  spc = "header" =>
    /\ \A i \in 1 .. Len(to_server) :
         to_server[i].kind = "header" =>
           /\ i = Len(to_server)
           /\ Open => /\ sendLock = to_server[i].by /\ pc[sendLock] = "ack"
                      /\ to_server[i].size = SizeOf[stated[sendLock]]
    /\ Open => /\ \A k \in Frames : pc[k] # "open"
               /\ \/ to_client = <<>>
                  \/ /\ Len(to_client) = 1 /\ sendLock # 0
                     /\ pc[sendLock] \in {"data", "answer"}

\* As long as no name changed under a child, what it sends is what it announced.
SizeInv ==
  ~torn =>
    /\ spc = "data" =>
         /\ offset + Len(to_server) <= file_size
         /\ Open => /\ pc[owner] \in {"ack", "open"} =>
                         offset = 0 /\ file_size = SizeOf[stated[owner]]
                    /\ pc[owner] = "data" =>
                         offset + Len(to_server) + (SizeOf[opened[owner]] - sent[owner])
                           <= file_size
    /\ spc = "header" =>
         /\ \A i \in 1 .. Len(to_server) : to_server[i].kind = "header"
         /\ Open => \A k \in Frames : pc[k] = "data" => sent[k] = SizeOf[opened[k]]

IInv ==
  /\ DisplayType /\ ChildType /\ DrawnType /\ ServerType
  /\ ChildInv /\ NameInv /\ LockInv /\ DrawnInv /\ EndInv
  /\ ReadInv /\ HeaderInv /\ SizeInv
  /\ FramesNotMixed /\ AnswersInStep /\ NeverAnOlderFrame

-----------------------------------------------------------------------------
(* The steps of Next, one disjunct each. *)
LEMMA NextSteps ==
  ASSUME Next
  PROVE  \/ /\ client = "up"
            /\ \/ DConnect \/ DLogin \/ DName \/ DSpawn \/ DDraw \/ DTurn \/ DClose
               \/ RConnect \/ RLogin \/ RLoop \/ RRecv \/ RParse \/ REnd
               \/ \E k \in Frames :
                    \/ CStat(k) \/ CLock(k) \/ CHeader(k) \/ CAck(k) \/ COpen(k)
                    \/ CData(k) \/ CAnswer(k)
         \/ SHeader \/ SData \/ SEnd \/ SResult \/ SFail
BY DEF Next, ClientStep, Display, Child, Results, Server

(* What each step does to the connections. *)
LEMMA HeadFacts ==
  ASSUME NEW S, NEW q \in Seq(S), q # <<>>
  PROVE  /\ Len(q) \in Nat /\ Len(q) >= 1 /\ q[1] \in S /\ Head(q) = q[1]
         /\ Tail(q) \in Seq(S) /\ Len(Tail(q)) = Len(q) - 1
         /\ \A i \in 1 .. Len(Tail(q)) : i + 1 \in 1 .. Len(q) /\ Tail(q)[i] = q[i + 1]
         /\ Len(q) = 1 => Tail(q) = <<>>
<1>1. /\ Len(q) \in Nat /\ Len(q) >= 1 /\ q[1] \in S /\ Head(q) = q[1]
      /\ Tail(q) \in Seq(S) /\ Len(Tail(q)) = Len(q) - 1
  OBVIOUS
<1>2. \A i \in 1 .. Len(Tail(q)) : i + 1 \in 1 .. Len(q) /\ Tail(q)[i] = q[i + 1]
  BY <1>1, HeadTailProperties
<1>3. Len(q) = 1 => Tail(q) = <<>>
  <2>1. ASSUME Len(q) = 1 PROVE Tail(q) = <<>>
    <3>1. Len(Tail(q)) = 0
      BY <1>1, <2>1
    <3> QED BY <1>1, <3>1, EmptySeq
  <2> QED BY <2>1
<1> QED BY <1>1, <1>2, <1>3

\* An appended sequence is one longer, with the new element last.
LEMMA AppendFacts ==
  ASSUME NEW S, NEW q \in Seq(S), NEW e \in S
  PROVE  /\ Append(q, e) \in Seq(S) /\ Len(q) \in Nat
         /\ Len(Append(q, e)) = Len(q) + 1 /\ Append(q, e)[Len(q) + 1] = e
         /\ \A i \in 1 .. Len(q) : Append(q, e)[i] = q[i]
OBVIOUS

\* A sequence without its first n elements is the rest of it.
LEMMA DropFacts ==
  ASSUME NEW S, NEW q \in Seq(S), NEW n \in 0 .. Len(q)
  PROVE  /\ SubSeq(q, n + 1, Len(q)) \in Seq(S)
         /\ Len(SubSeq(q, n + 1, Len(q))) = Len(q) - n
         /\ \A i \in 1 .. Len(q) - n :
              n + i \in 1 .. Len(q) /\ SubSeq(q, n + 1, Len(q))[i] = q[n + i]
         /\ n = Len(q) => SubSeq(q, n + 1, Len(q)) = <<>>
<1>1. Len(q) \in Nat /\ n \in Int /\ n + 1 \in Int
  OBVIOUS
<1>2. \A i \in n + 1 .. Len(q) : q[i] \in S
  BY <1>1
<1>3. /\ SubSeq(q, n + 1, Len(q)) \in Seq(S)
      /\ Len(SubSeq(q, n + 1, Len(q))) = IF n + 1 <= Len(q) THEN Len(q) - (n + 1) + 1 ELSE 0
      /\ \A i \in 1 .. Len(q) - (n + 1) + 1 : SubSeq(q, n + 1, Len(q))[i] = q[n + 1 + i - 1]
  BY <1>1, <1>2, SubSeqProperties
<1> QED BY <1>1, <1>3

\* Behind n more of an element a sequence is as it was, and then has n of it.
LEMMA RepeatFacts ==
  ASSUME NEW S, NEW q \in Seq(S), NEW n \in Nat, NEW e \in S
  PROVE  /\ q \o [i \in 1 .. n |-> e] \in Seq(S)
         /\ Len(q) \in Nat /\ Len(q \o [i \in 1 .. n |-> e]) = Len(q) + n
         /\ \A i \in 1 .. Len(q) : (q \o [j \in 1 .. n |-> e])[i] = q[i]
         /\ \A i \in Len(q) + 1 .. Len(q) + n : (q \o [j \in 1 .. n |-> e])[i] = e
<1> DEFINE es == [i \in 1 .. n |-> e]
<1>1. es \in Seq(S) /\ Len(es) = n /\ \A i \in 1 .. n : es[i] = e
  OBVIOUS
<1> HIDE DEF es
<1>2. /\ q \o es \in Seq(S) /\ Len(q) \in Nat /\ Len(q \o es) = Len(q) + n
      /\ \A i \in 1 .. Len(q) + n :
           (q \o es)[i] = IF i <= Len(q) THEN q[i] ELSE es[i - Len(q)]
  <2>1. /\ q \o es \in Seq(S) /\ Len(q \o es) = Len(q) + Len(es)
        /\ \A i \in 1 .. Len(q) + Len(es) :
             (q \o es)[i] = IF i <= Len(q) THEN q[i] ELSE es[i - Len(q)]
    BY <1>1, ConcatProperties, Zenon
  <2> QED BY <1>1, <2>1
<1>3. \A i \in 1 .. Len(q) : (q \o es)[i] = q[i]
  BY <1>2
<1>4. ASSUME NEW i \in Len(q) + 1 .. Len(q) + n PROVE (q \o es)[i] = e
  <2>1. i - Len(q) \in 1 .. n /\ i \in 1 .. Len(q) + n /\ ~(i <= Len(q))
    BY <1>2
  <2> QED BY <1>1, <1>2, <2>1
<1> QED BY <1>2, <1>3, <1>4 DEF es

(* A turn of the sending loop. *)
LEMMA SendFacts ==
  ASSUME ServerType, ChildType, ChildInv, NEW k \in Frames, CData(k),
         to_server' # to_server
  PROVE  /\ pc[k] = "data" /\ Open /\ UNCHANGED <<pc, to_client>> /\ spc # "gone"
         /\ to_server' \in Seq(Units) /\ Len(to_server) \in Nat
         /\ \E n \in 1 .. Block :
              /\ n <= SizeOf[opened[k]] - sent[k] /\ sent' = [sent EXCEPT ![k] = @ + n]
              /\ Len(to_server') = Len(to_server) + n
              /\ \A i \in 1 .. Len(to_server) : to_server'[i] = to_server[i]
              /\ \A i \in Len(to_server) + 1 .. Len(to_server) + n :
                   /\ to_server'[i].kind = "data" /\ to_server'[i].by = k
                   /\ to_server'[i].blank = FALSE
<1> DEFINE rest == SizeOf[opened[k]] - sent[k]
           n == Least(rest, Block)
           unit == [kind |-> "data", by |-> k, size |-> 1, blank |-> FALSE]
<1>1. /\ pc[k] = "data" /\ rest > 0 /\ sockfd = "open" /\ spc # "gone"
      /\ to_server' = to_server \o [i \in 1 .. n |-> unit]
      /\ sent' = [sent EXCEPT ![k] = @ + n]
      /\ UNCHANGED <<pc, to_client>>
  BY DEF CData, ServerGone
<1>2. rest \in Int
  <2>1. SizeOf[opened[k]] \in Nat /\ sent[k] \in Nat
    BY <1>1, SizesAssumption DEF ChildType, ChildInv
  <2> QED BY <2>1
<1>3. n \in 1 .. Block /\ n <= rest /\ n \in Nat
  <2>1. rest > 0 /\ n = IF rest < Block THEN rest ELSE Block
    BY <1>1 DEF Least
  <2> HIDE DEF n, rest
  <2> QED BY <1>2, <2>1, SMTT(30) DEF Block
<1>4. unit \in Units /\ unit.kind = "data" /\ unit.by = k /\ unit.blank = FALSE
  BY DEF Units
<1> HIDE DEF unit, n, rest
<1>5. /\ to_server' \in Seq(Units) /\ Len(to_server) \in Nat
      /\ Len(to_server') = Len(to_server) + n
      /\ \A i \in 1 .. Len(to_server) : to_server'[i] = to_server[i]
      /\ \A i \in Len(to_server) + 1 .. Len(to_server) + n : to_server'[i] = unit
  BY <1>1, <1>3, <1>4, RepeatFacts DEF ServerType
<1> QED BY <1>1, <1>3, <1>4, <1>5 DEF Open, rest

(* The file names that a child may find. *)
LEMMA NameFacts ==
  ASSUME DisplayType, NEW f \in FileName
  PROVE  f \in 0 .. MaxFrames /\ (f # 0 => f \in Frames /\ f = trans_info)
BY BoundsAssumption DEF DisplayType, FileName, Frames

\* The numbers of frames are those up to MaxFrames without 0.
LEMMA FrameFacts ==
  /\ 0 \notin Frames /\ Frames \subseteq 0 .. MaxFrames /\ Frames \subseteq Nat
  /\ \A k \in 0 .. MaxFrames : k # 0 => k \in Frames
BY BoundsAssumption DEF Frames

(* One recv() of the server takes n units. *)
TakeOf(n) ==
  /\ spc = "data" /\ n \in 1 .. Block
  /\ to_server' \in Seq(Units) /\ Len(to_server) \in Nat
  /\ Len(to_server') = Len(to_server) - n
  /\ \A i \in 1 .. Len(to_server') :
       n + i \in 1 .. Len(to_server) /\ to_server'[i] = to_server[n + i]
  /\ offset' \in Nat
  /\ to_server[1].kind # "header" => offset' = offset + n
  /\ from' = from \cup {to_server[i].by : i \in 1 .. n} /\ from' \subseteq Frames
  /\ \/ offset' = file_size /\ spc' = "header" /\ to_client' = Append(to_client, "ok")
        /\ saved' = saved \cup {[by |-> owner, from |-> from', whole |-> TRUE]}
     \/ offset' # file_size /\ UNCHANGED <<spc, saved, to_client>>
  /\ UNCHANGED <<file_size, owner>>

\* The server takes what has arrived, up to a full buffer.
LEMMA TakeFacts ==
  ASSUME ServerType, SData
  PROVE  /\ \E n \in 1 .. Len(to_server) : TakeOf(n)
         /\ UNCHANGED <<process, display, child, drawn, rwire>>
<1>1. PICK n \in 1 .. Least(Len(to_server), Block) :
        LET units == SubSeq(to_server, 1, n)
            length == IF units[1].kind = "header" THEN Block ELSE n
        IN /\ to_server' = SubSeq(to_server, n + 1, Len(to_server))
           /\ offset' = offset + length
           /\ from' = from \cup {units[i].by : i \in 1 .. n}
  BY DEF SData
<1>2. Len(to_server) \in Nat /\ n \in 1 .. Len(to_server) /\ n \in 1 .. Block
  BY DEF ServerType, Least, Block
<1>3. \A i \in 1 .. n : SubSeq(to_server, 1, n)[i] = to_server[i] /\ to_server[i] \in Units
  BY <1>2 DEF ServerType
<1>4. {SubSeq(to_server, 1, n)[i].by : i \in 1 .. n} = {to_server[i].by : i \in 1 .. n}
  BY <1>3
<1>5. {to_server[i].by : i \in 1 .. n} \subseteq Frames
  BY <1>3 DEF Units
<1>6. /\ to_server' \in Seq(Units) /\ Len(to_server') = Len(to_server) - n
      /\ \A i \in 1 .. Len(to_server') :
           n + i \in 1 .. Len(to_server) /\ to_server'[i] = to_server[n + i]
  <2>1. to_server \in Seq(Units) /\ n \in 0 .. Len(to_server)
    BY <1>2 DEF ServerType
  <2>2. to_server' = SubSeq(to_server, n + 1, Len(to_server))
    BY <1>1
  <2>3. /\ SubSeq(to_server, n + 1, Len(to_server)) \in Seq(Units)
        /\ Len(SubSeq(to_server, n + 1, Len(to_server))) = Len(to_server) - n
        /\ \A i \in 1 .. Len(to_server) - n :
             /\ n + i \in 1 .. Len(to_server)
             /\ SubSeq(to_server, n + 1, Len(to_server))[i] = to_server[n + i]
    <3>1. Len(to_server) \in Nat
      BY <2>1
    <3> QED BY <2>1, <3>1, DropFacts, SMTT(30)
  <2>4. \A i \in 1 .. Len(to_server) - n :
          n + i \in 1 .. Len(to_server) /\ to_server'[i] = to_server[n + i]
    BY <2>2, <2>3, Zenon
  <2>5. to_server' \in Seq(Units) /\ Len(to_server') = Len(to_server) - n
    BY <2>2, <2>3, Zenon
  <2> QED BY <2>4, <2>5, Zenon
<1>7. offset' \in Nat /\ (to_server[1].kind # "header" => offset' = offset + n)
  BY <1>1, <1>2, <1>3, SMTT(30) DEF ServerType, Block
<1>8. /\ from' = from \cup {to_server[i].by : i \in 1 .. n} /\ from' \subseteq Frames
  BY <1>1, <1>4, <1>5 DEF ServerType
<1>9. /\ spc = "data" /\ UNCHANGED <<process, display, child, drawn, rwire, file_size, owner>>
      /\ \/ offset' = file_size /\ spc' = "header" /\ to_client' = Append(to_client, "ok")
           /\ saved' = saved \cup {[by |-> owner, from |-> from', whole |-> TRUE]}
         \/ offset' # file_size /\ UNCHANGED <<spc, saved, to_client>>
  BY DEF SData, Save
<1> QED BY <1>2, <1>6, <1>7, <1>8, <1>9 DEF TakeOf

(* A child leaves the sending loop without another unit. *)
LEMMA SendLonger ==
  ASSUME ServerType, ChildType, ChildInv, NEW k \in Frames, CData(k),
         to_server' = to_server
  PROVE  /\ pc[k] = "data" /\ sent' = sent /\ pc' = [pc EXCEPT ![k] = "answer"]
         /\ UNCHANGED to_client
<1> DEFINE rest == SizeOf[opened[k]] - sent[k]
           n == Least(rest, Block)
           unit == [kind |-> "data", by |-> k, size |-> 1, blank |-> FALSE]
<1>1. ASSUME rest > 0, to_server' = to_server \o [i \in 1 .. n |-> unit], pc[k] = "data"
      PROVE FALSE
  <2>1. rest \in Int
    <3>1. SizeOf[opened[k]] \in Nat /\ sent[k] \in Nat
      BY <1>1, SizesAssumption DEF ChildType, ChildInv
    <3> QED BY <3>1
  <2>2. n \in Nat /\ n > 0 /\ unit \in Units
    <3>1. unit \in Units
      BY SMTT(60) DEF Units
    <3>2. rest > 0 /\ n = IF rest < Block THEN rest ELSE Block
      BY <1>1 DEF Least
    <3> HIDE DEF n, rest, unit
    <3> QED BY <2>1, <3>1, <3>2, SMTT(60) DEF Block
  <2> HIDE DEF n, unit, rest
  <2>3. Len(to_server') = Len(to_server) + n /\ Len(to_server) \in Nat
    BY <1>1, <2>2, RepeatFacts DEF ServerType
  <2> QED BY <2>2, <2>3
<1> QED BY <1>1 DEF CData, Goto

\* One answer is a sequence of length one.
LEMMA OkFacts == Len(<<>>) = 0 /\ Len(Append(<<>>, "ok")) = 1
OBVIOUS

\* Of answers that are none or one there is at most one.
LEMMA OneAnswer ==
  ASSUME NEW q, q = <<>> \/ q = Append(<<>>, "ok")
  PROVE  Len(q) <= 1
<1>1. CASE q = <<>>
  BY <1>1
<1>2. CASE q = Append(<<>>, "ok")
  BY <1>2
<1> QED BY <1>1, <1>2

(* Types are kept. *)
LEMMA DisplayTypeStep ==
  ASSUME DisplayType, NameInv, Next
  PROVE  DisplayType'
<1> USE BoundsAssumption DEF process, display, child, drawn, wire, rwire, server, Exit, Goto
<1>1. ASSUME DConnect PROVE DisplayType'
  BY <1>1 DEF DConnect, DisplayType, NameInv
<1>2. ASSUME DLogin PROVE DisplayType'
  BY <1>2 DEF DLogin, DisplayType, NameInv
<1>3. ASSUME DName PROVE DisplayType'
  BY <1>3 DEF DName, DisplayType, NameInv
<1>4. ASSUME DSpawn PROVE DisplayType'
  BY <1>4 DEF DSpawn, DisplayType, NameInv
<1>5. ASSUME DDraw PROVE DisplayType'
  BY <1>5 DEF DDraw, DisplayType, NameInv
<1>6. ASSUME DTurn PROVE DisplayType'
  BY <1>6 DEF DTurn, DisplayType, NameInv
<1>7. ASSUME DClose PROVE DisplayType'
  BY <1>7 DEF DClose, DisplayType, NameInv
<1>8. ASSUME RConnect PROVE DisplayType'
  BY <1>8 DEF RConnect, DisplayType, NameInv
<1>9. ASSUME RLogin PROVE DisplayType'
  BY <1>9 DEF RLogin, DisplayType, NameInv
<1>10. ASSUME RLoop PROVE DisplayType'
  BY <1>10 DEF RLoop, DisplayType, NameInv
<1>11. ASSUME RRecv PROVE DisplayType'
  BY <1>11 DEF RRecv, DisplayType, NameInv
<1>12. ASSUME RParse PROVE DisplayType'
  BY <1>12 DEF RParse, DisplayType, NameInv
<1>13. ASSUME REnd PROVE DisplayType'
  BY <1>13 DEF REnd, DisplayType, NameInv
<1>14. ASSUME NEW k \in Frames, CStat(k) PROVE DisplayType'
  BY <1>14 DEF CStat, DisplayType, NameInv, FileName
<1>15. ASSUME NEW k \in Frames, CLock(k) PROVE DisplayType'
  BY <1>15 DEF CLock, DisplayType, NameInv
<1>16. ASSUME NEW k \in Frames, CHeader(k) PROVE DisplayType'
  BY <1>16 DEF CHeader, DisplayType, NameInv, Header, FileName
<1>17. ASSUME NEW k \in Frames, CAck(k) PROVE DisplayType'
  BY <1>17 DEF CAck, DisplayType, NameInv, Answered
<1>18. ASSUME NEW k \in Frames, COpen(k) PROVE DisplayType'
  BY <1>18 DEF COpen, DisplayType, NameInv, FileName
<1>19. ASSUME NEW k \in Frames, CData(k) PROVE DisplayType'
  BY <1>19 DEF CData, DisplayType, NameInv, Least, Block
<1>20. ASSUME NEW k \in Frames, CAnswer(k) PROVE DisplayType'
  BY <1>20 DEF CAnswer, DisplayType, NameInv, Answered
<1>21. ASSUME SHeader PROVE DisplayType'
  BY <1>21 DEF SHeader, DisplayType, NameInv
<1>22. ASSUME SData PROVE DisplayType'
  BY <1>22 DEF SData, DisplayType, NameInv, Save
<1>23. ASSUME SEnd PROVE DisplayType'
  BY <1>23 DEF SEnd, DisplayType, NameInv, Save
<1>24. ASSUME SResult PROVE DisplayType'
  BY <1>24 DEF SResult, DisplayType, NameInv
<1>25. ASSUME SFail PROVE DisplayType'
  BY <1>25 DEF SFail, DisplayType, NameInv
<1> QED BY <1>1, <1>2, <1>3, <1>4, <1>5, <1>6, <1>7, <1>8, <1>9, <1>10, <1>11, <1>12, <1>13, <1>14, <1>15, <1>16, <1>17, <1>18, <1>19, <1>20, <1>21, <1>22, <1>23, <1>24, <1>25, NextSteps

(* The types of the children. *)
LEMMA ChildTypeStep ==
  ASSUME DisplayType, ChildType, ServerType, ChildInv, NameInv, Next
  PROVE  ChildType'
<1> USE BoundsAssumption DEF process, display, child, drawn, wire, rwire, server, Exit, Goto
<1>1. ASSUME DConnect PROVE ChildType'
  BY <1>1 DEF DConnect, ChildType
<1>2. ASSUME DLogin PROVE ChildType'
  BY <1>2 DEF DLogin, ChildType
<1>3. ASSUME DName PROVE ChildType'
  BY <1>3 DEF DName, ChildType
<1>4. ASSUME DSpawn PROVE ChildType'
  <2>1. pc' = [pc EXCEPT ![index + 1] = "stat"]
        /\ UNCHANGED <<stated, opened, sent, round, sendLock, torn>>
    BY <1>4 DEF DSpawn
  <2> QED BY <2>1 DEF ChildType, PStates
<1>5. ASSUME DDraw PROVE ChildType'
  BY <1>5 DEF DDraw, ChildType
<1>6. ASSUME DTurn PROVE ChildType'
  BY <1>6 DEF DTurn, ChildType
<1>7. ASSUME DClose PROVE ChildType'
  BY <1>7 DEF DClose, ChildType
<1>8. ASSUME RConnect PROVE ChildType'
  BY <1>8 DEF RConnect, ChildType
<1>9. ASSUME RLogin PROVE ChildType'
  BY <1>9 DEF RLogin, ChildType
<1>10. ASSUME RLoop PROVE ChildType'
  BY <1>10 DEF RLoop, ChildType
<1>11. ASSUME RRecv PROVE ChildType'
  BY <1>11 DEF RRecv, ChildType
<1>12. ASSUME RParse PROVE ChildType'
  BY <1>12 DEF RParse, ChildType
<1>13. ASSUME REnd PROVE ChildType'
  BY <1>13 DEF REnd, ChildType
<1>14. ASSUME NEW k \in Frames, CStat(k) PROVE ChildType'
  <2>1. /\ pc' = pc \/ pc' = [pc EXCEPT ![k] = "lock"]
        /\ stated' = stated \/ \E f \in 0 .. MaxFrames : stated' = [stated EXCEPT ![k] = f]
    BY <1>14, NameFacts DEF CStat
  <2>2. UNCHANGED <<opened, sent, round, sendLock, torn>>
    BY <1>14 DEF CStat
  <2> QED BY <2>1, <2>2, FrameFacts DEF ChildType, PStates, Exchange
<1>15. ASSUME NEW k \in Frames, CLock(k) PROVE ChildType'
  <2>1. pc' = [pc EXCEPT ![k] = "header"] /\ sendLock' = k
    BY <1>15 DEF CLock
  <2>2. UNCHANGED <<stated, opened, sent, round, torn>>
    BY <1>15 DEF CLock
  <2> QED BY <2>1, <2>2, FrameFacts DEF ChildType, PStates, Exchange
<1>16. ASSUME NEW k \in Frames, CHeader(k) PROVE ChildType'
  <2>1. /\ pc' = pc \/ pc' = [pc EXCEPT ![k] = "ack"]
        /\ \E f \in FileName : torn' = (torn \/ f = 0)
    BY <1>16 DEF CHeader
  <2>2. UNCHANGED <<stated, opened, sent, round, sendLock>>
    BY <1>16 DEF CHeader
  <2> QED BY <2>1, <2>2, FrameFacts DEF ChildType, PStates, Exchange
<1>17. ASSUME NEW k \in Frames, CAck(k) PROVE ChildType'
  <2>1. pc' = pc \/ pc' = [pc EXCEPT ![k] = "open"]
    BY <1>17 DEF CAck
  <2>2. UNCHANGED <<stated, opened, sent, round, sendLock, torn>>
    BY <1>17 DEF CAck
  <2> QED BY <2>1, <2>2, FrameFacts DEF ChildType, PStates, Exchange
<1>18. ASSUME NEW k \in Frames, COpen(k) PROVE ChildType'
  <2>1. PICK f \in FileName :
           \/ UNCHANGED <<pc, opened, sent, torn>>
           \/ /\ f # 0 /\ opened' = [opened EXCEPT ![k] = f] /\ pc' = [pc EXCEPT ![k] = "data"]
              /\ sent' = [sent EXCEPT ![k] = 0]
              /\ torn' = (torn \/ SizeOf[f] # SizeOf[stated[k]])
    BY <1>18 DEF COpen
  <2>2. UNCHANGED <<stated, round, sendLock>>
    BY <1>18 DEF COpen
  <2>3. f \in 0 .. MaxFrames
    BY NameFacts
  <2>4. pc' \in [Frames -> PStates] /\ sent' \in [Frames -> Nat]
    BY <2>1 DEF ChildType, PStates, Exchange
  <2>5. opened' \in [Frames -> 0 .. MaxFrames]
    BY <2>1, <2>3 DEF ChildType
  <2>6. torn' \in BOOLEAN
    BY <2>1, Zenon DEF ChildType
  <2> QED BY <2>2, <2>4, <2>5, <2>6 DEF ChildType
<1>19. ASSUME NEW k \in Frames, CData(k) PROVE ChildType'
  <2>1. UNCHANGED <<stated, opened, round, sendLock, torn>>
    BY <1>19 DEF CData
  <2>2. CASE to_server' # to_server
    <3>1. pc' = pc /\ \E n \in 1 .. Block : sent' = [sent EXCEPT ![k] = @ + n]
      BY <1>19, <2>2, SendFacts, ZenonT(60)
    <3> QED BY <2>1, <3>1 DEF ChildType, Block
  <2>3. CASE to_server' = to_server
    <3>1. sent' = sent /\ pc' = [pc EXCEPT ![k] = "answer"]
      BY <1>19, <2>3, SendLonger
    <3> QED BY <2>1, <3>1 DEF ChildType, PStates, Exchange
  <2> QED BY <2>2, <2>3
<1>20. ASSUME NEW k \in Frames, CAnswer(k) PROVE ChildType'
  <2>1. /\ pc' = [pc EXCEPT ![k] = "stat"] \/ pc' = [pc EXCEPT ![k] = "done"]
        /\ sendLock' = 0 /\ round' = [round EXCEPT ![k] = @ + 1]
        /\ UNCHANGED <<stated, opened, sent, torn>>
    BY <1>20 DEF CAnswer
  <2>2. round[k] \in 0 .. SizePerTime /\ round[k] < SizePerTime
    BY <1>20 DEF CAnswer, ChildType, ChildInv
  <2>3. round[k] + 1 \in 0 .. SizePerTime
    BY <2>2, BoundsAssumption
  <2>4. pc' \in [Frames -> PStates] /\ round' \in [Frames -> 0 .. SizePerTime]
    BY <2>1, <2>3 DEF ChildType, PStates
  <2> QED BY <2>1, <2>4, FrameFacts, BoundsAssumption DEF ChildType
<1>21. ASSUME SHeader PROVE ChildType'
  BY <1>21 DEF SHeader, ChildType
<1>22. ASSUME SData PROVE ChildType'
  BY <1>22 DEF SData, ChildType, Save
<1>23. ASSUME SEnd PROVE ChildType'
  BY <1>23 DEF SEnd, ChildType, Save
<1>24. ASSUME SResult PROVE ChildType'
  BY <1>24 DEF SResult, ChildType
<1>25. ASSUME SFail PROVE ChildType'
  BY <1>25 DEF SFail, ChildType
<1> QED BY <1>1, <1>2, <1>3, <1>4, <1>5, <1>6, <1>7, <1>8, <1>9, <1>10, <1>11, <1>12, <1>13, <1>14, <1>15, <1>16, <1>17, <1>18, <1>19, <1>20, <1>21, <1>22, <1>23, <1>24, <1>25, NextSteps

(* The types of the drawn result. *)
LEMMA DrawnTypeStep ==
  ASSUME DrawnType, Next
  PROVE  DrawnType'
<1> USE BoundsAssumption DEF process, display, child, drawn, wire, rwire, server, Exit, Goto
<1>1. ASSUME DConnect PROVE DrawnType'
  BY <1>1 DEF DConnect, DrawnType
<1>2. ASSUME DLogin PROVE DrawnType'
  BY <1>2 DEF DLogin, DrawnType
<1>3. ASSUME DName PROVE DrawnType'
  BY <1>3 DEF DName, DrawnType
<1>4. ASSUME DSpawn PROVE DrawnType'
  BY <1>4 DEF DSpawn, DrawnType
<1>5. ASSUME DDraw PROVE DrawnType'
  BY <1>5 DEF DDraw, DrawnType
<1>6. ASSUME DTurn PROVE DrawnType'
  BY <1>6 DEF DTurn, DrawnType
<1>7. ASSUME DClose PROVE DrawnType'
  BY <1>7 DEF DClose, DrawnType
<1>8. ASSUME RConnect PROVE DrawnType'
  BY <1>8 DEF RConnect, DrawnType
<1>9. ASSUME RLogin PROVE DrawnType'
  BY <1>9 DEF RLogin, DrawnType
<1>10. ASSUME RLoop PROVE DrawnType'
  BY <1>10 DEF RLoop, DrawnType
<1>11. ASSUME RRecv PROVE DrawnType'
  <2>1. PICK n \in 1 .. Len(rlink) :
           /\ rlink' = SubSeq(rlink, n + 1, Len(rlink))
           /\ IF counter - 1 > 0
              THEN /\ counter' = counter - 1 /\ rpc' = "loop"
                   /\ UNCHANGED <<drawResult, fresh>>
              ELSE /\ counter' = SizePerTime /\ drawResult' = FALSE
                   /\ fresh' = Head(rlink)
                   /\ rpc' = IF Head(rlink) = 0 THEN "loop" ELSE "title"
    BY <1>11 DEF RRecv
  <2>2. rlink # <<>> /\ n \in 0 .. Len(rlink)
    BY <2>1 DEF DrawnType
  <2>3. rlink' \in Seq(0 .. MaxResults) /\ Head(rlink) \in 0 .. MaxResults
    <3>1. SubSeq(rlink, n + 1, Len(rlink)) \in Seq(0 .. MaxResults)
      BY <2>2, DropFacts DEF DrawnType
    <3>2. Head(rlink) \in 0 .. MaxResults
      BY <2>2 DEF DrawnType
    <3> QED BY <2>1, <3>1, <3>2
  <2>4. UNCHANGED <<title, coord, results>>
    BY <1>11 DEF RRecv
  <2>5. counter' \in 1 .. SizePerTime
    BY <2>1, BoundsAssumption, SMTT(30) DEF DrawnType
  <2>6. /\ rpc' \in {"loop", "title"} /\ drawResult' \in BOOLEAN
        /\ fresh' \in 0 .. MaxResults
    BY <2>1, <2>3 DEF DrawnType
  <2> QED BY <2>3, <2>4, <2>5, <2>6 DEF DrawnType
<1>12. ASSUME RParse PROVE DrawnType'
  BY <1>12 DEF RParse, DrawnType
<1>13. ASSUME REnd PROVE DrawnType'
  BY <1>13 DEF REnd, DrawnType
<1>14. ASSUME NEW k \in Frames, CStat(k) PROVE DrawnType'
  BY <1>14 DEF CStat, DrawnType, FileName
<1>15. ASSUME NEW k \in Frames, CLock(k) PROVE DrawnType'
  BY <1>15 DEF CLock, DrawnType
<1>16. ASSUME NEW k \in Frames, CHeader(k) PROVE DrawnType'
  BY <1>16 DEF CHeader, DrawnType, Header, FileName
<1>17. ASSUME NEW k \in Frames, CAck(k) PROVE DrawnType'
  BY <1>17 DEF CAck, DrawnType, Answered
<1>18. ASSUME NEW k \in Frames, COpen(k) PROVE DrawnType'
  BY <1>18 DEF COpen, DrawnType, FileName
<1>19. ASSUME NEW k \in Frames, CData(k) PROVE DrawnType'
  BY <1>19 DEF CData, DrawnType, Least, Block
<1>20. ASSUME NEW k \in Frames, CAnswer(k) PROVE DrawnType'
  BY <1>20 DEF CAnswer, DrawnType, Answered
<1>21. ASSUME SHeader PROVE DrawnType'
  BY <1>21 DEF SHeader, DrawnType
<1>22. ASSUME SData PROVE DrawnType'
  BY <1>22 DEF SData, DrawnType, Save
<1>23. ASSUME SEnd PROVE DrawnType'
  BY <1>23 DEF SEnd, DrawnType, Save
<1>24. ASSUME SResult PROVE DrawnType'
  BY <1>24 DEF SResult, DrawnType
<1>25. ASSUME SFail PROVE DrawnType'
  BY <1>25 DEF SFail, DrawnType
<1> QED BY <1>1, <1>2, <1>3, <1>4, <1>5, <1>6, <1>7, <1>8, <1>9, <1>10, <1>11, <1>12, <1>13, <1>14, <1>15, <1>16, <1>17, <1>18, <1>19, <1>20, <1>21, <1>22, <1>23, <1>24, <1>25, NextSteps

(* The types of the server and of what is on its way. *)
LEMMA ServerTypeStep ==
  ASSUME DisplayType, ChildType, ServerType, ChildInv, Next
  PROVE  ServerType'
<1> USE BoundsAssumption DEF process, display, child, drawn, wire, rwire, server, Exit, Goto
<1>1. ASSUME DConnect PROVE ServerType'
  BY <1>1 DEF DConnect, ServerType
<1>2. ASSUME DLogin PROVE ServerType'
  BY <1>2 DEF DLogin, ServerType
<1>3. ASSUME DName PROVE ServerType'
  BY <1>3 DEF DName, ServerType
<1>4. ASSUME DSpawn PROVE ServerType'
  BY <1>4 DEF DSpawn, ServerType
<1>5. ASSUME DDraw PROVE ServerType'
  BY <1>5 DEF DDraw, ServerType
<1>6. ASSUME DTurn PROVE ServerType'
  BY <1>6 DEF DTurn, ServerType
<1>7. ASSUME DClose PROVE ServerType'
  BY <1>7 DEF DClose, ServerType
<1>8. ASSUME RConnect PROVE ServerType'
  BY <1>8 DEF RConnect, ServerType
<1>9. ASSUME RLogin PROVE ServerType'
  BY <1>9 DEF RLogin, ServerType
<1>10. ASSUME RLoop PROVE ServerType'
  BY <1>10 DEF RLoop, ServerType
<1>11. ASSUME RRecv PROVE ServerType'
  BY <1>11 DEF RRecv, ServerType
<1>12. ASSUME RParse PROVE ServerType'
  BY <1>12 DEF RParse, ServerType
<1>13. ASSUME REnd PROVE ServerType'
  BY <1>13 DEF REnd, ServerType
<1>14. ASSUME NEW k \in Frames, CStat(k) PROVE ServerType'
  BY <1>14 DEF CStat, ServerType, FileName
<1>15. ASSUME NEW k \in Frames, CLock(k) PROVE ServerType'
  BY <1>15 DEF CLock, ServerType
<1>16. ASSUME NEW k \in Frames, CHeader(k) PROVE ServerType'
  <2>1. \A f \in FileName : Header(k, f) \in Units
    <3>1. stated[k] \in Frames
      BY <1>16 DEF CHeader, ChildInv
    <3> QED BY <3>1, SizesAssumption DEF Header, Units
  <2>2. to_server' = to_server \/ \E f \in FileName : to_server' = Append(to_server, Header(k, f))
    BY <1>16 DEF CHeader
  <2>3. UNCHANGED <<to_client, server>>
    BY <1>16 DEF CHeader
  <2> QED BY <2>1, <2>2, <2>3, AppendFacts, SMTT(60) DEF ServerType
<1>17. ASSUME NEW k \in Frames, CAck(k) PROVE ServerType'
  BY <1>17, SMTT(60) DEF CAck, ServerType, Answered
<1>18. ASSUME NEW k \in Frames, COpen(k) PROVE ServerType'
  BY <1>18 DEF COpen, ServerType, FileName
<1>19. ASSUME NEW k \in Frames, CData(k) PROVE ServerType'
  <2>1. to_server' \in Seq(Units)
    BY <1>19, SendFacts DEF ServerType
  <2> QED BY <1>19, <2>1 DEF CData, ServerType
<1>20. ASSUME NEW k \in Frames, CAnswer(k) PROVE ServerType'
  BY <1>20, SMTT(60) DEF CAnswer, ServerType, Answered
<1>21. ASSUME SHeader PROVE ServerType'
  <2>1. to_server # <<>> /\ to_server' = Tail(to_server)
    BY <1>21 DEF SHeader
  <2>2. /\ Head(to_server) \in Units /\ to_server' \in Seq(Units)
        /\ Head(to_server).size \in Int /\ Head(to_server).by \in 0 .. MaxFrames
    <3>1. Head(to_server) \in Units /\ to_server' \in Seq(Units)
      BY <2>1 DEF ServerType
    <3>2. Head(to_server).size \in Nat /\ Head(to_server).by \in Frames
      BY <3>1 DEF Units
    <3>3. Head(to_server).size \in Int
      BY <3>2
    <3>4. Head(to_server).by \in 0 .. MaxFrames
      BY <3>2, FrameFacts
    <3> QED BY <3>1, <3>3, <3>4
  <2>3. Append(to_client, "ok") \in Seq({"ok"})
    BY DEF ServerType
  <2>4. /\ spc' \in {"data", "gone"} /\ offset' = 0 /\ from' = {}
        /\ file_size' \in {file_size, -1, Head(to_server).size}
        /\ owner' \in {owner, 0, Head(to_server).by}
        /\ to_client' \in {to_client, Append(to_client, "ok")}
    BY <1>21 DEF SHeader
  <2>5. file_size' \in Int /\ owner' \in 0 .. MaxFrames
    BY <2>2, <2>4, BoundsAssumption DEF ServerType
  <2> QED BY <2>2, <2>3, <2>4, <2>5 DEF ServerType
<1>22. ASSUME SData PROVE ServerType'
  <2>1. PICK n \in 1 .. Len(to_server) : TakeOf(n)
    BY <1>22, TakeFacts
  <2>2. Append(to_client, "ok") \in Seq({"ok"})
    BY DEF ServerType
  <2> QED BY <2>1, <2>2 DEF TakeOf, ServerType
<1>23. ASSUME SEnd PROVE ServerType'
  BY <1>23 DEF SEnd, ServerType, Save
<1>24. ASSUME SResult PROVE ServerType'
  BY <1>24 DEF SResult, ServerType
<1>25. ASSUME SFail PROVE ServerType'
  BY <1>25 DEF SFail, ServerType
<1> QED BY <1>1, <1>2, <1>3, <1>4, <1>5, <1>6, <1>7, <1>8, <1>9, <1>10, <1>11, <1>12, <1>13, <1>14, <1>15, <1>16, <1>17, <1>18, <1>19, <1>20, <1>21, <1>22, <1>23, <1>24, <1>25, NextSteps

(* What a child has in hand. *)
LEMMA ChildInvStep ==
  ASSUME DisplayType, ChildType, ServerType, ChildInv, NameInv, Next
  PROVE  ChildInv'
<1> USE BoundsAssumption DEF process, display, child, drawn, wire, rwire, server, Exit, Goto
<1>1. ASSUME DConnect PROVE ChildInv'
  BY <1>1 DEF DConnect, ChildType, ChildInv
<1>2. ASSUME DLogin PROVE ChildInv'
  BY <1>2 DEF DLogin, ChildType, ChildInv
<1>3. ASSUME DName PROVE ChildInv'
  BY <1>3 DEF DName, ChildType, ChildInv
<1>4. ASSUME DSpawn PROVE ChildInv'
  <2>1. index + 1 \in Frames /\ pc' = [pc EXCEPT ![index + 1] = "stat"]
        /\ UNCHANGED <<stated, opened, sent, round>>
    BY <1>4 DEF DSpawn, DisplayType, NameInv, Frames
  <2>2. pc[index + 1] = "none"
    BY <2>1 DEF NameInv, DisplayType, ChildType
  <2> QED BY <2>1, <2>2 DEF ChildInv, ChildType
<1>5. ASSUME DDraw PROVE ChildInv'
  BY <1>5 DEF DDraw, ChildType, ChildInv
<1>6. ASSUME DTurn PROVE ChildInv'
  BY <1>6 DEF DTurn, ChildType, ChildInv
<1>7. ASSUME DClose PROVE ChildInv'
  BY <1>7 DEF DClose, ChildType, ChildInv
<1>8. ASSUME RConnect PROVE ChildInv'
  BY <1>8 DEF RConnect, ChildType, ChildInv
<1>9. ASSUME RLogin PROVE ChildInv'
  BY <1>9 DEF RLogin, ChildType, ChildInv
<1>10. ASSUME RLoop PROVE ChildInv'
  BY <1>10 DEF RLoop, ChildType, ChildInv
<1>11. ASSUME RRecv PROVE ChildInv'
  BY <1>11 DEF RRecv, ChildType, ChildInv
<1>12. ASSUME RParse PROVE ChildInv'
  BY <1>12 DEF RParse, ChildType, ChildInv
<1>13. ASSUME REnd PROVE ChildInv'
  BY <1>13 DEF REnd, ChildType, ChildInv
<1>14. ASSUME NEW k \in Frames, CStat(k) PROVE ChildInv'
  <2>1. UNCHANGED <<opened, sent, round>>
        /\ \/ UNCHANGED <<pc, stated>>
           \/ /\ pc' = [pc EXCEPT ![k] = "lock"]
              /\ \E f \in Frames : stated' = [stated EXCEPT ![k] = f]
    BY <1>14, NameFacts DEF CStat
  <2>2. pc[k] = "stat"
    BY <1>14 DEF CStat
  <2> QED BY <2>1, <2>2 DEF ChildInv, ChildType
<1>15. ASSUME NEW k \in Frames, CLock(k) PROVE ChildInv'
  BY <1>15 DEF CLock, ChildType, ChildInv
<1>16. ASSUME NEW k \in Frames, CHeader(k) PROVE ChildInv'
  BY <1>16 DEF CHeader, ChildType, ChildInv, Header, FileName
<1>17. ASSUME NEW k \in Frames, CAck(k) PROVE ChildInv'
  BY <1>17, SMTT(30) DEF CAck, ChildType, ChildInv, Answered
<1>18. ASSUME NEW k \in Frames, COpen(k) PROVE ChildInv'
  <2>1. PICK f \in FileName :
           \/ UNCHANGED <<pc, opened, sent>>
           \/ /\ f # 0 /\ opened' = [opened EXCEPT ![k] = f] /\ pc' = [pc EXCEPT ![k] = "data"]
              /\ sent' = [sent EXCEPT ![k] = 0]
    BY <1>18 DEF COpen
  <2>2. UNCHANGED <<stated, round>> /\ pc[k] = "open"
    BY <1>18 DEF COpen
  <2>3. f # 0 => f \in Frames /\ 0 <= SizeOf[f]
    BY NameFacts, SizesAssumption
  <2> QED BY <2>1, <2>2, <2>3 DEF ChildInv, ChildType
<1>19. ASSUME NEW k \in Frames, CData(k) PROVE ChildInv'
  <2>1. UNCHANGED <<stated, opened, round>> /\ pc[k] = "data"
    BY <1>19 DEF CData
  <2>2. CASE to_server' # to_server
    <3>1. /\ pc' = pc
          /\ \E n \in 1 .. Block : /\ n <= SizeOf[opened[k]] - sent[k]
                                 /\ sent' = [sent EXCEPT ![k] = @ + n]
      BY <1>19, <2>2, SendFacts, ZenonT(60)
    <3>2. SizeOf[opened[k]] \in Nat
      BY <2>1, SizesAssumption DEF ChildInv
    <3>3. sent'[k] <= SizeOf[opened[k]] /\ \A j \in Frames : j # k => sent'[j] = sent[j]
      BY <3>1, <3>2 DEF ChildType, Block
    <3> QED BY <2>1, <3>1, <3>3 DEF ChildInv
  <2>3. CASE to_server' = to_server
    <3>1. sent' = sent /\ pc' = [pc EXCEPT ![k] = "answer"]
      BY <1>19, <2>3, SendLonger
    <3> QED BY <2>1, <3>1 DEF ChildInv, ChildType
  <2> QED BY <2>2, <2>3
<1>20. ASSUME NEW k \in Frames, CAnswer(k) PROVE ChildInv'
  BY <1>20 DEF CAnswer, ChildType, ChildInv, Answered
<1>21. ASSUME SHeader PROVE ChildInv'
  BY <1>21 DEF SHeader, ChildType, ChildInv
<1>22. ASSUME SData PROVE ChildInv'
  BY <1>22 DEF SData, ChildType, ChildInv, Save
<1>23. ASSUME SEnd PROVE ChildInv'
  BY <1>23 DEF SEnd, ChildType, ChildInv, Save
<1>24. ASSUME SResult PROVE ChildInv'
  BY <1>24 DEF SResult, ChildType, ChildInv
<1>25. ASSUME SFail PROVE ChildInv'
  BY <1>25 DEF SFail, ChildType, ChildInv
<1> QED BY <1>1, <1>2, <1>3, <1>4, <1>5, <1>6, <1>7, <1>8, <1>9, <1>10, <1>11, <1>12, <1>13, <1>14, <1>15, <1>16, <1>17, <1>18, <1>19, <1>20, <1>21, <1>22, <1>23, <1>24, <1>25, NextSteps

(* The name of a frame. *)
LEMMA NameStep ==
  ASSUME DisplayType, ChildType, NameInv, Next
  PROVE  NameInv'
<1> USE BoundsAssumption DEF process, display, child, drawn, wire, rwire, server, Exit, Goto
<1>1. ASSUME DConnect PROVE NameInv'
  BY <1>1 DEF DConnect, DisplayType, ChildType, NameInv
<1>2. ASSUME DLogin PROVE NameInv'
  BY <1>2 DEF DLogin, DisplayType, ChildType, NameInv
<1>3. ASSUME DName PROVE NameInv'
  BY <1>3 DEF DName, DisplayType, ChildType, NameInv
<1>4. ASSUME DSpawn PROVE NameInv'
  <2>1. index + 1 \in Frames /\ pc' = [pc EXCEPT ![index + 1] = "stat"]
        /\ index' = index + 1 /\ dpc' = "draw" /\ dpc = "spawn" /\ UNCHANGED <<trans_info, stated>>
    BY <1>4 DEF DSpawn, DisplayType, NameInv, Frames
  <2>2. \A j \in Frames : pc'[j] # "none" => j <= index'
    BY <2>1 DEF NameInv, DisplayType, ChildType, Frames
  <2> QED BY <2>1, <2>2 DEF NameInv, DisplayType, ChildType
<1>5. ASSUME DDraw PROVE NameInv'
  BY <1>5 DEF DDraw, DisplayType, ChildType, NameInv
<1>6. ASSUME DTurn PROVE NameInv'
  BY <1>6 DEF DTurn, DisplayType, ChildType, NameInv
<1>7. ASSUME DClose PROVE NameInv'
  BY <1>7 DEF DClose, DisplayType, ChildType, NameInv
<1>8. ASSUME RConnect PROVE NameInv'
  BY <1>8 DEF RConnect, DisplayType, ChildType, NameInv
<1>9. ASSUME RLogin PROVE NameInv'
  BY <1>9 DEF RLogin, DisplayType, ChildType, NameInv
<1>10. ASSUME RLoop PROVE NameInv'
  BY <1>10 DEF RLoop, DisplayType, ChildType, NameInv
<1>11. ASSUME RRecv PROVE NameInv'
  BY <1>11 DEF RRecv, DisplayType, ChildType, NameInv
<1>12. ASSUME RParse PROVE NameInv'
  BY <1>12 DEF RParse, DisplayType, ChildType, NameInv
<1>13. ASSUME REnd PROVE NameInv'
  BY <1>13 DEF REnd, DisplayType, ChildType, NameInv
<1>14. ASSUME NEW k \in Frames, CStat(k) PROVE NameInv'
  BY <1>14 DEF CStat, DisplayType, ChildType, NameInv, FileName
<1>15. ASSUME NEW k \in Frames, CLock(k) PROVE NameInv'
  BY <1>15 DEF CLock, DisplayType, ChildType, NameInv
<1>16. ASSUME NEW k \in Frames, CHeader(k) PROVE NameInv'
  BY <1>16 DEF CHeader, DisplayType, ChildType, NameInv, Header, FileName
<1>17. ASSUME NEW k \in Frames, CAck(k) PROVE NameInv'
  BY <1>17 DEF CAck, DisplayType, ChildType, NameInv, Answered
<1>18. ASSUME NEW k \in Frames, COpen(k) PROVE NameInv'
  BY <1>18 DEF COpen, DisplayType, ChildType, NameInv, FileName
<1>19. ASSUME NEW k \in Frames, CData(k) PROVE NameInv'
  BY <1>19 DEF CData, DisplayType, ChildType, NameInv, Least, Block
<1>20. ASSUME NEW k \in Frames, CAnswer(k) PROVE NameInv'
  BY <1>20 DEF CAnswer, DisplayType, ChildType, NameInv, Answered
<1>21. ASSUME SHeader PROVE NameInv'
  BY <1>21 DEF SHeader, DisplayType, ChildType, NameInv
<1>22. ASSUME SData PROVE NameInv'
  BY <1>22 DEF SData, DisplayType, ChildType, NameInv, Save
<1>23. ASSUME SEnd PROVE NameInv'
  BY <1>23 DEF SEnd, DisplayType, ChildType, NameInv, Save
<1>24. ASSUME SResult PROVE NameInv'
  BY <1>24 DEF SResult, DisplayType, ChildType, NameInv
<1>25. ASSUME SFail PROVE NameInv'
  BY <1>25 DEF SFail, DisplayType, ChildType, NameInv
<1> QED BY <1>1, <1>2, <1>3, <1>4, <1>5, <1>6, <1>7, <1>8, <1>9, <1>10, <1>11, <1>12, <1>13, <1>14, <1>15, <1>16, <1>17, <1>18, <1>19, <1>20, <1>21, <1>22, <1>23, <1>24, <1>25, NextSteps

(* The lock and the exchange go together. *)
LEMMA LockStep ==
  ASSUME DisplayType, ChildType, NameInv, LockInv, Next
  PROVE  LockInv'
<1> USE BoundsAssumption DEF process, display, child, drawn, wire, rwire, server, Exit, Goto
<1>1. ASSUME DConnect PROVE LockInv'
  BY <1>1 DEF DConnect, ChildType, LockInv, Exchange
<1>2. ASSUME DLogin PROVE LockInv'
  BY <1>2 DEF DLogin, ChildType, LockInv, Exchange
<1>3. ASSUME DName PROVE LockInv'
  BY <1>3 DEF DName, ChildType, LockInv, Exchange
<1>4. ASSUME DSpawn PROVE LockInv'
  <2>1. index + 1 \in Frames /\ pc' = [pc EXCEPT ![index + 1] = "stat"] /\ sendLock' = sendLock
    BY <1>4 DEF DSpawn, DisplayType, NameInv, Frames
  <2>2. pc[index + 1] = "none"
    BY <2>1 DEF NameInv, DisplayType, ChildType
  <2> QED BY <2>1, <2>2 DEF LockInv, ChildType, Exchange
<1>5. ASSUME DDraw PROVE LockInv'
  BY <1>5 DEF DDraw, ChildType, LockInv, Exchange
<1>6. ASSUME DTurn PROVE LockInv'
  BY <1>6 DEF DTurn, ChildType, LockInv, Exchange
<1>7. ASSUME DClose PROVE LockInv'
  BY <1>7 DEF DClose, ChildType, LockInv, Exchange
<1>8. ASSUME RConnect PROVE LockInv'
  BY <1>8 DEF RConnect, ChildType, LockInv, Exchange
<1>9. ASSUME RLogin PROVE LockInv'
  BY <1>9 DEF RLogin, ChildType, LockInv, Exchange
<1>10. ASSUME RLoop PROVE LockInv'
  BY <1>10 DEF RLoop, ChildType, LockInv, Exchange
<1>11. ASSUME RRecv PROVE LockInv'
  BY <1>11 DEF RRecv, ChildType, LockInv, Exchange
<1>12. ASSUME RParse PROVE LockInv'
  BY <1>12 DEF RParse, ChildType, LockInv, Exchange
<1>13. ASSUME REnd PROVE LockInv'
  BY <1>13 DEF REnd, ChildType, LockInv, Exchange
<1>14. ASSUME NEW k \in Frames, CStat(k) PROVE LockInv'
  BY <1>14 DEF CStat, ChildType, LockInv, Exchange, FileName
<1>15. ASSUME NEW k \in Frames, CLock(k) PROVE LockInv'
  <2>1. /\ pc' = [pc EXCEPT ![k] = "header"] /\ sendLock' = k /\ sendLock = 0 /\ k # 0
    BY <1>15, FrameFacts DEF CLock
  <2>2. \A j \in Frames : pc[j] \notin Exchange
    BY <2>1, FrameFacts DEF LockInv
  <2> QED BY <2>1, <2>2 DEF LockInv, ChildType, Exchange
<1>16. ASSUME NEW k \in Frames, CHeader(k) PROVE LockInv'
  BY <1>16 DEF CHeader, ChildType, LockInv, Exchange, Header, FileName
<1>17. ASSUME NEW k \in Frames, CAck(k) PROVE LockInv'
  BY <1>17 DEF CAck, ChildType, LockInv, Exchange, Answered
<1>18. ASSUME NEW k \in Frames, COpen(k) PROVE LockInv'
  BY <1>18 DEF COpen, ChildType, LockInv, Exchange, FileName
<1>19. ASSUME NEW k \in Frames, CData(k) PROVE LockInv'
  BY <1>19 DEF CData, ChildType, LockInv, Exchange, Least, Block
<1>20. ASSUME NEW k \in Frames, CAnswer(k) PROVE LockInv'
  <2>1. /\ pc' = [pc EXCEPT ![k] = "stat"] \/ pc' = [pc EXCEPT ![k] = "done"]
        /\ sendLock' = 0 /\ pc[k] = "answer"
    BY <1>20 DEF CAnswer
  <2>2. sendLock = k
    BY <2>1 DEF LockInv, Exchange
  <2> QED BY <2>1, <2>2, FrameFacts DEF LockInv, ChildType, Exchange
<1>21. ASSUME SHeader PROVE LockInv'
  BY <1>21 DEF SHeader, ChildType, LockInv, Exchange
<1>22. ASSUME SData PROVE LockInv'
  BY <1>22 DEF SData, ChildType, LockInv, Exchange, Save
<1>23. ASSUME SEnd PROVE LockInv'
  BY <1>23 DEF SEnd, ChildType, LockInv, Exchange, Save
<1>24. ASSUME SResult PROVE LockInv'
  BY <1>24 DEF SResult, ChildType, LockInv, Exchange
<1>25. ASSUME SFail PROVE LockInv'
  BY <1>25 DEF SFail, ChildType, LockInv, Exchange
<1> QED BY <1>1, <1>2, <1>3, <1>4, <1>5, <1>6, <1>7, <1>8, <1>9, <1>10, <1>11, <1>12, <1>13, <1>14, <1>15, <1>16, <1>17, <1>18, <1>19, <1>20, <1>21, <1>22, <1>23, <1>24, <1>25, NextSteps

(* The strings, coordinates and flag are of one result. *)
LEMMA DrawnStep ==
  ASSUME DrawnType, DrawnInv, Next
  PROVE  DrawnInv'
<1> USE DEF process, display, child, drawn, wire, rwire, server, Exit, ServerGone, Goto
<1>1. ASSUME DConnect PROVE DrawnInv'
  BY <1>1 DEF DConnect, DrawnType, DrawnInv
<1>2. ASSUME DLogin PROVE DrawnInv'
  BY <1>2 DEF DLogin, DrawnType, DrawnInv
<1>3. ASSUME DName PROVE DrawnInv'
  BY <1>3 DEF DName, DrawnType, DrawnInv
<1>4. ASSUME DSpawn PROVE DrawnInv'
  BY <1>4 DEF DSpawn, DrawnType, DrawnInv
<1>5. ASSUME DDraw PROVE DrawnInv'
  BY <1>5 DEF DDraw, DrawnType, DrawnInv
<1>6. ASSUME DTurn PROVE DrawnInv'
  BY <1>6 DEF DTurn, DrawnType, DrawnInv
<1>7. ASSUME DClose PROVE DrawnInv'
  BY <1>7 DEF DClose, DrawnType, DrawnInv
<1>8. ASSUME RConnect PROVE DrawnInv'
  BY <1>8 DEF RConnect, DrawnType, DrawnInv
<1>9. ASSUME RLogin PROVE DrawnInv'
  BY <1>9 DEF RLogin, DrawnType, DrawnInv
<1>10. ASSUME RLoop PROVE DrawnInv'
  BY <1>10 DEF RLoop, DrawnType, DrawnInv
<1>11. ASSUME RRecv PROVE DrawnInv'
  BY <1>11 DEF RRecv, DrawnType, DrawnInv
<1>12. ASSUME RParse PROVE DrawnInv'
  BY <1>12 DEF RParse, DrawnType, DrawnInv
<1>13. ASSUME REnd PROVE DrawnInv'
  BY <1>13 DEF REnd, DrawnType, DrawnInv
<1>14. ASSUME NEW k \in Frames, CStat(k) PROVE DrawnInv'
  BY <1>14 DEF CStat, DrawnType, DrawnInv, FileName
<1>15. ASSUME NEW k \in Frames, CLock(k) PROVE DrawnInv'
  BY <1>15 DEF CLock, DrawnType, DrawnInv
<1>16. ASSUME NEW k \in Frames, CHeader(k) PROVE DrawnInv'
  BY <1>16 DEF CHeader, DrawnType, DrawnInv, Header, FileName
<1>17. ASSUME NEW k \in Frames, CAck(k) PROVE DrawnInv'
  BY <1>17 DEF CAck, DrawnType, DrawnInv, Answered
<1>18. ASSUME NEW k \in Frames, COpen(k) PROVE DrawnInv'
  BY <1>18 DEF COpen, DrawnType, DrawnInv, FileName
<1>19. ASSUME NEW k \in Frames, CData(k) PROVE DrawnInv'
  BY <1>19 DEF CData, DrawnType, DrawnInv, Least, Block
<1>20. ASSUME NEW k \in Frames, CAnswer(k) PROVE DrawnInv'
  BY <1>20 DEF CAnswer, DrawnType, DrawnInv, Answered
<1>21. ASSUME SHeader PROVE DrawnInv'
  BY <1>21 DEF SHeader, DrawnType, DrawnInv
<1>22. ASSUME SData PROVE DrawnInv'
  BY <1>22 DEF SData, DrawnType, DrawnInv, Save
<1>23. ASSUME SEnd PROVE DrawnInv'
  BY <1>23 DEF SEnd, DrawnType, DrawnInv, Save
<1>24. ASSUME SResult PROVE DrawnInv'
  BY <1>24 DEF SResult, DrawnType, DrawnInv
<1>25. ASSUME SFail PROVE DrawnInv'
  BY <1>25 DEF SFail, DrawnType, DrawnInv
<1> QED BY <1>1, <1>2, <1>3, <1>4, <1>5, <1>6, <1>7, <1>8, <1>9, <1>10, <1>11, <1>12, <1>13, <1>14, <1>15, <1>16, <1>17, <1>18, <1>19, <1>20, <1>21, <1>22, <1>23, <1>24, <1>25, NextSteps

(* The end of a client. *)
LEMMA EndStep ==
  ASSUME DisplayType, EndInv, Next
  PROVE  EndInv'
<1> USE DEF process, display, child, drawn, wire, rwire, server, Exit, ServerGone, Goto
<1>1. ASSUME DConnect PROVE EndInv'
  BY <1>1 DEF DConnect, DisplayType, EndInv, Open
<1>2. ASSUME DLogin PROVE EndInv'
  BY <1>2 DEF DLogin, DisplayType, EndInv, Open
<1>3. ASSUME DName PROVE EndInv'
  BY <1>3 DEF DName, DisplayType, EndInv, Open
<1>4. ASSUME DSpawn PROVE EndInv'
  BY <1>4 DEF DSpawn, DisplayType, EndInv, Open
<1>5. ASSUME DDraw PROVE EndInv'
  BY <1>5 DEF DDraw, DisplayType, EndInv, Open
<1>6. ASSUME DTurn PROVE EndInv'
  BY <1>6 DEF DTurn, DisplayType, EndInv, Open
<1>7. ASSUME DClose PROVE EndInv'
  BY <1>7 DEF DClose, DisplayType, EndInv, Open
<1>8. ASSUME RConnect PROVE EndInv'
  BY <1>8 DEF RConnect, DisplayType, EndInv, Open
<1>9. ASSUME RLogin PROVE EndInv'
  BY <1>9 DEF RLogin, DisplayType, EndInv, Open
<1>10. ASSUME RLoop PROVE EndInv'
  BY <1>10 DEF RLoop, DisplayType, EndInv, Open
<1>11. ASSUME RRecv PROVE EndInv'
  BY <1>11 DEF RRecv, DisplayType, EndInv, Open
<1>12. ASSUME RParse PROVE EndInv'
  BY <1>12 DEF RParse, DisplayType, EndInv, Open
<1>13. ASSUME REnd PROVE EndInv'
  BY <1>13 DEF REnd, DisplayType, EndInv, Open
<1>14. ASSUME NEW k \in Frames, CStat(k) PROVE EndInv'
  BY <1>14 DEF CStat, DisplayType, EndInv, Open, FileName
<1>15. ASSUME NEW k \in Frames, CLock(k) PROVE EndInv'
  BY <1>15 DEF CLock, DisplayType, EndInv, Open
<1>16. ASSUME NEW k \in Frames, CHeader(k) PROVE EndInv'
  BY <1>16 DEF CHeader, DisplayType, EndInv, Open, Header, FileName
<1>17. ASSUME NEW k \in Frames, CAck(k) PROVE EndInv'
  BY <1>17 DEF CAck, DisplayType, EndInv, Open, Answered
<1>18. ASSUME NEW k \in Frames, COpen(k) PROVE EndInv'
  BY <1>18 DEF COpen, DisplayType, EndInv, Open, FileName
<1>19. ASSUME NEW k \in Frames, CData(k) PROVE EndInv'
  BY <1>19 DEF CData, DisplayType, EndInv, Open, Least, Block
<1>20. ASSUME NEW k \in Frames, CAnswer(k) PROVE EndInv'
  BY <1>20 DEF CAnswer, DisplayType, EndInv, Open, Answered
<1>21. ASSUME SHeader PROVE EndInv'
  BY <1>21 DEF SHeader, DisplayType, EndInv, Open
<1>22. ASSUME SData PROVE EndInv'
  BY <1>22 DEF SData, DisplayType, EndInv, Open, Save
<1>23. ASSUME SEnd PROVE EndInv'
  BY <1>23 DEF SEnd, DisplayType, EndInv, Open, Save
<1>24. ASSUME SResult PROVE EndInv'
  BY <1>24 DEF SResult, DisplayType, EndInv, Open
<1>25. ASSUME SFail PROVE EndInv'
  BY <1>25 DEF SFail, DisplayType, EndInv, Open
<1> QED BY <1>1, <1>2, <1>3, <1>4, <1>5, <1>6, <1>7, <1>8, <1>9, <1>10, <1>11, <1>12, <1>13, <1>14, <1>15, <1>16, <1>17, <1>18, <1>19, <1>20, <1>21, <1>22, <1>23, <1>24, <1>25, NextSteps

(* No child sends an older frame than its own. *)
LEMMA OlderStep ==
  ASSUME DisplayType, ChildType, NameInv, NeverAnOlderFrame, Next
  PROVE  NeverAnOlderFrame'
<1> USE BoundsAssumption DEF process, display, child, drawn, wire, rwire, server, Exit, Goto
<1>1. ASSUME DConnect PROVE NeverAnOlderFrame'
  BY <1>1 DEF DConnect, DisplayType, ChildType, NameInv, NeverAnOlderFrame
<1>2. ASSUME DLogin PROVE NeverAnOlderFrame'
  BY <1>2 DEF DLogin, DisplayType, ChildType, NameInv, NeverAnOlderFrame
<1>3. ASSUME DName PROVE NeverAnOlderFrame'
  BY <1>3 DEF DName, DisplayType, ChildType, NameInv, NeverAnOlderFrame
<1>4. ASSUME DSpawn PROVE NeverAnOlderFrame'
  BY <1>4 DEF DSpawn, DisplayType, ChildType, NameInv, NeverAnOlderFrame
<1>5. ASSUME DDraw PROVE NeverAnOlderFrame'
  BY <1>5 DEF DDraw, DisplayType, ChildType, NameInv, NeverAnOlderFrame
<1>6. ASSUME DTurn PROVE NeverAnOlderFrame'
  BY <1>6 DEF DTurn, DisplayType, ChildType, NameInv, NeverAnOlderFrame
<1>7. ASSUME DClose PROVE NeverAnOlderFrame'
  BY <1>7 DEF DClose, DisplayType, ChildType, NameInv, NeverAnOlderFrame
<1>8. ASSUME RConnect PROVE NeverAnOlderFrame'
  BY <1>8 DEF RConnect, DisplayType, ChildType, NameInv, NeverAnOlderFrame
<1>9. ASSUME RLogin PROVE NeverAnOlderFrame'
  BY <1>9 DEF RLogin, DisplayType, ChildType, NameInv, NeverAnOlderFrame
<1>10. ASSUME RLoop PROVE NeverAnOlderFrame'
  BY <1>10 DEF RLoop, DisplayType, ChildType, NameInv, NeverAnOlderFrame
<1>11. ASSUME RRecv PROVE NeverAnOlderFrame'
  BY <1>11 DEF RRecv, DisplayType, ChildType, NameInv, NeverAnOlderFrame
<1>12. ASSUME RParse PROVE NeverAnOlderFrame'
  BY <1>12 DEF RParse, DisplayType, ChildType, NameInv, NeverAnOlderFrame
<1>13. ASSUME REnd PROVE NeverAnOlderFrame'
  BY <1>13 DEF REnd, DisplayType, ChildType, NameInv, NeverAnOlderFrame
<1>14. ASSUME NEW k \in Frames, CStat(k) PROVE NeverAnOlderFrame'
  <2>1. pc[k] = "stat" /\ opened' = opened
        /\ \/ UNCHANGED <<pc, stated>>
           \/ /\ pc' = [pc EXCEPT ![k] = "lock"] /\ trans_info # 0
              /\ stated' = [stated EXCEPT ![k] = trans_info]
    BY <1>14, NameFacts DEF CStat
  <2>2. trans_info # 0 => trans_info >= k
    BY <2>1, BoundsAssumption DEF NameInv, DisplayType, Frames
  <2> QED BY <2>1, <2>2 DEF NeverAnOlderFrame, ChildType
<1>15. ASSUME NEW k \in Frames, CLock(k) PROVE NeverAnOlderFrame'
  BY <1>15 DEF CLock, DisplayType, ChildType, NameInv, NeverAnOlderFrame
<1>16. ASSUME NEW k \in Frames, CHeader(k) PROVE NeverAnOlderFrame'
  BY <1>16 DEF CHeader, DisplayType, ChildType, NameInv, NeverAnOlderFrame, Header, FileName
<1>17. ASSUME NEW k \in Frames, CAck(k) PROVE NeverAnOlderFrame'
  BY <1>17 DEF CAck, DisplayType, ChildType, NameInv, NeverAnOlderFrame, Answered
<1>18. ASSUME NEW k \in Frames, COpen(k) PROVE NeverAnOlderFrame'
  BY <1>18 DEF COpen, DisplayType, ChildType, NameInv, NeverAnOlderFrame, FileName
<1>19. ASSUME NEW k \in Frames, CData(k) PROVE NeverAnOlderFrame'
  BY <1>19 DEF CData, DisplayType, ChildType, NameInv, NeverAnOlderFrame, Least, Block
<1>20. ASSUME NEW k \in Frames, CAnswer(k) PROVE NeverAnOlderFrame'
  BY <1>20 DEF CAnswer, DisplayType, ChildType, NameInv, NeverAnOlderFrame, Answered
<1>21. ASSUME SHeader PROVE NeverAnOlderFrame'
  BY <1>21 DEF SHeader, DisplayType, ChildType, NameInv, NeverAnOlderFrame
<1>22. ASSUME SData PROVE NeverAnOlderFrame'
  BY <1>22 DEF SData, DisplayType, ChildType, NameInv, NeverAnOlderFrame, Save
<1>23. ASSUME SEnd PROVE NeverAnOlderFrame'
  BY <1>23 DEF SEnd, DisplayType, ChildType, NameInv, NeverAnOlderFrame, Save
<1>24. ASSUME SResult PROVE NeverAnOlderFrame'
  BY <1>24, SMTT(30) DEF SResult, DisplayType, ChildType, NameInv, NeverAnOlderFrame
<1>25. ASSUME SFail PROVE NeverAnOlderFrame'
  BY <1>25 DEF SFail, DisplayType, ChildType, NameInv, NeverAnOlderFrame
<1> QED BY <1>1, <1>2, <1>3, <1>4, <1>5, <1>6, <1>7, <1>8, <1>9, <1>10, <1>11, <1>12, <1>13, <1>14, <1>15, <1>16, <1>17, <1>18, <1>19, <1>20, <1>21, <1>22, <1>23, <1>24, <1>25, NextSteps


(* A step that leaves the connection, the lock and its owner alone. *)
QuietStep ==
  /\ UNCHANGED <<server, wire, sendLock, torn, opened, sent>> /\ (Open' => Open)
  /\ \A j \in Frames : pc[j] \in Exchange \/ pc'[j] \in Exchange =>
                        pc'[j] = pc[j] /\ stated'[j] = stated[j]

\* The threads' steps outside the exchange of a frame are quiet.
LEMMA QuietSteps ==
  ASSUME DisplayType, ChildType, NameInv, EndInv,
         DConnect \/ DLogin \/ DName \/ DSpawn \/ DDraw \/ DTurn \/ DClose
         \/ RConnect \/ RLogin \/ RLoop \/ RRecv \/ RParse \/ REnd
         \/ (\E k \in Frames : CStat(k)) \/ SResult
  PROVE  QuietStep
<1> USE BoundsAssumption DEF process, display, child, drawn, wire, rwire, server, Exit, Goto
<1>1. ASSUME DConnect PROVE QuietStep
  BY <1>1 DEF DConnect, QuietStep, EndInv, Open
<1>2. ASSUME DLogin PROVE QuietStep
  BY <1>2 DEF DLogin, QuietStep, Open
<1>3. ASSUME DName PROVE QuietStep
  BY <1>3 DEF DName, QuietStep, Open
<1>4. ASSUME DSpawn PROVE QuietStep
  <2>1. index + 1 \in Frames /\ pc' = [pc EXCEPT ![index + 1] = "stat"] /\ stated' = stated
    BY <1>4 DEF DSpawn, DisplayType, NameInv, Frames
  <2>2. pc[index + 1] = "none"
    BY <2>1 DEF NameInv, DisplayType, ChildType
  <2>3. \A j \in Frames : pc[j] \in Exchange \/ pc'[j] \in Exchange => pc'[j] = pc[j]
    BY <2>1, <2>2 DEF ChildType, Exchange
  <2> QED BY <1>4, <2>1, <2>3 DEF DSpawn, QuietStep, Open

<1>5. ASSUME DDraw PROVE QuietStep
  BY <1>5 DEF DDraw, QuietStep, Open
<1>6. ASSUME DTurn PROVE QuietStep
  BY <1>6 DEF DTurn, QuietStep, Open
<1>7. ASSUME DClose PROVE QuietStep
  BY <1>7 DEF DClose, QuietStep, Open
<1>8. ASSUME RConnect PROVE QuietStep
  BY <1>8 DEF RConnect, QuietStep, Open
<1>9. ASSUME RLogin PROVE QuietStep
  BY <1>9 DEF RLogin, QuietStep, Open
<1>10. ASSUME RLoop PROVE QuietStep
  BY <1>10 DEF RLoop, QuietStep, Open
<1>11. ASSUME RRecv PROVE QuietStep
  BY <1>11 DEF RRecv, QuietStep, Open
<1>12. ASSUME RParse PROVE QuietStep
  BY <1>12 DEF RParse, QuietStep, Open
<1>13. ASSUME REnd PROVE QuietStep
  BY <1>13 DEF REnd, QuietStep, Open
<1>14. ASSUME NEW k \in Frames, CStat(k) PROVE QuietStep
  <2>1. /\ pc[k] = "stat"
        /\ pc' = pc \/ pc' = [pc EXCEPT ![k] = "lock"]
        /\ stated' = stated \/ \E f \in FileName : stated' = [stated EXCEPT ![k] = f]
    BY <1>14 DEF CStat
  <2>2. \A j \in Frames : pc[j] \in Exchange \/ pc'[j] \in Exchange =>
                            pc'[j] = pc[j] /\ stated'[j] = stated[j]
    BY <2>1 DEF ChildType, Exchange
  <2> QED BY <1>14, <2>2 DEF CStat, QuietStep, Open

<1>15. ASSUME SResult PROVE QuietStep
  BY <1>15 DEF SResult, QuietStep, Open
<1> QED BY <1>1, <1>2, <1>3, <1>4, <1>5, <1>6, <1>7, <1>8, <1>9, <1>10, <1>11, <1>12, <1>13, <1>14, <1>15

(* The steps of Next, for the connection. *)
LEMMA WireSteps ==
  ASSUME DisplayType, ChildType, NameInv, EndInv, Next
  PROVE  \/ QuietStep
         \/ /\ client = "up"
            /\ \E k \in Frames : \/ CLock(k) \/ CHeader(k) \/ CAck(k) \/ COpen(k)
                                \/ CData(k) \/ CAnswer(k)
         \/ SHeader \/ SData \/ SEnd \/ SFail
BY NextSteps, QuietSteps

(* Reading the data of a frame. *)
LEMMA ReadStep ==
  ASSUME DisplayType, ChildType, ServerType, ChildInv, NameInv, LockInv, EndInv, ReadInv, HeaderInv, SizeInv, Next
  PROVE  ReadInv'
<1> USE BoundsAssumption DEF process, display, child, drawn, wire, rwire, server, Exit, Goto
<1>1. ASSUME QuietStep PROVE ReadInv'
  <2>1. owner # 0 => owner \in Frames
    BY FrameFacts DEF ServerType
  <2> QED BY <1>1, <2>1 DEF QuietStep, ReadInv, Exchange
<1>2. ASSUME NEW k \in Frames, CLock(k) PROVE ReadInv'
  <2>1. sendLock = 0 /\ UNCHANGED <<wire, server, sockfd, torn>>
    BY <1>2 DEF CLock
  <2> QED BY <2>1 DEF ReadInv, Open
<1>3. ASSUME NEW k \in Frames, CHeader(k) PROVE ReadInv'
  <2>1. pc[k] = "header" /\ sockfd' = sockfd /\ UNCHANGED server
    BY <1>3 DEF CHeader
  <2>2. sendLock = k
    BY <2>1 DEF LockInv, Exchange
  <2>3. torn => torn'
    BY <1>3 DEF CHeader
  <2>4. CASE spc = "data" /\ owner # 0
    <3>1. ~Open
      BY <2>1, <2>2, <2>4 DEF ReadInv
    <3>2. to_server' = to_server
      BY <1>3, <3>1 DEF CHeader, Open
    <3> QED BY <2>1, <2>4, <3>1, <3>2 DEF ReadInv, Open
  <2> QED BY <2>1, <2>3, <2>4 DEF ReadInv
<1>4. ASSUME NEW k \in Frames, CAck(k) PROVE ReadInv'
  <2>1. /\ pc[k] = "ack" /\ UNCHANGED <<sockfd, server, to_server, sendLock, torn>>
    BY <1>4 DEF CAck
  <2>2. sendLock = k
    BY <2>1 DEF LockInv, Exchange
  <2>3. CASE spc = "data" /\ owner # 0 /\ Open
    <3>1. owner = k /\ Len(to_client) = 1 /\ to_server = <<>>
      BY <2>1, <2>2, <2>3 DEF ReadInv
    <3>2. to_client # <<>>
      BY <3>1
    <3>3. /\ to_client' = Tail(to_client) /\ pc' = [pc EXCEPT ![k] = "open"]
      BY <1>4, <2>3, <3>2 DEF CAck, Answered, Open
    <3>4. to_client' = <<>>
      BY <3>1, <3>2, <3>3, HeadFacts DEF ServerType
    <3>5. pc'[k] = "open"
      BY <3>3 DEF ChildType
    <3> QED BY <2>1, <2>2, <2>3, <3>1, <3>4, <3>5 DEF ReadInv
  <2> QED BY <2>1, <2>3 DEF ReadInv, Open
<1>5. ASSUME NEW k \in Frames, COpen(k) PROVE ReadInv'
  <2>1. /\ pc[k] = "open" /\ UNCHANGED <<sockfd, server, wire, sendLock>>
        /\ pc' = pc \/ pc' = [pc EXCEPT ![k] = "data"]
    BY <1>5 DEF COpen
  <2>3. torn => torn'
    BY <1>5 DEF COpen, ChildType
  <2>2. sendLock = k /\ pc'[k] \in {"open", "data"}
    BY <2>1 DEF LockInv, Exchange, ChildType
  <2> QED BY <2>1, <2>2, <2>3 DEF ReadInv, Open
<1>6. ASSUME NEW k \in Frames, CData(k) PROVE ReadInv'
  <2>1. /\ pc[k] = "data" /\ UNCHANGED <<sockfd, server, to_client, sendLock, torn>>
    BY <1>6 DEF CData
  <2>2. sendLock = k
    BY <2>1 DEF LockInv, Exchange
  <2>3. CASE to_server' # to_server
    <3>1. /\ Open /\ pc' = pc
          /\ \E n \in 1 .. Block :
               /\ Len(to_server') = Len(to_server) + n /\ Len(to_server) \in Nat
               /\ \A i \in 1 .. Len(to_server) : to_server'[i] = to_server[i]
               /\ \A i \in Len(to_server) + 1 .. Len(to_server) + n :
                    to_server'[i].kind = "data" /\ to_server'[i].by = k
      BY <1>6, <2>3, SendFacts, ZenonT(60)
    <3>2. spc = "data" /\ owner # 0 =>
            /\ owner = k
            /\ \A i \in 1 .. Len(to_server') :
                 to_server'[i].kind = "data" /\ to_server'[i].by = owner
      BY <2>2, <3>1 DEF ReadInv, Block
    <3> QED BY <2>1, <2>2, <3>1, <3>2 DEF ReadInv, Open
  <2>4. CASE to_server' = to_server
    <3>1. pc' = [pc EXCEPT ![k] = "answer"]
      BY <1>6, <2>4, SendLonger
    <3>2. pc'[k] = "answer"
      BY <3>1 DEF ChildType
    <3> QED BY <2>1, <2>2, <2>4, <3>2 DEF ReadInv, Open
  <2> QED BY <2>3, <2>4
<1>7. ASSUME NEW k \in Frames, CAnswer(k) PROVE ReadInv'
  <2>1. /\ pc[k] = "answer" /\ UNCHANGED <<sockfd, server, to_server, torn>>
    BY <1>7 DEF CAnswer
  <2>2. sendLock = k
    BY <2>1 DEF LockInv, Exchange
  <2>3. CASE spc = "data" /\ owner # 0 /\ Open
    <3>1. to_client = <<>>
      BY <2>1, <2>2, <2>3 DEF ReadInv
    <3>2. Answered
      BY <1>7, <2>3 DEF CAnswer, Open
    <3> QED BY <2>3, <3>1, <3>2 DEF Answered, ServerGone
  <2> QED BY <2>1, <2>3 DEF ReadInv, Open
<1>8. ASSUME SHeader PROVE ReadInv'
  <2>1. /\ spc = "header" /\ to_server # <<>> /\ to_server' = Tail(to_server)
        /\ UNCHANGED <<sockfd, pc, sendLock, torn>> /\ from' = {}
    BY <1>8 DEF SHeader
  <2>2. Head(to_server) = to_server[1] /\ 1 \in 1 .. Len(to_server) /\ Len(to_server) \in Nat
    BY <2>1, HeadFacts DEF ServerType
  <2>3. to_server[1] \in Units /\ to_server[1].by # 0
    <3>1. to_server[1] \in Units
      BY <2>2 DEF ServerType
    <3> QED BY <3>1, FrameFacts DEF Units
  <2>4. CASE to_server[1].kind = "data"
    <3>1. spc' = "data" => file_size' = -1 /\ owner' = 0
      BY <1>8, <2>2, <2>4 DEF SHeader
    <3>2. torn'
      BY <2>1, <2>2, <2>4 DEF SizeInv
    <3> QED BY <3>1, <3>2 DEF ReadInv
  <2>5. CASE to_server[1].kind = "header" /\ spc' = "data"
    <3>1. owner' = to_server[1].by /\ to_client' = Append(to_client, "ok")
      BY <1>8, <2>2, <2>5 DEF SHeader
    <3>2. /\ Len(to_server) = 1
          /\ Open => sendLock = to_server[1].by /\ pc[sendLock] = "ack"
      BY <2>1, <2>2, <2>5 DEF HeaderInv
    <3>3. to_server' = <<>> /\ Len(to_server') = 0
      BY <2>1, <3>2, HeadFacts DEF ServerType
    <3>4. Open => to_client = <<>>
      BY <2>1, <3>2 DEF HeaderInv
    <3>5. Open => Len(to_client') = 1
      BY <3>1, <3>4
    <3> QED BY <2>1, <2>3, <3>1, <3>2, <3>3, <3>5 DEF ReadInv, Open
  <2>6. CASE spc' # "data"
    BY <2>6 DEF ReadInv
  <2> QED BY <2>3, <2>4, <2>5, <2>6 DEF Units
<1>9. ASSUME SData PROVE ReadInv'
  <2>1. PICK n \in 1 .. Len(to_server) : TakeOf(n)
    BY <1>9, TakeFacts
  <2>2. UNCHANGED <<sockfd, pc, sendLock, torn>>
    BY <1>9 DEF SData
  <2>3. CASE owner = 0
    <3>1. file_size = -1 /\ torn
      BY <2>1, <2>3 DEF TakeOf, ReadInv
    <3> QED BY <2>1, <2>2, <2>3, <3>1 DEF TakeOf, ReadInv
  <2>4. CASE owner # 0
    <3>1. \A i \in 1 .. Len(to_server) :
             to_server[i].kind = "data" /\ to_server[i].by = owner
      BY <2>1, <2>4 DEF TakeOf, ReadInv
    <3>2. from' \subseteq {owner}
      BY <2>1, <2>4, <3>1 DEF TakeOf, ReadInv
    <3>3. \A i \in 1 .. Len(to_server') :
             to_server'[i].kind = "data" /\ to_server'[i].by = owner
      BY <2>1, <3>1 DEF TakeOf
    <3>4. to_server # <<>>
      BY <2>1
    <3>5. Open => sendLock = owner /\ pc[owner] \in {"data", "answer"} /\ to_client = <<>>
      BY <2>1, <2>4, <3>4 DEF TakeOf, ReadInv
    <3>6. owner' = owner /\ (spc' = "data" => to_client' = to_client)
      BY <2>1 DEF TakeOf
    <3> QED BY <2>2, <2>4, <3>2, <3>3, <3>5, <3>6 DEF ReadInv, Open
  <2> QED BY <2>3, <2>4
<1>10. ASSUME SEnd PROVE ReadInv'
  <2> QED BY <1>10 DEF SEnd, ReadInv
<1>11. ASSUME SFail PROVE ReadInv'
  <2> QED BY <1>11 DEF SFail, ReadInv
<1> QED BY <1>1, <1>2, <1>3, <1>4, <1>5, <1>6, <1>7, <1>8, <1>9, <1>10, <1>11, WireSteps

(* Waiting for a header. *)
LEMMA HeaderStep ==
  ASSUME DisplayType, ChildType, ServerType, ChildInv, NameInv, LockInv, EndInv, ReadInv, HeaderInv, Next
  PROVE  HeaderInv'
<1> USE BoundsAssumption DEF process, display, child, drawn, wire, rwire, server, Exit, Goto
<1>1. ASSUME QuietStep PROVE HeaderInv'
  <2>1. \A i \in 1 .. Len(to_server) : to_server[i].by \in Frames
    <3>1. \A i \in 1 .. Len(to_server) : to_server[i] \in Units
      BY DEF ServerType
    <3> QED BY <3>1 DEF Units
  <2>2. sendLock # 0 => sendLock \in Frames
    BY FrameFacts DEF ChildType
  <2> QED BY <1>1, <2>1, <2>2 DEF QuietStep, HeaderInv, Exchange
<1>2. ASSUME NEW k \in Frames, CLock(k) PROVE HeaderInv'
  <2>1. /\ sendLock = 0 /\ UNCHANGED <<wire, server, sockfd>>
        /\ pc' = [pc EXCEPT ![k] = "header"]
    BY <1>2 DEF CLock
  <2>2. \A i \in 1 .. Len(to_server) : to_server[i].by # 0
    <3>1. \A i \in 1 .. Len(to_server) : to_server[i] \in Units
      BY DEF ServerType
    <3> QED BY <3>1, FrameFacts DEF Units
  <2>3. \A j \in Frames : pc[j] # "open" => pc'[j] # "open"
    BY <2>1 DEF ChildType
  <2> QED BY <2>1, <2>2, <2>3 DEF HeaderInv, Open
<1>3. ASSUME NEW k \in Frames, CHeader(k) PROVE HeaderInv'
  <2>1. pc[k] = "header" /\ sockfd' = sockfd /\ UNCHANGED <<server, to_client, stated, sendLock>>
    BY <1>3 DEF CHeader
  <2>2. sendLock = k /\ k # 0
    BY <2>1, FrameFacts DEF LockInv, Exchange
  <2>3. spc = "header" /\ Open =>
          /\ \A i \in 1 .. Len(to_server) : to_server[i].kind # "header"
          /\ to_client = <<>>
    BY <2>1, <2>2 DEF HeaderInv
  <2>4. CASE to_server' = to_server
    <3>1. \A j \in Frames : pc[j] # "open" => pc'[j] # "open"
      BY <1>3 DEF CHeader, ChildType
    <3> QED BY <2>1, <2>3, <2>4, <3>1 DEF HeaderInv, Open
  <2>5. CASE to_server' # to_server
    <3>1. PICK f \in FileName : /\ to_server' = Append(to_server, Header(k, f))
                                /\ pc' = [pc EXCEPT ![k] = "ack"]
      BY <1>3, <2>5 DEF CHeader
    <3>2. Open
      BY <1>3, <2>5 DEF CHeader, Open
    <3>3. /\ Len(to_server) \in Nat /\ Len(to_server') = Len(to_server) + 1
          /\ to_server'[Len(to_server) + 1] = Header(k, f)
          /\ \A i \in 1 .. Len(to_server) : to_server'[i] = to_server[i]
      BY <3>1 DEF ServerType
    <3>4. /\ Header(k, f).by = k /\ Header(k, f).size = SizeOf[stated[k]]
      BY DEF Header
    <3>5. pc'[k] = "ack" /\ \A j \in Frames : pc[j] # "open" => pc'[j] # "open"
      BY <3>1 DEF ChildType
    <3>6. ASSUME spc = "header", NEW i \in 1 .. Len(to_server'),
                 to_server'[i].kind = "header"
          PROVE i = Len(to_server') /\ to_server'[i] = Header(k, f)
      BY <2>3, <3>2, <3>3, <3>6
    <3> QED BY <2>1, <2>2, <2>3, <3>2, <3>4, <3>5, <3>6 DEF HeaderInv, Open
  <2> QED BY <2>4, <2>5
<1>4. ASSUME NEW k \in Frames, CAck(k) PROVE HeaderInv'
  <2>1. pc[k] = "ack" /\ UNCHANGED <<sockfd, server, to_server, stated, sendLock>>
    BY <1>4 DEF CAck
  <2>2. sendLock = k
    BY <2>1 DEF LockInv, Exchange
  <2>3. spc = "header" => ~Open
    <3>1. ASSUME spc = "header", Open PROVE FALSE
      <4>1. to_client = <<>>
        BY <2>1, <2>2, <3>1 DEF HeaderInv
      <4>2. Answered
        BY <1>4, <3>1 DEF CAck, Open
      <4> QED BY <3>1, <4>1, <4>2 DEF Answered, ServerGone
    <3> QED BY <3>1
  <2> QED BY <2>1, <2>3 DEF HeaderInv, Open
<1>5. ASSUME NEW k \in Frames, COpen(k) PROVE HeaderInv'
  <2>1. pc[k] = "open" /\ UNCHANGED <<sockfd, server, wire, stated, sendLock>>
    BY <1>5 DEF COpen
  <2> QED BY <2>1 DEF HeaderInv, Open
<1>6. ASSUME NEW k \in Frames, CData(k) PROVE HeaderInv'
  <2>1. pc[k] = "data" /\ UNCHANGED <<sockfd, server, to_client, stated, sendLock>>
    BY <1>6 DEF CData
  <2>2. sendLock = k
    BY <2>1 DEF LockInv, Exchange
  <2>3. spc = "header" /\ Open =>
          \A i \in 1 .. Len(to_server) : to_server[i].kind # "header"
    BY <2>1, <2>2 DEF HeaderInv
  <2>4. CASE to_server' # to_server
    <3>1. /\ Open /\ pc' = pc
          /\ \E n \in 1 .. Block :
               /\ Len(to_server') = Len(to_server) + n /\ Len(to_server) \in Nat
               /\ \A i \in 1 .. Len(to_server) : to_server'[i] = to_server[i]
               /\ \A i \in Len(to_server) + 1 .. Len(to_server) + n :
                    to_server'[i].kind = "data" /\ to_server'[i].by = k
      BY <1>6, <2>4, SendFacts, ZenonT(60)
    <3>2. spc = "header" => \A i \in 1 .. Len(to_server') : to_server'[i].kind # "header"
      BY <2>3, <3>1 DEF Block
    <3> QED BY <2>1, <3>1, <3>2 DEF HeaderInv, Open
  <2>5. CASE to_server' = to_server
    <3>1. pc' = [pc EXCEPT ![k] = "answer"]
      BY <1>6, <2>5, SendLonger
    <3>2. pc'[k] = "answer" /\ \A j \in Frames : pc[j] # "open" => pc'[j] # "open"
      BY <3>1 DEF ChildType
    <3> QED BY <2>1, <2>2, <2>3, <2>5, <3>2 DEF HeaderInv, Open
  <2> QED BY <2>4, <2>5
<1>7. ASSUME NEW k \in Frames, CAnswer(k) PROVE HeaderInv'
  <2>1. /\ pc[k] = "answer" /\ UNCHANGED <<sockfd, server, to_server, stated>>
        /\ pc' = [pc EXCEPT ![k] = "stat"] \/ pc' = [pc EXCEPT ![k] = "done"]
    BY <1>7 DEF CAnswer
  <2>2. sendLock = k
    BY <2>1 DEF LockInv, Exchange
  <2>3. spc = "header" /\ Open =>
          /\ \A i \in 1 .. Len(to_server) : to_server[i].kind # "header"
          /\ to_client' = <<>>
    <3>1. ASSUME spc = "header", Open
          PROVE /\ \A i \in 1 .. Len(to_server) : to_server[i].kind # "header"
                /\ to_client = <<>> \/ Len(to_client) = 1
      BY <2>1, <2>2, <3>1 DEF HeaderInv
    <3>2. ASSUME spc = "header", Open PROVE to_client # <<>> /\ to_client' = Tail(to_client)
      <4>1. Answered
        BY <1>7, <3>2 DEF CAnswer, Open
      <4> QED BY <3>2, <4>1 DEF Answered, ServerGone
    <3> QED BY <3>1, <3>2, HeadFacts DEF ServerType
  <2>4. \A j \in Frames : pc[j] # "open" => pc'[j] # "open"
    BY <2>1 DEF ChildType
  <2> QED BY <2>1, <2>3, <2>4 DEF HeaderInv, Open
<1>8. ASSUME SHeader PROVE HeaderInv'
  <2> QED BY <1>8 DEF SHeader, HeaderInv
<1>9. ASSUME SData PROVE HeaderInv'
  <2>1. PICK n \in 1 .. Len(to_server) : TakeOf(n)
    BY <1>9, TakeFacts
  <2>2. UNCHANGED <<sockfd, pc, stated, opened, sent, sendLock, torn>>
    BY <1>9 DEF SData
  <2>3. CASE spc' = "header"
    <3>1. owner # 0 /\ spc = "data" /\ to_client' = Append(to_client, "ok")
      BY <2>1, <2>3 DEF TakeOf, ReadInv
    <3>2. \A i \in 1 .. Len(to_server') : to_server'[i].kind = "data"
      BY <2>1, <3>1, SMTT(60) DEF TakeOf, ReadInv
    <3>3. Open => sendLock = owner /\ pc[owner] \in {"data", "answer"} /\ to_client = <<>>
      BY <2>1, <3>1 DEF ReadInv
    <3>4. Open => Len(to_client') = 1
      BY <3>1, <3>3
    <3>5. Open => \A j \in Frames : pc[j] # "open"
      BY <3>1, <3>3 DEF LockInv, Exchange
    <3> QED BY <2>2, <3>1, <3>2, <3>3, <3>4, <3>5 DEF HeaderInv, Open
  <2>4. CASE spc' # "header"
    BY <2>4 DEF HeaderInv
  <2> QED BY <2>3, <2>4
<1>10. ASSUME SEnd PROVE HeaderInv'
  <2> QED BY <1>10 DEF SEnd, HeaderInv
<1>11. ASSUME SFail PROVE HeaderInv'
  <2> QED BY <1>11 DEF SFail, HeaderInv
<1> QED BY <1>1, <1>2, <1>3, <1>4, <1>5, <1>6, <1>7, <1>8, <1>9, <1>10, <1>11, WireSteps

(* Sizes. *)
LEMMA SizeStep ==
  ASSUME DisplayType, ChildType, ServerType, ChildInv, NameInv, LockInv, EndInv, ReadInv, HeaderInv, SizeInv, Next
  PROVE  SizeInv'
<1> USE BoundsAssumption DEF process, display, child, drawn, wire, rwire, server, Exit, Goto
<1>1. ASSUME QuietStep PROVE SizeInv'
  <2>1. ~torn /\ spc = "data" => owner \in Frames
    BY FrameFacts DEF ReadInv, ServerType
  <2> QED BY <1>1, <2>1 DEF QuietStep, SizeInv, Exchange
<1>2. ASSUME NEW k \in Frames, CLock(k) PROVE SizeInv'
  <2>1. /\ sendLock = 0 /\ UNCHANGED <<wire, server, sockfd, torn, stated, opened, sent>>
        /\ pc' = [pc EXCEPT ![k] = "header"]
    BY <1>2 DEF CLock
  <2>2. \A j \in Frames : pc'[j] = pc[j] \/ pc'[j] = "header"
    BY <2>1 DEF ChildType
  <2>3. spc = "data" /\ ~torn => ~Open
    BY <2>1 DEF ReadInv
  <2> QED BY <2>1, <2>2, <2>3 DEF SizeInv, Open
<1>3. ASSUME NEW k \in Frames, CHeader(k) PROVE SizeInv'
  <2>1. pc[k] = "header" /\ UNCHANGED <<sockfd, server, stated, opened, sent>> /\ (torn => torn')
    BY <1>3 DEF CHeader
  <2>2. sendLock = k
    BY <2>1 DEF LockInv, Exchange
  <2>3. ASSUME spc = "data", ~torn PROVE ~Open /\ to_server' = to_server
    <3>1. ~Open
      BY <2>1, <2>2, <2>3 DEF ReadInv
    <3> QED BY <1>3, <3>1 DEF CHeader, Open
  <2>4. ASSUME spc = "header", ~torn
        PROVE \A i \in 1 .. Len(to_server') : to_server'[i].kind = "header"
    <3>1. \A f \in FileName : Header(k, f).kind = "header"
      BY DEF Header
    <3>2. to_server' = to_server \/ \E f \in FileName : to_server' = Append(to_server, Header(k, f))
      BY <1>3 DEF CHeader
    <3>3. \A i \in 1 .. Len(to_server) : to_server[i].kind = "header"
      BY <2>4 DEF SizeInv
    <3> QED BY <3>1, <3>2, <3>3 DEF ServerType
  <2>5. \A j \in Frames : pc'[j] = pc[j] \/ pc'[j] = "ack"
    BY <1>3 DEF CHeader, ChildType
  <2> QED BY <2>1, <2>3, <2>4, <2>5 DEF SizeInv, Open
<1>4. ASSUME NEW k \in Frames, CAck(k) PROVE SizeInv'
  <2>1. /\ pc[k] = "ack" /\ UNCHANGED <<sockfd, server, to_server, stated, opened, sent, torn>>
        /\ pc' = pc \/ pc' = [pc EXCEPT ![k] = "open"]
    BY <1>4 DEF CAck
  <2>2. /\ \A j \in Frames : pc'[j] = "data" => pc[j] = "data"
        /\ \A j \in Frames : pc'[j] \in {"ack", "open"} => pc[j] \in {"ack", "open"}
    BY <2>1 DEF ChildType
  <2>3. ~torn /\ spc = "data" => owner \in Frames
    BY FrameFacts DEF ReadInv, ServerType
  <2> QED BY <2>1, <2>2, <2>3 DEF SizeInv, Open
<1>5. ASSUME NEW k \in Frames, COpen(k) PROVE SizeInv'
  <2>1. /\ pc[k] = "open" /\ UNCHANGED <<sockfd, server, wire, stated>>
    BY <1>5 DEF COpen
  <2>0. torn => torn'
    BY <1>5 DEF COpen, ChildType
  <2>2. sendLock = k
    BY <2>1 DEF LockInv, Exchange
  <2>3. PICK f \in FileName :
          \/ UNCHANGED <<pc, opened, sent, torn>>
          \/ /\ f # 0 /\ opened' = [opened EXCEPT ![k] = f] /\ pc' = [pc EXCEPT ![k] = "data"]
             /\ sent' = [sent EXCEPT ![k] = 0]
             /\ torn' = (torn \/ SizeOf[f] # SizeOf[stated[k]])
    BY <1>5 DEF COpen
  <2>4. CASE UNCHANGED <<pc, opened, sent, torn>>
    BY <2>1, <2>4 DEF SizeInv, Open
  <2>5. CASE /\ ~torn' /\ opened' = [opened EXCEPT ![k] = f] /\ pc' = [pc EXCEPT ![k] = "data"]
             /\ sent' = [sent EXCEPT ![k] = 0]
             /\ torn' = (torn \/ SizeOf[f] # SizeOf[stated[k]])
    <3>1. SizeOf[f] = SizeOf[stated[k]] /\ ~torn
      BY <2>5
    <3>2. opened'[k] = f /\ sent'[k] = 0 /\ pc'[k] = "data"
      BY <2>5 DEF ChildType
    <3>3. ASSUME spc = "data", Open
          PROVE /\ owner = k /\ offset = 0 /\ Len(to_server) = 0
                /\ file_size = SizeOf[f]
      BY <2>1, <2>2, <3>1, <3>3 DEF ReadInv, SizeInv
    <3>4. SizeOf[f] - 0 = SizeOf[f] /\ 0 + 0 + SizeOf[f] = SizeOf[f] /\ SizeOf[f] <= SizeOf[f]
      <4>1. SizeOf[stated[k]] \in Nat
        BY <2>1, SizesAssumption DEF ChildInv
      <4> QED BY <3>1, <4>1
    <3>5. spc = "header" => ~Open
      BY <2>1 DEF HeaderInv
    <3> QED BY <2>1, <2>5, <3>1, <3>2, <3>3, <3>4, <3>5 DEF SizeInv, Open
  <2>6. CASE torn'
    BY <2>6 DEF SizeInv
  <2> QED BY <2>3, <2>4, <2>5, <2>6, Zenon
<1>6. ASSUME NEW k \in Frames, CData(k) PROVE SizeInv'
  <2>1. pc[k] = "data" /\ UNCHANGED <<sockfd, server, stated, opened, sendLock, torn>>
    BY <1>6 DEF CData
  <2>2. sendLock = k
    BY <2>1 DEF LockInv, Exchange
  <2>3. CASE to_server' # to_server /\ ~torn
    <3>1. /\ Open /\ pc' = pc
      BY <1>6, <2>3, SendFacts
    <3>2. PICK n \in 1 .. Block :
             /\ n <= SizeOf[opened[k]] - sent[k] /\ sent' = [sent EXCEPT ![k] = @ + n]
             /\ Len(to_server') = Len(to_server) + n /\ Len(to_server) \in Nat
      BY <1>6, <2>3, SendFacts, ZenonT(60)
    <3>3. /\ sent'[k] = sent[k] + n /\ sent[k] \in Nat /\ n \in Nat /\ n > 0
          /\ SizeOf[opened[k]] \in Nat /\ offset \in Nat /\ file_size \in Int
      <4>1. sent[k] \in Nat /\ n \in Nat /\ n > 0 /\ offset \in Nat /\ file_size \in Int
        BY <3>2 DEF ChildType, ServerType, Block
      <4>2. SizeOf[opened[k]] \in Nat
        BY <2>1, SizesAssumption DEF ChildInv
      <4>3. sent'[k] = sent[k] + n
        BY <3>2 DEF ChildType
      <4> QED BY <4>1, <4>2, <4>3
    <3>4. spc # "header"
      BY <2>1, <2>3, <3>1, <3>2, <3>3, SMTT(30) DEF SizeInv
    <3>5. ASSUME spc = "data"
          PROVE /\ owner = k
                /\ offset + Len(to_server) + (SizeOf[opened[k]] - sent[k]) <= file_size
      BY <2>1, <2>2, <2>3, <3>1, <3>5 DEF ReadInv, SizeInv
    <3>6. spc = "data" =>
            /\ offset + Len(to_server') <= file_size
            /\ offset + Len(to_server') + (SizeOf[opened[k]] - sent'[k]) <= file_size
      BY <3>2, <3>3, <3>5, SMTT(60)
    <3> QED BY <2>1, <3>1, <3>4, <3>5, <3>6 DEF SizeInv
  <2>4. CASE to_server' = to_server
    <3>1. sent' = sent /\ pc' = [pc EXCEPT ![k] = "answer"]
      BY <1>6, <2>4, SendLonger
    <3>2. \A j \in Frames : pc'[j] = pc[j] \/ pc'[j] = "answer"
      BY <3>1 DEF ChildType
    <3>3. ~torn /\ spc = "data" => owner \in Frames
      BY FrameFacts DEF ReadInv, ServerType
    <3> QED BY <2>1, <2>4, <3>1, <3>2, <3>3 DEF SizeInv, Open
  <2>5. CASE torn
    BY <2>1, <2>5 DEF SizeInv
  <2> QED BY <2>3, <2>4, <2>5
<1>7. ASSUME NEW k \in Frames, CAnswer(k) PROVE SizeInv'
  <2>1. /\ UNCHANGED <<sockfd, server, to_server, stated, opened, sent, torn>>
        /\ pc' = [pc EXCEPT ![k] = "stat"] \/ pc' = [pc EXCEPT ![k] = "done"]
    BY <1>7 DEF CAnswer
  <2>2. \A j \in Frames : pc'[j] = pc[j] \/ pc'[j] \in {"stat", "done"}
    BY <2>1 DEF ChildType
  <2>3. ~torn /\ spc = "data" => owner \in Frames
    BY FrameFacts DEF ReadInv, ServerType
  <2> QED BY <2>1, <2>2, <2>3 DEF SizeInv, Open
<1>8. ASSUME SHeader PROVE SizeInv'
  <2>1. /\ spc = "header" /\ to_server # <<>> /\ to_server' = Tail(to_server)
        /\ UNCHANGED <<sockfd, pc, stated, sendLock, torn>> /\ offset' = 0
        /\ spc' \in {"data", "gone"}
    BY <1>8 DEF SHeader
  <2>2. Head(to_server) = to_server[1] /\ 1 \in 1 .. Len(to_server) /\ Len(to_server) \in Nat
    BY <2>1, HeadFacts DEF ServerType
  <2>3. to_server[1].by # 0 /\ to_server[1].size \in Nat
    <3>1. to_server[1] \in Units
      BY <2>2 DEF ServerType
    <3> QED BY <3>1, FrameFacts DEF Units
  <2>4. CASE ~torn /\ spc' = "data"
    <3>1. to_server[1].kind = "header"
      BY <2>1, <2>2, <2>4 DEF SizeInv
    <3>2. owner' = to_server[1].by /\ file_size' = to_server[1].size
      BY <1>8, <2>2, <2>4, <3>1 DEF SHeader
    <3>3. /\ Len(to_server) = 1
          /\ Open => /\ sendLock = to_server[1].by /\ pc[sendLock] = "ack"
                     /\ to_server[1].size = SizeOf[stated[sendLock]]
      BY <2>1, <2>2, <3>1 DEF HeaderInv
    <3>4. Len(to_server') = 0
      BY <2>1, <3>3, HeadFacts DEF ServerType
    <3>5. offset' + Len(to_server') <= file_size'
      BY <2>1, <2>3, <3>2, <3>4
    <3> QED BY <2>1, <2>4, <3>2, <3>3, <3>5 DEF SizeInv, Open
  <2>5. CASE torn \/ spc' = "gone"
    BY <2>1, <2>5 DEF SizeInv
  <2> QED BY <2>1, <2>4, <2>5
<1>9. ASSUME SData PROVE SizeInv'
  <2>1. PICK n \in 1 .. Len(to_server) : TakeOf(n)
    BY <1>9, TakeFacts
  <2>2. UNCHANGED <<sockfd, pc, stated, opened, sent, sendLock, torn>>
    BY <1>9 DEF SData
  <2>3. CASE ~torn
    <3>1. /\ spc = "data" /\ owner # 0 /\ owner \in Frames /\ Len(to_server) \in Nat
          /\ to_server[1].kind # "header"
      <4>1. spc = "data" /\ owner # 0
        BY <2>1, <2>3 DEF TakeOf, ReadInv
      <4>2. 1 \in 1 .. Len(to_server) /\ Len(to_server) \in Nat
        BY <2>1 DEF TakeOf
      <4>3. to_server[1].kind = "data"
        BY <4>1, <4>2 DEF ReadInv
      <4> QED BY <4>1, <4>2, <4>3, FrameFacts DEF ServerType
    <3>2. /\ offset' = offset + n /\ Len(to_server') = Len(to_server) - n /\ n \in Nat
          /\ offset \in Nat /\ file_size \in Int /\ n <= Len(to_server)
          /\ file_size' = file_size /\ owner' = owner
      BY <2>1, <3>1 DEF TakeOf, Block, ServerType
    <3>3. offset + Len(to_server) <= file_size
      BY <2>3, <3>1 DEF SizeInv
    <3>4. offset' + Len(to_server') = offset + Len(to_server)
      BY <3>1, <3>2
    <3>5. Open => pc[owner] \in {"data", "answer"} /\ sendLock = owner
      <4>1. to_server # <<>>
        BY <2>1
      <4> QED BY <3>1, <4>1 DEF ReadInv
    <3>6. CASE spc' = "data"
      BY <2>2, <2>3, <3>1, <3>2, <3>3, <3>4, <3>5, <3>6 DEF SizeInv, Open
    <3>7. CASE spc' = "header"
      <4>1. offset' = file_size
        BY <2>1, <3>1, <3>7 DEF TakeOf
      <4>2. Len(to_server') = 0
        BY <3>1, <3>2, <3>3, <4>1
      <4>3. ASSUME Open, NEW j \in Frames, pc[j] = "data"
            PROVE sent[j] = SizeOf[opened[j]]
        <5>1. j = owner
          BY <3>5, <4>3 DEF LockInv, Exchange
        <5>2. /\ sent[j] \in Nat /\ SizeOf[opened[j]] \in Nat /\ sent[j] <= SizeOf[opened[j]]
          BY <4>3, SizesAssumption DEF ChildType, ChildInv
        <5>3. offset + Len(to_server) + (SizeOf[opened[j]] - sent[j]) <= file_size
          BY <2>3, <3>1, <4>3, <5>1 DEF SizeInv
        <5> QED BY <3>1, <3>2, <4>1, <5>2, <5>3, SMTT(30)
      <4> QED BY <2>2, <3>7, <4>2, <4>3 DEF SizeInv, Open
    <3> QED BY <2>1, <3>1, <3>6, <3>7 DEF TakeOf
  <2> QED BY <2>2, <2>3 DEF SizeInv
<1>10. ASSUME SEnd PROVE SizeInv'
  <2> QED BY <1>10 DEF SEnd, SizeInv
<1>11. ASSUME SFail PROVE SizeInv'
  <2> QED BY <1>11 DEF SFail, SizeInv
<1> QED BY <1>1, <1>2, <1>3, <1>4, <1>5, <1>6, <1>7, <1>8, <1>9, <1>10, <1>11, WireSteps

(* No frame is stored with data of another child. *)
LEMMA MixedStep ==
  ASSUME DisplayType, ChildType, ServerType, ChildInv, NameInv, LockInv, EndInv, ReadInv, FramesNotMixed, Next
  PROVE  FramesNotMixed'
<1> USE BoundsAssumption DEF process, display, child, drawn, wire, rwire, server, Exit, Goto
<1>1. ASSUME QuietStep PROVE FramesNotMixed'
  <2> QED BY <1>1 DEF QuietStep, FramesNotMixed
<1>2. ASSUME NEW k \in Frames, CLock(k) PROVE FramesNotMixed'
  BY <1>2 DEF CLock, FramesNotMixed
<1>3. ASSUME NEW k \in Frames, CHeader(k) PROVE FramesNotMixed'
  BY <1>3 DEF CHeader, FramesNotMixed, Header, FileName
<1>4. ASSUME NEW k \in Frames, CAck(k) PROVE FramesNotMixed'
  BY <1>4 DEF CAck, FramesNotMixed, Answered
<1>5. ASSUME NEW k \in Frames, COpen(k) PROVE FramesNotMixed'
  BY <1>5 DEF COpen, FramesNotMixed, FileName
<1>6. ASSUME NEW k \in Frames, CData(k) PROVE FramesNotMixed'
  BY <1>6 DEF CData, FramesNotMixed, Least, Block
<1>7. ASSUME NEW k \in Frames, CAnswer(k) PROVE FramesNotMixed'
  BY <1>7 DEF CAnswer, FramesNotMixed, Answered
<1>8. ASSUME SHeader PROVE FramesNotMixed'
  BY <1>8 DEF SHeader, FramesNotMixed
<1>9. ASSUME SData PROVE FramesNotMixed'
  <2>1. PICK n \in 1 .. Len(to_server) : TakeOf(n)
    BY <1>9, TakeFacts
  <2>2. owner # 0 => from' \subseteq {owner}
    <3>1. ASSUME owner # 0, NEW i \in 1 .. n PROVE to_server[i].by = owner
      BY <2>1, <3>1 DEF TakeOf, ReadInv
    <3> QED BY <2>1, <3>1 DEF TakeOf, ReadInv
  <2>3. saved' \subseteq saved \cup {[by |-> owner, from |-> from', whole |-> TRUE]}
    BY <2>1 DEF TakeOf
  <2> QED BY <2>2, <2>3 DEF FramesNotMixed
<1>10. ASSUME SEnd PROVE FramesNotMixed'
  <2> QED BY <1>10 DEF SEnd, Save, FramesNotMixed, ReadInv
<1>11. ASSUME SFail PROVE FramesNotMixed'
  BY <1>11 DEF SFail, FramesNotMixed
<1> QED BY <1>1, <1>2, <1>3, <1>4, <1>5, <1>6, <1>7, <1>8, <1>9, <1>10, <1>11, WireSteps

(* At most one answer is on its way. *)
LEMMA AnswersStep ==
  ASSUME DisplayType, ChildType, ServerType, ChildInv, NameInv, LockInv, EndInv, ReadInv, HeaderInv, SizeInv, AnswersInStep, Next
  PROVE  AnswersInStep'
<1> USE BoundsAssumption DEF process, display, child, drawn, wire, rwire, server, Exit, Goto
<1>1. ASSUME QuietStep PROVE AnswersInStep'
  <2>1. sendLock # 0 => sendLock \in Frames
    BY FrameFacts DEF ChildType
  <2> QED BY <1>1, <2>1 DEF QuietStep, AnswersInStep, Open, Exchange
<1>2. ASSUME NEW k \in Frames, CLock(k) PROVE AnswersInStep'
  BY <1>2 DEF CLock, AnswersInStep, Open
<1>3. ASSUME NEW k \in Frames, CHeader(k) PROVE AnswersInStep'
  <2>1. pc[k] = "header" /\ UNCHANGED <<sockfd, to_client, sendLock>> /\ (torn => torn')
    BY <1>3 DEF CHeader
  <2>2. sendLock = k
    BY <2>1 DEF LockInv, Exchange
  <2> QED BY <2>1, <2>2 DEF AnswersInStep
<1>4. ASSUME NEW k \in Frames, CAck(k) PROVE AnswersInStep'
  <2>1. UNCHANGED <<sockfd, sendLock, torn>>
    BY <1>4 DEF CAck
  <2>2. sockfd # "closed" => Answered
    BY <1>4 DEF CAck
  <2>3. ASSUME ~torn, sockfd # "closed" PROVE to_client' = <<>>
    BY <2>2, <2>3, HeadFacts DEF Answered, AnswersInStep, ServerType
  <2> QED BY <2>1, <2>3 DEF AnswersInStep
<1>5. ASSUME NEW k \in Frames, COpen(k) PROVE AnswersInStep'
  <2>1. pc[k] = "open" /\ UNCHANGED <<sockfd, to_client, sendLock>>
    BY <1>5 DEF COpen
  <2>0. torn => torn'
    BY <1>5 DEF COpen, ChildType
  <2>2. sendLock = k
    BY <2>1 DEF LockInv, Exchange
  <2> QED BY <2>0, <2>1, <2>2 DEF AnswersInStep
<1>6. ASSUME NEW k \in Frames, CData(k) PROVE AnswersInStep'
  <2>1. /\ pc[k] = "data" /\ UNCHANGED <<sockfd, to_client, sendLock, torn>>
        /\ pc' = pc \/ pc' = [pc EXCEPT ![k] = "answer"]
    BY <1>6 DEF CData
  <2>2. sendLock = k /\ k # 0
    BY <2>1, FrameFacts DEF LockInv, Exchange
  <2>3. pc'[k] \in {"data", "answer"}
    BY <2>1 DEF ChildType
  <2> QED BY <2>1, <2>2, <2>3 DEF AnswersInStep
<1>7. ASSUME NEW k \in Frames, CAnswer(k) PROVE AnswersInStep'
  <2>1. UNCHANGED <<sockfd, torn>>
    BY <1>7 DEF CAnswer
  <2>2. sockfd # "closed" => Answered
    BY <1>7 DEF CAnswer
  <2>3. ASSUME ~torn, sockfd # "closed" PROVE to_client' = <<>>
    BY <2>2, <2>3, HeadFacts DEF Answered, AnswersInStep, ServerType
  <2> QED BY <2>1, <2>3 DEF AnswersInStep
<1>8. ASSUME SHeader PROVE AnswersInStep'
  <2>1. /\ spc = "header" /\ to_server # <<>> /\ UNCHANGED <<sockfd, pc, sendLock, torn>>
        /\ to_client' = to_client \/ to_client' = Append(to_client, "ok")
    BY <1>8 DEF SHeader
  <2>2. ASSUME ~torn, Open
        PROVE to_client = <<>> /\ sendLock # 0 /\ pc[sendLock] = "ack"
    <3>1. 1 \in 1 .. Len(to_server)
      BY <2>1, HeadFacts DEF ServerType
    <3>2. to_server[1].kind = "header"
      BY <2>1, <2>2, <3>1 DEF SizeInv
    <3>3. to_server[1].by # 0
      <4>1. to_server[1] \in Units
        BY <3>1 DEF ServerType
      <4> QED BY <4>1, FrameFacts DEF Units
    <3> QED BY <2>1, <2>2, <3>1, <3>2, <3>3 DEF HeaderInv
  <2>3. ASSUME ~torn, Open PROVE Len(to_client') <= 1
    <3>1. to_client' = <<>> \/ to_client' = Append(<<>>, "ok")
      BY <2>1, <2>2, <2>3
    <3> QED BY <3>1, OneAnswer, Zenon
  <2> QED BY <2>1, <2>2, <2>3 DEF AnswersInStep, Open
<1>9. ASSUME SData PROVE AnswersInStep'
  <2>1. PICK n \in 1 .. Len(to_server) : TakeOf(n)
    BY <1>9, TakeFacts
  <2>2. UNCHANGED <<sockfd, pc, stated, opened, sent, sendLock, torn>>
    BY <1>9 DEF SData
  <2>3. ASSUME ~torn, Open
        PROVE /\ sendLock # 0 /\ pc[sendLock] \in {"data", "answer"}
              /\ to_client = <<>>
    <3>1. spc = "data" /\ to_server # <<>>
      BY <2>1 DEF TakeOf
    <3> QED BY <2>3, <3>1 DEF ReadInv
  <2>4. to_client' = to_client \/ to_client' = Append(to_client, "ok")
    BY <2>1 DEF TakeOf
  <2>5. ASSUME ~torn, Open PROVE Len(to_client') <= 1
    <3>1. to_client' = <<>> \/ to_client' = Append(<<>>, "ok")
      BY <2>3, <2>4, <2>5
    <3> QED BY <3>1, OkFacts
  <2> QED BY <2>2, <2>3, <2>5 DEF AnswersInStep, Open
<1>10. ASSUME SEnd PROVE AnswersInStep'
  BY <1>10 DEF SEnd, AnswersInStep, Open, Save
<1>11. ASSUME SFail PROVE AnswersInStep'
  BY <1>11 DEF SFail, AnswersInStep, Open
<1> QED BY <1>1, <1>2, <1>3, <1>4, <1>5, <1>6, <1>7, <1>8, <1>9, <1>10, <1>11, WireSteps

-----------------------------------------------------------------------------
(* The inductive invariant. *)
LEMMA InitIInv == ASSUME Init PROVE IInv
<1> USE DEF Init
<1>1. DisplayType /\ ChildType /\ DrawnType
  <2>1. DisplayType
    <3>1. index \in 0 .. MaxFrames /\ trans_info \in 0 .. MaxFrames
      BY BoundsAssumption
    <3>2. test \in BOOLEAN /\ global_stop \in BOOLEAN /\ sockfd = "none"
          /\ client = "up" /\ dpc = "connect"
      BY Zenon
    <3> QED BY <3>1, <3>2 DEF DisplayType
  <2>2. ChildType
    <3>1. /\ 0 \in 0 .. MaxFrames /\ 0 \in 0 .. SizePerTime /\ 0 \in Nat
          /\ "none" \in PStates
      BY BoundsAssumption DEF PStates
    <3>2. torn \in BOOLEAN
      BY Zenon
    <3> QED BY <3>1, <3>2 DEF ChildType
  <2>3. DrawnType
    <3>1. /\ counter \in 1 .. SizePerTime /\ 0 \in 0 .. MaxResults
      BY BoundsAssumption
    <3>2. drawResult \in BOOLEAN
      BY Zenon
    <3>3. rlink \in Seq(0 .. MaxResults)
      OBVIOUS
    <3> QED BY <3>1, <3>2, <3>3 DEF DrawnType
  <2> QED BY <2>1, <2>2, <2>3
<1>2. ServerType
  BY BoundsAssumption DEF ServerType
<1>3. ChildInv /\ NameInv
  <2>1. ChildInv
    BY BoundsAssumption DEF ChildInv
  <2>2. NameInv
    BY BoundsAssumption DEF NameInv, Frames
  <2> QED BY <2>1, <2>2
<1>4. LockInv /\ DrawnInv /\ EndInv
  BY FrameFacts DEF LockInv, Exchange, DrawnInv, EndInv, Open
<1>5. ReadInv /\ HeaderInv /\ SizeInv
  BY DEF ReadInv, HeaderInv, SizeInv, Open
<1>6. FramesNotMixed /\ AnswersInStep /\ NeverAnOlderFrame
  BY OkFacts DEF FramesNotMixed, AnswersInStep, NeverAnOlderFrame
<1> QED BY <1>1, <1>2, <1>3, <1>4, <1>5, <1>6 DEF IInv

\* A step that changes nothing keeps the invariant.
LEMMA StutterIInv == ASSUME IInv, UNCHANGED vars PROVE IInv'
<1> USE DEF IInv, vars, process, display, child, drawn, wire, rwire, server
<1>1. DisplayType' /\ ChildType' /\ DrawnType' /\ ServerType'
  BY SMTT(30) DEF DisplayType, ChildType, DrawnType, ServerType
<1>2. ChildInv' /\ NameInv' /\ LockInv' /\ DrawnInv' /\ EndInv' /\ NeverAnOlderFrame'
  BY DEF ChildInv, NameInv, LockInv, DrawnInv, EndInv, Open, NeverAnOlderFrame
<1>3. ReadInv' /\ HeaderInv' /\ SizeInv'
  <2>1. ReadInv'
    BY DEF ReadInv, Open
  <2>2. HeaderInv'
    BY DEF HeaderInv, Open
  <2>3. SizeInv'
    BY DEF SizeInv, Open
  <2> QED BY <2>1, <2>2, <2>3
<1>4. FramesNotMixed' /\ AnswersInStep'
  BY DEF FramesNotMixed, AnswersInStep
<1> QED BY <1>1, <1>2, <1>3, <1>4

\* Every action keeps every part of the invariant.
LEMMA StepIInv == ASSUME IInv, Next PROVE IInv'
<1> USE DEF IInv
<1>1. DisplayType' /\ ChildType' /\ DrawnType' /\ ServerType'
  BY DisplayTypeStep, ChildTypeStep, DrawnTypeStep, ServerTypeStep
<1>2. ChildInv' /\ NameInv' /\ LockInv' /\ DrawnInv' /\ EndInv' /\ NeverAnOlderFrame'
  BY ChildInvStep, NameStep, LockStep, DrawnStep, EndStep, OlderStep
<1>3. ReadInv' /\ HeaderInv' /\ SizeInv'
  BY ReadStep, HeaderStep, SizeStep
<1>4. FramesNotMixed' /\ AnswersInStep'
  BY MixedStep, AnswersStep
<1> QED BY <1>1, <1>2, <1>3, <1>4

\* The inductive invariant holds in every reachable state.
THEOREM Invariance == Spec => []IInv
<1>1. Init => IInv
  BY InitIInv
<1>2. IInv /\ [Next]_vars => IInv'
  BY StutterIInv, StepIInv
<1> QED BY <1>1, <1>2, PTL DEF Spec

(* Every variable has its type.                                              *)
THEOREM TypeCorrect == Spec => []TypeOK
<1>1. IInv => TypeOK
  BY DEF IInv, DisplayType, ChildType, PStates, DrawnType, ServerType, TypeOK
<1> QED BY <1>1, Invariance, PTL

(* A frame the server stores under a header holds nothing of another child.  *)
THEOREM NoMixing == Spec => []FramesNotMixed
BY Invariance, PTL DEF IInv

(* An answer on its way is for the child that has the lock and waits for it, *)
(* unless the client has closed or a file name changed under a child.        *)
THEOREM InStep == Spec => []AnswersInStep
BY Invariance, PTL DEF IInv

(* The drawing starts from strings and coordinates of one result.            *)
THEOREM OneResultDrawn == Spec => []DrawnResultIsOne
<1>1. IInv => DrawnResultIsOne
  BY DEF IInv, DrawnInv, DrawnResultIsOne
<1> QED BY <1>1, Invariance, PTL

(* A child sends no frame that was started before its own.                   *)
THEOREM NoOlderFrame == Spec => []NeverAnOlderFrame
BY Invariance, PTL DEF IInv
=============================================================================
