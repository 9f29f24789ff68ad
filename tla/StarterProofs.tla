---------------------------- MODULE StarterProofs ----------------------------
(* Proofs about Starter: what is in the port, in the network and with the    *)
(* spout goes with what each starter has done.                               *)
EXTENDS Starter, SequenceTheorems, TLAPS

Answers(s) == {<<"none", s>>, <<"spout", s>>}
Came == net \cup ToSet(inbox)

\* The port has at most one owner, and the two recv() fill their variables once.
PortInv ==
  \A s \in Starters :
    /\ pc[s] \in {"where", "wait"} => port = s
    /\ pc[s] \in {"bind", "where"} => told[s] = None
    /\ pc[s] # "done" => printed[s] = None

\* A frame that the spout has read in full is of a starter that has gone on.
FrameInv ==
  /\ spc \in {"size", "data", "close", "emit", "broken"} => serverSock # None
  /\ \A s \in Starters :
       /\ link[s] = "sized" => spc = "data" /\ serverSock = s
       /\ link[s] # "none" => pc[s] \notin {"bind", "where", "connect"}
       /\ \/ s \in tuples \/ Result(s) \in Came
          \/ serverSock = s /\ spc \in {"close", "emit"}
          => link[s] = "sent"

\* A question is answered once.
OnceInv ==
  \A s \in Starters :
    /\ s \in where => Answers(s) \cap Came = {}
    /\ pc[s] = "bind" => s \notin where /\ Answers(s) \cap Came = {}
    /\ Answers(s) \cap net = {} \/ Answers(s) \cap ToSet(inbox) = {}
    /\ \A a, b \in Answers(s) \cap net : a = b

\* A starter has read the result of another for the answer of SpoutFinder.
Stray == \E u, v \in Starters : u # v /\ told[u] = Result(v)

\* Without that, an answer is on its way only while its starter waits for it.
AnswerInv ==
  Stray \/ \A s \in Starters :
             s \in where \/ Answers(s) \cap Came # {} => pc[s] = "where"

\* The picture of s, or its result, is somewhere, was lost or was read.
Kept(s) ==
  \/ serverSock = s /\ spc \in {"data", "close", "emit"}
  \/ s \in tuples \/ Result(s) \in Came \cup dropped
  \/ \E u \in Starters : told[u] = Result(s) \/ printed[u] = Result(s)

IInv ==
  /\ TypeOK /\ PortInv /\ FrameInv /\ OnceInv /\ AnswerInv
  /\ ResultKept /\ PrintsResults


-----------------------------------------------------------------------------
(* Sequences as sets. *)
LEMMA ToSetFacts ==
  ASSUME NEW S, NEW q \in Seq(S)
  PROVE  /\ ToSet(q) \subseteq S
         /\ ToSet(<<>>) = {}
         /\ \A e \in S : ToSet(Append(q, e)) = ToSet(q) \cup {e}
         /\ q # <<>> => /\ Head(q) \in S /\ Tail(q) \in Seq(S)
                        /\ ToSet(q) = {Head(q)} \cup ToSet(Tail(q))
<1>1. ToSet(q) \subseteq S /\ ToSet(<<>>) = {}
  BY DEF ToSet
<1>2. ASSUME NEW e \in S PROVE ToSet(Append(q, e)) = ToSet(q) \cup {e}
  <2>1. /\ Len(Append(q, e)) = Len(q) + 1 /\ Append(q, e)[Len(q) + 1] = e
        /\ \A i \in 1 .. Len(q) : Append(q, e)[i] = q[i]
        /\ DOMAIN q = 1 .. Len(q) /\ DOMAIN Append(q, e) = 1 .. Len(q) + 1
        /\ Len(q) \in Nat
    OBVIOUS
  <2> QED BY <2>1 DEF ToSet
<1>3. ASSUME q # <<>>
      PROVE  /\ Head(q) \in S /\ Tail(q) \in Seq(S)
             /\ ToSet(q) = {Head(q)} \cup ToSet(Tail(q))
  <2>1. /\ Head(q) \in S /\ Tail(q) \in Seq(S) /\ Len(Tail(q)) = Len(q) - 1
        /\ \A i \in 1 .. Len(Tail(q)) : Tail(q)[i] = q[i + 1]
    BY <1>3, HeadTailProperties
  <2>2. /\ DOMAIN q = 1 .. Len(q) /\ DOMAIN Tail(q) = 1 .. Len(Tail(q))
        /\ Len(q) \in Nat /\ Len(q) > 0 /\ Head(q) = q[1]
    BY <1>3, <2>1
  <2>3. \A i \in 2 .. Len(q) : i - 1 \in 1 .. Len(Tail(q)) /\ q[i] = Tail(q)[i - 1]
    BY <2>1, <2>2
  <2>4. ToSet(Tail(q)) \subseteq ToSet(q) /\ Head(q) \in ToSet(q)
    BY <2>1, <2>2 DEF ToSet
  <2>5. ASSUME NEW i \in DOMAIN q PROVE q[i] \in {Head(q)} \cup ToSet(Tail(q))
    <3>1. i = 1 \/ i \in 2 .. Len(q)
      BY <2>2
    <3> QED BY <2>2, <2>3, <3>1 DEF ToSet
  <2>6. ToSet(q) \subseteq {Head(q)} \cup ToSet(Tail(q))
    BY <2>5 DEF ToSet
  <2> QED BY <2>1, <2>4, <2>6
<1> QED BY <1>1, <1>2, <1>3

(* The steps of Next, one disjunct each. *)
LEMMA NextSteps ==
  ASSUME Next
  PROVE  \/ \E s \in Starters :
              \/ Ask(s) \/ Answer(s) \/ Connect(s) \/ Image(s) \/ Reset(s)
              \/ BindAgain(s) \/ PrintResult(s) \/ Where(s) \/ BMatch(s)
         \/ \E m \in Datagrams : Deliver(m) \/ Lose(m)
         \/ Here \/ PListen \/ PAccept \/ PSize \/ PData \/ PClose \/ PEmit
BY DEF Next, main, Spout

\* A result is a datagram.
LEMMA ResultDatagram ==
  \A s \in Starters : Result(s) \in Datagrams /\ Result(s) # None
BY StartersAssumption DEF Result, Datagrams

(* What the two recv() of a starter, and a delivery, do to the datagrams. *)
LEMMA ReadFacts ==
  ASSUME TypeOK, NEW s \in Starters, NEW l, Read(s, l)
  PROVE  /\ pc[s] = l /\ port' = None /\ inbox' \in Seq(Datagrams) /\ ToSet(inbox') = {}
         /\ Head(inbox) \in Datagrams /\ Head(inbox) \in ToSet(inbox)
         /\ ToSet(inbox) \subseteq Datagrams
         /\ dropped \subseteq dropped' /\ dropped' \subseteq Datagrams
         /\ \A m \in ToSet(inbox) : m = Head(inbox) \/ m \in dropped'
BY ToSetFacts DEF Read, TypeOK

\* A datagram that is delivered is in the starter's socket or was dropped.
LEMMA DeliverFacts ==
  ASSUME TypeOK, NEW m \in Datagrams, Deliver(m)
  PROVE  /\ m \in net /\ net' = net \ {m} /\ inbox' \in Seq(Datagrams)
         /\ dropped \subseteq dropped' /\ dropped' \subseteq Datagrams
         /\ \/ ToSet(inbox') = ToSet(inbox) /\ m \in dropped'
            \/ ToSet(inbox') = ToSet(inbox) \cup {m}
<1>1. CASE port = None
  BY <1>1 DEF Deliver, TypeOK
<1>2. CASE port # None
  <2>1. inbox' = Append(inbox, m) /\ inbox' \in Seq(Datagrams)
    BY <1>2, SMTT(60) DEF Deliver, TypeOK
  <2>2. ToSet(Append(inbox, m)) = ToSet(inbox) \cup {m}
    BY ToSetFacts DEF TypeOK
  <2> QED BY <1>2, <2>1, <2>2 DEF Deliver, TypeOK
<1> QED BY <1>1, <1>2

(* Types are kept. *)
LEMMA TypeStep ==
  ASSUME TypeOK, FrameInv, Next
  PROVE  TypeOK'
<1> USE DEF starter, socket, finding, udp, spout, Goto, Spouting
<1>1. ASSUME NEW s \in Starters, Ask(s) PROVE TypeOK'
  BY <1>1 DEF Ask, TypeOK
<1>2. ASSUME NEW s \in Starters, Answer(s) PROVE TypeOK'
  BY <1>2, ReadFacts, ZenonT(60) DEF Answer, TypeOK
<1>3. ASSUME NEW s \in Starters, Connect(s) PROVE TypeOK'
  <2>1. backlog' \in Seq(Starters)
    BY <1>3 DEF Connect, TypeOK
  <2> QED BY <1>3, <2>1, ZenonT(60) DEF Connect, TypeOK

<1>4. ASSUME NEW s \in Starters, Image(s) PROVE TypeOK'
  BY <1>4 DEF Image, TypeOK
<1>5. ASSUME NEW s \in Starters, Reset(s) PROVE TypeOK'
  BY <1>5 DEF Reset, TypeOK
<1>6. ASSUME NEW s \in Starters, BindAgain(s) PROVE TypeOK'
  BY <1>6 DEF BindAgain, TypeOK
<1>7. ASSUME NEW s \in Starters, PrintResult(s) PROVE TypeOK'
  BY <1>7, ReadFacts DEF PrintResult, TypeOK
<1>8. ASSUME NEW s \in Starters, Where(s) PROVE TypeOK'
  BY <1>8 DEF Where, TypeOK, Datagrams
<1>9. ASSUME NEW s \in Starters, BMatch(s) PROVE TypeOK'
  BY <1>9 DEF BMatch, TypeOK, Datagrams, Result
<1>10. ASSUME NEW m \in Datagrams, Deliver(m) PROVE TypeOK'
  BY <1>10, DeliverFacts DEF Deliver, TypeOK
<1>11. ASSUME NEW m \in Datagrams, Lose(m) PROVE TypeOK'
  BY <1>11 DEF Lose, TypeOK, Datagrams
<1>12. ASSUME Here PROVE TypeOK'
  BY <1>12 DEF Here, TypeOK
<1>13. ASSUME PListen PROVE TypeOK'
  BY <1>13 DEF PListen, TypeOK
<1>14. ASSUME PAccept PROVE TypeOK'
  BY <1>14, ToSetFacts DEF PAccept, TypeOK
<1>15. ASSUME PSize PROVE TypeOK'
  BY <1>15 DEF PSize, TypeOK, FrameInv
<1>16. ASSUME PData PROVE TypeOK'
  BY <1>16 DEF PData, TypeOK
<1>17. ASSUME PClose PROVE TypeOK'
  BY <1>17, ToSetFacts DEF PClose, TypeOK
<1>18. ASSUME PEmit PROVE TypeOK'
  BY <1>18 DEF PEmit, TypeOK, FrameInv
<1> QED BY <1>1, <1>2, <1>3, <1>4, <1>5, <1>6, <1>7, <1>8, <1>9, <1>10, <1>11, <1>12, <1>13, <1>14, <1>15, <1>16, <1>17, <1>18, NextSteps

(* Who has the port. *)
LEMMA PortStep ==
  ASSUME TypeOK, PortInv, Next
  PROVE  PortInv'
<1> USE DEF starter, socket, finding, udp, spout, Goto, Spouting
<1>1. ASSUME NEW s \in Starters, Ask(s) PROVE PortInv'
  BY <1>1, StartersAssumption DEF Ask, TypeOK, PortInv
<1>2. ASSUME NEW s \in Starters, Answer(s) PROVE PortInv'
  BY <1>2, StartersAssumption, ReadFacts DEF Answer, TypeOK, PortInv
<1>3. ASSUME NEW s \in Starters, Connect(s) PROVE PortInv'
  BY <1>3, StartersAssumption DEF Connect, TypeOK, PortInv, Listening
<1>4. ASSUME NEW s \in Starters, Image(s) PROVE PortInv'
  BY <1>4, StartersAssumption DEF Image, TypeOK, PortInv
<1>5. ASSUME NEW s \in Starters, Reset(s) PROVE PortInv'
  BY <1>5, StartersAssumption DEF Reset, TypeOK, PortInv
<1>6. ASSUME NEW s \in Starters, BindAgain(s) PROVE PortInv'
  BY <1>6, StartersAssumption DEF BindAgain, TypeOK, PortInv
<1>7. ASSUME NEW s \in Starters, PrintResult(s) PROVE PortInv'
  BY <1>7, StartersAssumption, ReadFacts DEF PrintResult, TypeOK, PortInv
<1>8. ASSUME NEW s \in Starters, Where(s) PROVE PortInv'
  BY <1>8, StartersAssumption DEF Where, TypeOK, PortInv
<1>9. ASSUME NEW s \in Starters, BMatch(s) PROVE PortInv'
  BY <1>9, StartersAssumption DEF BMatch, TypeOK, PortInv
<1>10. ASSUME NEW m \in Datagrams, Deliver(m) PROVE PortInv'
  BY <1>10, StartersAssumption, DeliverFacts DEF Deliver, TypeOK, PortInv
<1>11. ASSUME NEW m \in Datagrams, Lose(m) PROVE PortInv'
  BY <1>11, StartersAssumption DEF Lose, TypeOK, PortInv
<1>12. ASSUME Here PROVE PortInv'
  BY <1>12, StartersAssumption DEF Here, TypeOK, PortInv
<1>13. ASSUME PListen PROVE PortInv'
  BY <1>13, StartersAssumption DEF PListen, TypeOK, PortInv
<1>14. ASSUME PAccept PROVE PortInv'
  BY <1>14, StartersAssumption DEF PAccept, TypeOK, PortInv
<1>15. ASSUME PSize PROVE PortInv'
  BY <1>15, StartersAssumption DEF PSize, TypeOK, PortInv
<1>16. ASSUME PData PROVE PortInv'
  BY <1>16, StartersAssumption DEF PData, TypeOK, PortInv
<1>17. ASSUME PClose PROVE PortInv'
  BY <1>17, StartersAssumption DEF PClose, TypeOK, PortInv
<1>18. ASSUME PEmit PROVE PortInv'
  BY <1>18, StartersAssumption DEF PEmit, TypeOK, PortInv
<1> QED BY <1>1, <1>2, <1>3, <1>4, <1>5, <1>6, <1>7, <1>8, <1>9, <1>10, <1>11, <1>12, <1>13, <1>14, <1>15, <1>16, <1>17, <1>18, NextSteps

(* A result comes of a frame that was sent. *)
LEMMA FrameStep ==
  ASSUME TypeOK, PortInv, FrameInv, Next
  PROVE  FrameInv'
<1> USE DEF starter, socket, finding, udp, spout, Goto, Spouting
<1>1. ASSUME NEW s \in Starters, Ask(s) PROVE FrameInv'
  BY <1>1 DEF Ask, TypeOK, FrameInv, Came
<1>2. ASSUME NEW s \in Starters, Answer(s) PROVE FrameInv'
  BY <1>2, ReadFacts DEF Answer, TypeOK, FrameInv, Came
<1>3. ASSUME NEW s \in Starters, Connect(s) PROVE FrameInv'
  BY <1>3 DEF Connect, TypeOK, FrameInv, Came, Listening
<1>4. ASSUME NEW s \in Starters, Image(s) PROVE FrameInv'
  BY <1>4 DEF Image, TypeOK, FrameInv, Came
<1>5. ASSUME NEW s \in Starters, Reset(s) PROVE FrameInv'
  BY <1>5 DEF Reset, TypeOK, FrameInv, Came
<1>6. ASSUME NEW s \in Starters, BindAgain(s) PROVE FrameInv'
  BY <1>6 DEF BindAgain, TypeOK, FrameInv, Came
<1>7. ASSUME NEW s \in Starters, PrintResult(s) PROVE FrameInv'
  BY <1>7, ReadFacts DEF PrintResult, TypeOK, FrameInv, Came
<1>8. ASSUME NEW s \in Starters, Where(s) PROVE FrameInv'
  <2>1. \A u \in Starters : Result(u) \in Came' => Result(u) \in Came
    BY <1>8 DEF Where, TypeOK, Came, Result
  <2> QED BY <1>8, <2>1 DEF Where, FrameInv

<1>9. ASSUME NEW s \in Starters, BMatch(s) PROVE FrameInv'
  <2>1. \A u \in Starters : Result(u) \in Came' => Result(u) \in Came \/ u = s
    BY <1>9 DEF BMatch, Came, Result
  <2> QED BY <1>9, <2>1 DEF BMatch, FrameInv

<1>10. ASSUME NEW m \in Datagrams, Deliver(m) PROVE FrameInv'
  BY <1>10, DeliverFacts DEF Deliver, TypeOK, FrameInv, Came
<1>11. ASSUME NEW m \in Datagrams, Lose(m) PROVE FrameInv'
  BY <1>11 DEF Lose, TypeOK, FrameInv, Came
<1>12. ASSUME Here PROVE FrameInv'
  BY <1>12 DEF Here, TypeOK, FrameInv, Came
<1>13. ASSUME PListen PROVE FrameInv'
  BY <1>13 DEF PListen, TypeOK, FrameInv, Came
<1>14. ASSUME PAccept PROVE FrameInv'
  <2>1. backlog # <<>> /\ serverSock' = Head(backlog) /\ Head(backlog) \in Starters
    BY <1>14, ToSetFacts DEF PAccept, TypeOK
  <2> QED BY <1>14, <2>1, StartersAssumption DEF PAccept, FrameInv, Came

<1>15. ASSUME PSize PROVE FrameInv'
  BY <1>15 DEF PSize, TypeOK, FrameInv, Came
<1>16. ASSUME PData PROVE FrameInv'
  BY <1>16 DEF PData, TypeOK, FrameInv, Came
<1>17. ASSUME PClose PROVE FrameInv'
  BY <1>17 DEF PClose, TypeOK, FrameInv, Came
<1>18. ASSUME PEmit PROVE FrameInv'
  BY <1>18 DEF PEmit, TypeOK, FrameInv, Came
<1> QED BY <1>1, <1>2, <1>3, <1>4, <1>5, <1>6, <1>7, <1>8, <1>9, <1>10, <1>11, <1>12, <1>13, <1>14, <1>15, <1>16, <1>17, <1>18, NextSteps

(* A question is answered once. *)
LEMMA OnceStep ==
  ASSUME TypeOK, OnceInv, Next
  PROVE  OnceInv'
<1> USE DEF starter, socket, finding, udp, spout, Goto, Spouting
<1>1. ASSUME NEW s \in Starters, Ask(s) PROVE OnceInv'
  BY <1>1 DEF Ask, TypeOK, OnceInv, Came, Answers
<1>2. ASSUME NEW s \in Starters, Answer(s) PROVE OnceInv'
  BY <1>2, ReadFacts DEF Answer, TypeOK, OnceInv, Came, Answers
<1>3. ASSUME NEW s \in Starters, Connect(s) PROVE OnceInv'
  BY <1>3, SMTT(30) DEF Connect, TypeOK, OnceInv, Came, Answers, Listening
<1>4. ASSUME NEW s \in Starters, Image(s) PROVE OnceInv'
  BY <1>4 DEF Image, TypeOK, OnceInv, Came, Answers
<1>5. ASSUME NEW s \in Starters, Reset(s) PROVE OnceInv'
  BY <1>5 DEF Reset, TypeOK, OnceInv, Came, Answers
<1>6. ASSUME NEW s \in Starters, BindAgain(s) PROVE OnceInv'
  BY <1>6 DEF BindAgain, TypeOK, OnceInv, Came, Answers
<1>7. ASSUME NEW s \in Starters, PrintResult(s) PROVE OnceInv'
  BY <1>7, ReadFacts DEF PrintResult, TypeOK, OnceInv, Came, Answers
<1>8. ASSUME NEW s \in Starters, Where(s) PROVE OnceInv'
  <2>1. /\ Answers(s) \cap net = {} /\ Answers(s) \cap ToSet(inbox) = {}
        /\ pc[s] # "bind" /\ s \notin where'
    BY <1>8 DEF Where, TypeOK, OnceInv, Came
  <2>2. Answers(s) \cap net' = {<<finder, s>>} /\ inbox' = inbox /\ pc' = pc
    BY <1>8, <2>1 DEF Where, TypeOK, Answers
  <2>3. ASSUME NEW u \in Starters, u # s
        PROVE (u \in where' <=> u \in where) /\ Answers(u) \cap net' = Answers(u) \cap net
    BY <1>8, <2>3 DEF Where, Answers
  <2> QED BY <2>1, <2>2, <2>3 DEF OnceInv, Came

<1>9. ASSUME NEW s \in Starters, BMatch(s) PROVE OnceInv'
  BY <1>9 DEF BMatch, TypeOK, OnceInv, Came, Answers, Result
<1>10. ASSUME NEW m \in Datagrams, Deliver(m) PROVE OnceInv'
  BY <1>10, DeliverFacts DEF Deliver, TypeOK, OnceInv, Came, Answers
<1>11. ASSUME NEW m \in Datagrams, Lose(m) PROVE OnceInv'
  BY <1>11, SMTT(30) DEF Lose, TypeOK, OnceInv, Came, Answers
<1>12. ASSUME Here PROVE OnceInv'
  BY <1>12 DEF Here, OnceInv, Came, Answers
<1>13. ASSUME PListen PROVE OnceInv'
  BY <1>13 DEF PListen, OnceInv, Came, Answers
<1>14. ASSUME PAccept PROVE OnceInv'
  BY <1>14 DEF PAccept, OnceInv, Came, Answers
<1>15. ASSUME PSize PROVE OnceInv'
  BY <1>15 DEF PSize, OnceInv, Came, Answers
<1>16. ASSUME PData PROVE OnceInv'
  BY <1>16 DEF PData, OnceInv, Came, Answers
<1>17. ASSUME PClose PROVE OnceInv'
  BY <1>17 DEF PClose, OnceInv, Came, Answers
<1>18. ASSUME PEmit PROVE OnceInv'
  BY <1>18 DEF PEmit, OnceInv, Came, Answers
<1> QED BY <1>1, <1>2, <1>3, <1>4, <1>5, <1>6, <1>7, <1>8, <1>9, <1>10, <1>11, <1>12, <1>13, <1>14, <1>15, <1>16, <1>17, <1>18, NextSteps

(* An answer is on its way while its starter waits for it. *)
LEMMA AnswerStep ==
  ASSUME TypeOK, PortInv, FrameInv, OnceInv, AnswerInv, Next
  PROVE  AnswerInv'
<1> USE DEF starter, socket, finding, udp, spout, Goto, Spouting
<1>1. ASSUME NEW s \in Starters, Ask(s) PROVE AnswerInv'
  BY <1>1 DEF Ask, TypeOK, PortInv, OnceInv, AnswerInv, Stray, Came, Answers
<1>2. ASSUME NEW s \in Starters, Answer(s) PROVE AnswerInv'
  <2>1. CASE Stray'
    BY <2>1 DEF AnswerInv
  <2>2. CASE ~Stray'
    <3>1. ~Stray
      <4>1. told[s] = None /\ \A u \in Starters : u # s => told'[u] = told[u]
        BY <1>2 DEF Answer, Read, TypeOK, PortInv
      <4>2. \A v \in Starters : Result(v) # None
        BY ResultDatagram
      <4> QED BY <2>2, <4>1, <4>2 DEF Stray
    <3>2. PICK k \in {"none", "spout", "result"}, w \in Starters : Head(inbox) = <<k, w>>
      BY <1>2, ReadFacts DEF Answer, Datagrams
    <3>3. k # "result"
      <4>1. k = "result" => w # s
        <5>1. k = "result" => Result(w) \in Came
          BY <1>2, <3>2, ReadFacts DEF Answer, Came, Result
        <5> QED BY <1>2, <5>1, ReadFacts DEF Answer, FrameInv
      <4> QED BY <1>2, <2>2, <3>2, <4>1 DEF Answer, TypeOK, Stray, Result
    <3>4. w = s
      <4>1. Head(inbox) \in Answers(w) \cap Came
        BY <1>2, <3>2, <3>3, ReadFacts DEF Answer, Answers, Came
      <4> QED BY <1>2, <3>1, <4>1, ReadFacts DEF Answer, AnswerInv, PortInv
    <3>5. /\ s \notin where /\ Answers(s) \cap net = {}
      <4>1. Head(inbox) \in Answers(s) /\ Head(inbox) \in ToSet(inbox)
        BY <1>2, <3>2, <3>3, <3>4, ReadFacts DEF Answer, Answers
      <4> QED BY <4>1 DEF OnceInv, Came
    <3>6. Came' = net /\ where' = where
      BY <1>2, ReadFacts DEF Answer, Came
    <3>7. \A u \in Starters : u # s => pc'[u] = pc[u]
      BY <1>2 DEF Answer, TypeOK
    <3>8. ASSUME NEW u \in Starters, u \in where' \/ Answers(u) \cap Came' # {}
          PROVE pc'[u] = "where"
      BY <3>1, <3>5, <3>6, <3>7, <3>8 DEF AnswerInv, Came
    <3> QED BY <3>8 DEF AnswerInv, Answers
  <2> QED BY <2>1, <2>2

<1>3. ASSUME NEW s \in Starters, Connect(s) PROVE AnswerInv'
  BY <1>3 DEF Connect, TypeOK, PortInv, OnceInv, AnswerInv, Stray, Came, Answers, Listening
<1>4. ASSUME NEW s \in Starters, Image(s) PROVE AnswerInv'
  BY <1>4 DEF Image, TypeOK, PortInv, OnceInv, AnswerInv, Stray, Came, Answers
<1>5. ASSUME NEW s \in Starters, Reset(s) PROVE AnswerInv'
  BY <1>5 DEF Reset, TypeOK, PortInv, OnceInv, AnswerInv, Stray, Came, Answers
<1>6. ASSUME NEW s \in Starters, BindAgain(s) PROVE AnswerInv'
  BY <1>6 DEF BindAgain, TypeOK, PortInv, OnceInv, AnswerInv, Stray, Came, Answers
<1>7. ASSUME NEW s \in Starters, PrintResult(s) PROVE AnswerInv'
  BY <1>7, ReadFacts DEF PrintResult, TypeOK, PortInv, OnceInv, AnswerInv, Stray, Came, Answers
<1>8. ASSUME NEW s \in Starters, Where(s) PROVE AnswerInv'
  BY <1>8 DEF Where, TypeOK, PortInv, OnceInv, AnswerInv, Stray, Came, Answers
<1>9. ASSUME NEW s \in Starters, BMatch(s) PROVE AnswerInv'
  BY <1>9 DEF BMatch, TypeOK, AnswerInv, Stray, Came, Answers, Result
<1>10. ASSUME NEW m \in Datagrams, Deliver(m) PROVE AnswerInv'
  BY <1>10, DeliverFacts, ZenonT(60) DEF Deliver, TypeOK, PortInv, OnceInv, AnswerInv, Stray, Came, Answers
<1>11. ASSUME NEW m \in Datagrams, Lose(m) PROVE AnswerInv'
  BY <1>11 DEF Lose, TypeOK, PortInv, OnceInv, AnswerInv, Stray, Came, Answers
<1>12. ASSUME Here PROVE AnswerInv'
  BY <1>12 DEF Here, TypeOK, PortInv, OnceInv, AnswerInv, Stray, Came, Answers
<1>13. ASSUME PListen PROVE AnswerInv'
  BY <1>13 DEF PListen, TypeOK, PortInv, OnceInv, AnswerInv, Stray, Came, Answers
<1>14. ASSUME PAccept PROVE AnswerInv'
  BY <1>14 DEF PAccept, TypeOK, PortInv, OnceInv, AnswerInv, Stray, Came, Answers
<1>15. ASSUME PSize PROVE AnswerInv'
  BY <1>15 DEF PSize, TypeOK, PortInv, OnceInv, AnswerInv, Stray, Came, Answers
<1>16. ASSUME PData PROVE AnswerInv'
  BY <1>16 DEF PData, TypeOK, PortInv, OnceInv, AnswerInv, Stray, Came, Answers
<1>17. ASSUME PClose PROVE AnswerInv'
  BY <1>17 DEF PClose, TypeOK, PortInv, OnceInv, AnswerInv, Stray, Came, Answers
<1>18. ASSUME PEmit PROVE AnswerInv'
  BY <1>18 DEF PEmit, TypeOK, PortInv, OnceInv, AnswerInv, Stray, Came, Answers
<1> QED BY <1>1, <1>2, <1>3, <1>4, <1>5, <1>6, <1>7, <1>8, <1>9, <1>10, <1>11, <1>12, <1>13, <1>14, <1>15, <1>16, <1>17, <1>18, NextSteps

(* A picture that was sent leaves a trace in every state from then on. *)
LEMMA KeptStep ==
  ASSUME TypeOK, PortInv, FrameInv, Next, NEW u \in Starters, Kept(u)
  PROVE  Kept(u)'
<1> USE DEF starter, socket, finding, udp, spout, Goto, Spouting
<1>1. ASSUME NEW s \in Starters, Ask(s) PROVE Kept(u)'
  BY <1>1 DEF Ask, TypeOK, Kept, Came
<1>2. ASSUME NEW s \in Starters, Answer(s) PROVE Kept(u)'
  <2>1. /\ told[s] = None /\ told' = [told EXCEPT ![s] = Head(inbox)] /\ printed' = printed
        /\ \A v \in Starters : v # s => told'[v] = told[v]
        /\ told'[s] = Head(inbox)
        /\ UNCHANGED <<serverSock, spc, tuples, net>>
    BY <1>2 DEF Answer, Read, TypeOK, PortInv
  <2>2. Result(u) \in ToSet(inbox) => Result(u) = Head(inbox) \/ Result(u) \in dropped'
    BY <1>2, ReadFacts DEF Answer
  <2>3. \A v \in Starters : told[v] = Result(u) => told'[v] = Result(u)
    BY <2>1, ResultDatagram
  <2>4. dropped \subseteq dropped'
    BY <1>2, ReadFacts DEF Answer
  <2> QED BY <2>1, <2>2, <2>3, <2>4 DEF Kept, Came
<1>3. ASSUME NEW s \in Starters, Connect(s) PROVE Kept(u)'
  BY <1>3 DEF Connect, TypeOK, Kept, Came, Listening
<1>4. ASSUME NEW s \in Starters, Image(s) PROVE Kept(u)'
  BY <1>4 DEF Image, TypeOK, Kept, Came
<1>5. ASSUME NEW s \in Starters, Reset(s) PROVE Kept(u)'
  BY <1>5 DEF Reset, TypeOK, Kept, Came
<1>6. ASSUME NEW s \in Starters, BindAgain(s) PROVE Kept(u)'
  BY <1>6 DEF BindAgain, TypeOK, Kept, Came
<1>7. ASSUME NEW s \in Starters, PrintResult(s) PROVE Kept(u)'
  <2>1. /\ printed[s] = None /\ printed' = [printed EXCEPT ![s] = Head(inbox)] /\ told' = told
        /\ \A v \in Starters : v # s => printed'[v] = printed[v]
        /\ printed'[s] = Head(inbox)
        /\ UNCHANGED <<serverSock, spc, tuples, net>>
    BY <1>7 DEF PrintResult, Read, TypeOK, PortInv
  <2>2. Result(u) \in ToSet(inbox) => Result(u) = Head(inbox) \/ Result(u) \in dropped'
    BY <1>7, ReadFacts DEF PrintResult
  <2>3. \A v \in Starters : printed[v] = Result(u) => printed'[v] = Result(u)
    BY <2>1, ResultDatagram
  <2>4. dropped \subseteq dropped'
    BY <1>7, ReadFacts DEF PrintResult
  <2> QED BY <2>1, <2>2, <2>3, <2>4 DEF Kept, Came
<1>8. ASSUME NEW s \in Starters, Where(s) PROVE Kept(u)'
  BY <1>8 DEF Where, TypeOK, Kept, Came
<1>9. ASSUME NEW s \in Starters, BMatch(s) PROVE Kept(u)'
  BY <1>9 DEF BMatch, TypeOK, Kept, Came
<1>10. ASSUME NEW m \in Datagrams, Deliver(m) PROVE Kept(u)'
  BY <1>10, DeliverFacts DEF Deliver, TypeOK, Kept, Came
<1>11. ASSUME NEW m \in Datagrams, Lose(m) PROVE Kept(u)'
  BY <1>11 DEF Lose, TypeOK, Kept, Came
<1>12. ASSUME Here PROVE Kept(u)'
  BY <1>12 DEF Here, TypeOK, Kept, Came
<1>13. ASSUME PListen PROVE Kept(u)'
  BY <1>13 DEF PListen, TypeOK, Kept, Came
<1>14. ASSUME PAccept PROVE Kept(u)'
  BY <1>14 DEF PAccept, TypeOK, Kept, Came
<1>15. ASSUME PSize PROVE Kept(u)'
  BY <1>15 DEF PSize, TypeOK, Kept, Came
<1>16. ASSUME PData PROVE Kept(u)'
  BY <1>16 DEF PData, TypeOK, Kept, Came
<1>17. ASSUME PClose PROVE Kept(u)'
  BY <1>17 DEF PClose, TypeOK, Kept, Came
<1>18. ASSUME PEmit PROVE Kept(u)'
  BY <1>18 DEF PEmit, TypeOK, Kept, Came
<1> QED BY <1>1, <1>2, <1>3, <1>4, <1>5, <1>6, <1>7, <1>8, <1>9, <1>10, <1>11, <1>12, <1>13, <1>14, <1>15, <1>16, <1>17, <1>18, NextSteps

(* What is printed. *)
LEMMA PrintStep ==
  ASSUME TypeOK, PortInv, AnswerInv, PrintsResults, Next
  PROVE  PrintsResults'
<1> USE DEF starter, socket, finding, udp, spout, Goto, Spouting
<1>1. ASSUME NEW s \in Starters, Ask(s) PROVE PrintsResults'
  BY <1>1 DEF Ask, TypeOK, PrintsResults
<1>2. ASSUME NEW s \in Starters, Answer(s) PROVE PrintsResults'
  <2>1. /\ told[s] = None /\ \A v \in Starters : v # s => told'[v] = told[v]
        /\ printed' = printed
    BY <1>2 DEF Answer, Read, TypeOK, PortInv
  <2>2. \A u, v \in Starters : told[u] = Result(v) => told'[u] = told[u]
    BY <2>1, ResultDatagram
  <2> QED BY <2>1, <2>2 DEF PrintsResults

<1>3. ASSUME NEW s \in Starters, Connect(s) PROVE PrintsResults'
  BY <1>3 DEF Connect, TypeOK, PrintsResults, Listening
<1>4. ASSUME NEW s \in Starters, Image(s) PROVE PrintsResults'
  BY <1>4 DEF Image, TypeOK, PrintsResults
<1>5. ASSUME NEW s \in Starters, Reset(s) PROVE PrintsResults'
  BY <1>5 DEF Reset, TypeOK, PrintsResults
<1>6. ASSUME NEW s \in Starters, BindAgain(s) PROVE PrintsResults'
  BY <1>6 DEF BindAgain, TypeOK, PrintsResults
<1>7. ASSUME NEW s \in Starters, PrintResult(s) PROVE PrintsResults'
  <2>1. PICK k \in {"none", "spout", "result"}, w \in Starters : Head(inbox) = <<k, w>>
    BY <1>7, ReadFacts DEF PrintResult, Datagrams
  <2>2. k = "result" \/ Stray
    <3>1. CASE k # "result"
      <4>1. Head(inbox) \in Answers(w) \cap Came
        BY <1>7, <2>1, <3>1, ReadFacts DEF PrintResult, Answers, Came
      <4> QED BY <1>7, <4>1, ReadFacts DEF PrintResult, AnswerInv, PortInv
    <3> QED BY <3>1
  <2>3. printed' = [printed EXCEPT ![s] = <<k, w>>] /\ told' = told
    BY <1>7, <2>1 DEF PrintResult
  <2> QED BY <2>2, <2>3 DEF TypeOK, PrintsResults, Stray

<1>8. ASSUME NEW s \in Starters, Where(s) PROVE PrintsResults'
  BY <1>8 DEF Where, TypeOK, PrintsResults
<1>9. ASSUME NEW s \in Starters, BMatch(s) PROVE PrintsResults'
  BY <1>9 DEF BMatch, TypeOK, PrintsResults
<1>10. ASSUME NEW m \in Datagrams, Deliver(m) PROVE PrintsResults'
  BY <1>10, DeliverFacts DEF Deliver, TypeOK, PrintsResults
<1>11. ASSUME NEW m \in Datagrams, Lose(m) PROVE PrintsResults'
  BY <1>11 DEF Lose, TypeOK, PrintsResults
<1>12. ASSUME Here PROVE PrintsResults'
  BY <1>12 DEF Here, TypeOK, PrintsResults
<1>13. ASSUME PListen PROVE PrintsResults'
  BY <1>13 DEF PListen, TypeOK, PrintsResults
<1>14. ASSUME PAccept PROVE PrintsResults'
  BY <1>14 DEF PAccept, TypeOK, PrintsResults
<1>15. ASSUME PSize PROVE PrintsResults'
  BY <1>15 DEF PSize, TypeOK, PrintsResults
<1>16. ASSUME PData PROVE PrintsResults'
  BY <1>16 DEF PData, TypeOK, PrintsResults
<1>17. ASSUME PClose PROVE PrintsResults'
  BY <1>17 DEF PClose, TypeOK, PrintsResults
<1>18. ASSUME PEmit PROVE PrintsResults'
  BY <1>18 DEF PEmit, TypeOK, PrintsResults
<1> QED BY <1>1, <1>2, <1>3, <1>4, <1>5, <1>6, <1>7, <1>8, <1>9, <1>10, <1>11, <1>12, <1>13, <1>14, <1>15, <1>16, <1>17, <1>18, NextSteps

(* Only a picture that was just sent makes a starter wait.                   *)
LEMMA ResultStep ==
  ASSUME TypeOK, PortInv, FrameInv, ResultKept, Next
  PROVE  ResultKept'
<1>1. ASSUME NEW u \in Starters
      PROVE Kept(u) <=> Coming(u) \/ Result(u) \in dropped \/ ReadBy(Result(u)) # {}
  BY DEF Kept, Coming, ReadBy, Came
<1>2. ASSUME NEW u \in Starters
      PROVE (Kept(u) <=> Coming(u) \/ Result(u) \in dropped \/ ReadBy(Result(u)) # {})'
  BY DEF Kept, Coming, ReadBy, Came
<1>3. ASSUME NEW u \in Starters, pc'[u] \in {"again", "wait"} PROVE Kept(u)'
  <2>1. pc[u] \in {"again", "wait"} \/ Image(u)
    <3> USE DEF starter, Goto, TypeOK
    <3>1. UNCHANGED pc \/ \E s \in Starters :
             Ask(s) \/ Answer(s) \/ Connect(s) \/ Image(s) \/ Reset(s) \/ BindAgain(s)
             \/ PrintResult(s)
      BY NextSteps DEF Where, BMatch, Deliver, Lose, Here, PListen, PAccept, PSize,
                       PData, PClose, PEmit
    <3>2. ASSUME NEW s \in Starters,
                 Ask(s) \/ Answer(s) \/ Connect(s) \/ Reset(s) \/ BindAgain(s)
                 \/ PrintResult(s)
          PROVE pc[u] \in {"again", "wait"}
      BY <1>3, <3>2 DEF Ask, Answer, Connect, Reset, BindAgain, PrintResult
    <3>3. ASSUME NEW s \in Starters, Image(s) PROVE pc[u] \in {"again", "wait"} \/ Image(u)
      <4>1. CASE s # u
        BY <1>3, <3>3, <4>1 DEF Image
      <4> QED BY <3>3, <4>1
    <3> QED BY <1>3, <3>1, <3>2, <3>3
  <2>2. CASE pc[u] \in {"again", "wait"}
    BY <1>1, <2>2, KeptStep DEF ResultKept
  <2>3. CASE Image(u)
    BY <2>3 DEF Image, FrameInv, Kept, spout
  <2> QED BY <2>1, <2>2, <2>3
<1> QED BY <1>2, <1>3 DEF ResultKept

-----------------------------------------------------------------------------
(* The inductive invariant. *)
LEMMA InitIInv == ASSUME Init PROVE IInv
<1>1. /\ TypeOK /\ Came = {}
  BY ToSetFacts DEF Init, TypeOK, Datagrams, Came, ToSet
<1> QED
  BY <1>1 DEF Init, IInv, PortInv, FrameInv, OnceInv, AnswerInv, ResultKept,
              PrintsResults, Came

\* A step that changes nothing keeps the invariant.
LEMMA StutterIInv == ASSUME IInv, UNCHANGED vars PROVE IInv'
BY DEF IInv, TypeOK, PortInv, FrameInv, OnceInv, AnswerInv, Stray, ResultKept, Coming,
       ReadBy, PrintsResults, Came, Answers, vars, starter, socket, finding, udp, spout

\* The inductive invariant holds in every reachable state.
THEOREM Invariance == Spec => []IInv
<1>1. Init => IInv
  BY InitIInv
<1>2. IInv /\ [Next]_vars => IInv'
  BY StutterIInv, TypeStep, PortStep, FrameStep, OnceStep, AnswerStep, ResultStep,
     PrintStep DEF IInv
<1> QED BY <1>1, <1>2, PTL DEF Spec

(* Every variable has its type.                                              *)
THEOREM TypeCorrect == Spec => []TypeOK
BY Invariance, PTL DEF IInv

(* A starter that has sent its picture waits in vain only if its result was  *)
(* lost, came while nobody had the port, or was read by another.             *)
THEOREM PictureKept == Spec => []ResultKept
BY Invariance, PTL DEF IInv

(* What a starter prints is a result, unless a result was taken for          *)
(* SpoutFinder's answer before.                                              *)
THEOREM OnlyResultsPrinted == Spec => []PrintsResults
BY Invariance, PTL DEF IInv
=============================================================================
