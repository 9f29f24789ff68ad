------------------------------ MODULE StormLink ------------------------------
(***************************************************************************)
(* The server with Storm: server_transmit gives a received frame to the    *)
(* spout, over a connection of its own, or to Kafka, and queues its name;  *)
(* server_result takes one UDP datagram from port 9879 for every name it   *)
(* pops.  A datagram carries a result and nothing that says whose it is.   *)
(* The spout of storm/.../StormMatch.java takes one frame per nextTuple(), *)
(* the bolts match frames in parallel and send the datagrams; with Kafka   *)
(* the tuples are acknowledged, and emitted again when that does not come. *)
(* server_run first asks SpoutFinder for the spout.                        *)
(*                                                                         *)
(* A session is one user's pair of connections; its heap objects are named *)
(* by it.                                                                  *)
(***************************************************************************)
EXTENDS Integers, Sequences, FiniteSets, SequencesExt

CONSTANTS
  Sessions,     \* the users, each logging in once
  FramesOf,     \* bound: how many frames a session has
  MaxPending,   \* setMaxSpoutPending: tuples of Kafka not acknowledged
  MaxReplays,   \* bound: times a tuple is emitted again
  Lossy,        \* whether datagrams and tuples may be lost
  None          \* nobody

Frames == UNION {{s} \X (1 .. FramesOf[s]) : s \in Sessions}

ASSUME SessionsAssumption == IsFiniteSet(Sessions) /\ None \notin Sessions
                             /\ "server_run" \notin Sessions
ASSUME BoundsAssumption ==
  /\ FramesOf \in [Sessions -> Nat] /\ MaxPending \in Nat \ {0}
  /\ MaxReplays \in Nat
ASSUME LossyAssumption == Lossy \in BOOLEAN

VARIABLES
  kafka,                            \* the -kafka option
  server, port, trouble,            \* server_run, the UDP port 9879
  here, finder,                     \* the spout's announcement, SpoutFinder
  client,                           \* the session's client, as the server sees it
  tpc, frames, link,                \* server_transmit
  rpc, sem, sem_live, queue, logged_in, got,    \* server_result
  spc, serverSock, backlog, img,    \* the spout
  tuples, topic, offset, pending, replays,      \* Storm and Kafka
  net                               \* results on their way to port 9879

process == <<kafka, server, port, trouble>>
finding == <<here, finder>>
transmit == <<tpc, frames, link>>
result == <<rpc, sem, sem_live, queue, logged_in, got>>
spout == <<spc, serverSock, backlog, img>>
storm == <<tuples, topic, offset, pending, replays, net>>
vars == <<process, finding, client, transmit, result, spout, storm>>

Init ==
  /\ kafka \in BOOLEAN
  /\ server = "start" /\ port = None /\ trouble = FALSE
  /\ here = "unsent" /\ finder = "none"
  /\ client = [s \in Sessions |-> "up"]
  /\ tpc = [s \in Sessions |-> "idle"] /\ frames = [s \in Sessions |-> 0]
  /\ link = [s \in Sessions |-> "none"]
  /\ rpc = [s \in Sessions |-> "idle"] /\ sem = [s \in Sessions |-> 0]
  /\ sem_live = [s \in Sessions |-> FALSE] /\ queue = [s \in Sessions |-> <<>>]
  /\ logged_in = [s \in Sessions |-> FALSE] /\ got = [s \in Sessions |-> <<>>]
  /\ spc = "closed" /\ serverSock = None /\ backlog = <<>>
  /\ img = <<None, 0>>
  /\ tuples = {} /\ topic = <<>> /\ offset = 0 /\ pending = {}
  /\ replays = [f \in Frames |-> 0] /\ net = [f \in Frames |-> 0]

-----------------------------------------------------------------------------
(* server_run and SpoutFinder *)

(* Mutants, here and below, are definitions changed the way a slip in the    *)
(* code would change them; no specification uses one.                        *)

\* With Kafka there is nobody to ask.  Otherwise the port of the results is
\* bound for the answer to "where".
Start ==
  /\ server = "start"
  /\ IF kafka THEN server' = "up" /\ UNCHANGED port
              ELSE server' = "asking" /\ port' = "server_run"
  /\ UNCHANGED <<kafka, trouble, finding, client, transmit, result, spout, storm>>

\* SpoutFinder, at "here" and at "where".
Found == finder' = "spout"
SpoutIP == IF finder = "spout" THEN "up" ELSE "off"

\* The answer: a server that is told "none" returns to main() and ends.  When
\* "where" or the answer is lost it goes on waiting.
Told ==
  /\ server = "asking" /\ port' = None
  /\ server' = SpoutIP
  /\ UNCHANGED <<kafka, trouble, finding, client, transmit, result, spout, storm>>

\* "here" is sent once, from the first nextTuple().
Here ==
  /\ ~kafka /\ here = "unsent" /\ here' = "sent"
  /\ \/ Found /\ UNCHANGED trouble
     \/ Lossy /\ trouble' = TRUE /\ UNCHANGED finder
  /\ UNCHANGED <<kafka, server, port, client, transmit, result, spout, storm>>

-----------------------------------------------------------------------------
(* The clients: a session begins, and ends by closing its connections. *)

Begin(s) ==
  /\ server = "up" /\ tpc[s] = "idle"
  /\ tpc' = [tpc EXCEPT ![s] = "read"] /\ rpc' = [rpc EXCEPT ![s] = "open"]
  /\ logged_in' = [logged_in EXCEPT ![s] = TRUE]
  /\ UNCHANGED <<process, finding, client, frames, link, sem, sem_live, queue, got,
                 spout, storm>>

Close(s) ==
  /\ tpc[s] # "idle" /\ client[s] = "up" /\ client' = [client EXCEPT ![s] = "closed"]
  /\ UNCHANGED <<process, finding, transmit, result, spout, storm>>

-----------------------------------------------------------------------------
(* server_transmit *)

Frame(s) == <<s, frames[s]>>
TGoto(s, l) == tpc' = [tpc EXCEPT ![s] = l]
Link(s, l) == link' = [link EXCEPT ![s] = l]

TRead(s) ==
  /\ tpc[s] = "read" /\ client[s] = "up" /\ frames[s] < FramesOf[s]
  /\ frames' = [frames EXCEPT ![s] = @ + 1]
  /\ TGoto(s, IF kafka THEN "produce" ELSE "connect")
  /\ UNCHANGED <<process, finding, client, link, result, spout, storm>>

\* KafkaProducer::send: a failure is reported on the screen only.
TProduce(s) ==
  /\ tpc[s] = "produce" /\ TGoto(s, "push")
  /\ \/ topic' = Append(topic, Frame(s)) /\ UNCHANGED trouble
     \/ trouble' = TRUE /\ UNCHANGED topic
  /\ UNCHANGED <<kafka, server, port, finding, client, frames, link, result, spout,
                 tuples, offset, pending, replays, net>>

\* Nobody looks whether the spout listens.
TConnectBlind(s) ==
  /\ tpc[s] = "connect" /\ TGoto(s, "push")
  /\ IF spc \in {"closed", "emit"} THEN UNCHANGED <<backlog, link>>
     ELSE backlog' = Append(backlog, s) /\ Link(s, "queued")
  /\ UNCHANGED <<process, finding, client, frames, result, spc, serverSock, img, storm>>

\* connect(), tried again until the spout listens, and the size.
TConnect(s) ==
  /\ tpc[s] = "connect" /\ spc \notin {"closed", "emit"}
  /\ backlog' = Append(backlog, s) /\ Link(s, "queued") /\ TGoto(s, "ack")
  /\ UNCHANGED <<process, finding, client, frames, result, spc, serverSock, img, storm>>

\* The answer to the size, then the image.
TImage(s) ==
  /\ tpc[s] = "ack" /\ link[s] = "sized" /\ TGoto(s, "ack2")
  /\ UNCHANGED <<process, finding, client, frames, link, result, spout, storm>>

\* The ack.
TAck(s) ==
  /\ tpc[s] = "ack2" /\ link[s] = "acked" /\ Link(s, "none") /\ TGoto(s, "push")
  /\ UNCHANGED <<process, finding, client, frames, result, spout, storm>>

\* An error on the connection to the spout: the function returns, and leaves
\* the user logged in and the result thread waiting.
TReset(s) ==
  /\ tpc[s] = "ack" /\ link[s] = "reset"
  /\ TGoto(s, "left") /\ trouble' = TRUE
  /\ UNCHANGED <<kafka, server, port, finding, client, frames, link, result, spout,
                 storm>>

TPush(s) ==
  /\ tpc[s] = "push" /\ rpc[s] # "open"     \* spins until the semaphore is there
  /\ queue' = [queue EXCEPT ![s] = Append(@, Frame(s))] /\ TGoto(s, "post")
  /\ UNCHANGED <<process, finding, client, frames, link, rpc, sem, sem_live,
                 logged_in, got, spout, storm>>

\* The address in sem_map may be that of a semaphore already deleted.
Post(s) ==
  \/ sem_live[s] /\ sem' = [sem EXCEPT ![s] = @ + 1] /\ UNCHANGED <<server, trouble>>
  \/ ~sem_live[s] /\ trouble' = TRUE /\ server' \in {server, "crashed"}
     /\ UNCHANGED sem

TPost(s) ==
  /\ tpc[s] = "post" /\ TGoto(s, "read") /\ Post(s)
  /\ UNCHANGED <<kafka, port, finding, client, frames, link, rpc, sem_live, queue,
                 logged_in, got, spout, storm>>

\* The result thread is not told.
THangupSilent(s) ==
  /\ tpc[s] = "read" /\ client[s] = "closed" /\ TGoto(s, "done")
  /\ UNCHANGED <<process, finding, client, frames, link, result, spout, storm>>

\* The client has closed; before the first frame there is no semaphore to post.
THangup(s) ==
  /\ tpc[s] = "read" /\ client[s] = "closed"
  /\ TGoto(s, "done")
  /\ IF frames[s] > 0 THEN Post(s)
                      ELSE server' = "crashed" /\ UNCHANGED <<sem, trouble>>
  /\ UNCHANGED <<kafka, port, finding, client, frames, link, rpc, sem_live, queue,
                 logged_in, got, spout, storm>>

Transmit(s) ==
  \/ TProduce(s) \/ TConnect(s) \/ TImage(s) \/ TAck(s)
  \/ TReset(s) \/ TPush(s) \/ TPost(s) \/ THangup(s)

-----------------------------------------------------------------------------
(* server_result *)

RGoto(s, l) == rpc' = [rpc EXCEPT ![s] = l]

\* The semaphore is put into sem_map and the login answered, then the port is
\* bound; when it is taken, "goto stop": the semaphore is deleted, the entries
\* of the maps stay.
ROpen(s) ==
  /\ rpc[s] = "open" /\ RGoto(s, "bind")
  /\ sem_live' = [sem_live EXCEPT ![s] = TRUE]
  /\ UNCHANGED <<process, finding, client, transmit, sem, queue, logged_in, got,
                 spout, storm>>

RBind(s) ==
  /\ rpc[s] = "bind"
  /\ IF port = None
     THEN port' = s /\ RGoto(s, "wait") /\ UNCHANGED <<sem_live, trouble>>
     ELSE /\ RGoto(s, "stopped") /\ sem_live' = [sem_live EXCEPT ![s] = FALSE]
          /\ UNCHANGED <<port, trouble>>
  /\ UNCHANGED <<kafka, server, finding, client, transmit, sem, queue, logged_in, got,
                 spout, storm>>

\* The wake-up is not waited for.
RWaitPolls(s) ==
  /\ rpc[s] = "wait"
  /\ sem' = [sem EXCEPT ![s] = IF @ > 0 THEN @ - 1 ELSE 0]
  /\ IF queue[s] = <<>>
     THEN RGoto(s, "erase") /\ UNCHANGED queue
     ELSE RGoto(s, "recv") /\ queue' = [queue EXCEPT ![s] = Tail(@)]
  /\ UNCHANGED <<process, finding, client, transmit, sem_live, logged_in, got, spout,
                 storm>>

RWait(s) ==
  /\ rpc[s] = "wait" /\ sem[s] > 0
  /\ sem' = [sem EXCEPT ![s] = @ - 1]
  /\ IF queue[s] = <<>>
     THEN RGoto(s, "erase") /\ UNCHANGED queue
     ELSE RGoto(s, "recv") /\ queue' = [queue EXCEPT ![s] = Tail(@)]
  /\ UNCHANGED <<process, finding, client, transmit, sem_live, logged_in, got, spout,
                 storm>>

\* The next datagram, whichever it is; a result that cannot be written ends
\* the thread in errorSocket.
RRecv(s) ==
  /\ rpc[s] = "recv" /\ port = s
  /\ \E f \in Frames :
       /\ net[f] > 0 /\ net' = [net EXCEPT ![f] = @ - 1]
       /\ \/ /\ got' = [got EXCEPT ![s] = Append(@, f)] /\ RGoto(s, "wait")
             /\ UNCHANGED trouble
          \/ /\ client[s] = "closed" /\ RGoto(s, "lost") /\ trouble' = TRUE
             /\ UNCHANGED got
  /\ UNCHANGED <<kafka, server, port, finding, client, transmit, sem, sem_live, queue,
                 logged_in, spout, tuples, topic, offset, pending, replays>>

\* The end gives the port back.
RFreeClosesPort(s) ==
  /\ rpc[s] = "erase" /\ RGoto(s, "done") /\ port' = None
  /\ logged_in' = [logged_in EXCEPT ![s] = FALSE]
  /\ sem_live' = [sem_live EXCEPT ![s] = FALSE]
  /\ UNCHANGED <<kafka, server, trouble, finding, client, transmit, sem, queue, got,
                 spout, storm>>

\* The erasures and deletes; the port is not closed.
RFree(s) ==
  /\ rpc[s] = "erase" /\ RGoto(s, "done")
  /\ logged_in' = [logged_in EXCEPT ![s] = FALSE]
  /\ sem_live' = [sem_live EXCEPT ![s] = FALSE]
  /\ UNCHANGED <<process, finding, client, transmit, sem, queue, got, spout, storm>>

Result(s) == ROpen(s) \/ RBind(s) \/ RWait(s) \/ RRecv(s) \/ RFree(s)

-----------------------------------------------------------------------------
(* The spout: nextTuple() *)

Spouting(now, then) == spc = now /\ spc' = then

PListen ==
  /\ ~kafka /\ here # "unsent" /\ Spouting("closed", "accept")
  /\ UNCHANGED <<process, finding, client, transmit, result, serverSock, backlog, img, storm>>

PAccept ==
  /\ Spouting("accept", "size") /\ backlog # <<>>
  /\ serverSock' = Head(backlog) /\ backlog' = Tail(backlog)
  /\ Link(Head(backlog), "open")
  /\ UNCHANGED <<process, finding, client, tpc, frames, result, img, storm>>

PSize ==
  /\ Spouting("size", "data")
  /\ Link(serverSock, "sized")
  /\ UNCHANGED <<process, finding, client, tpc, frames, result, serverSock, backlog,
                 img, storm>>

\* The chunks, then the ack.
PData ==
  /\ Spouting("data", "close") /\ tpc[serverSock] = "ack2"
  /\ Link(serverSock, "acked") /\ img' = Frame(serverSock)
  /\ UNCHANGED <<process, finding, client, tpc, frames, result, serverSock, backlog,
                 storm>>

\* close() of the server socket resets whoever has connected meanwhile.
PClose ==
  /\ Spouting("close", "emit")
  /\ link' = [s \in Sessions |-> IF s \in ToSet(backlog) THEN "reset" ELSE link[s]]
  /\ backlog' = <<>>
  /\ UNCHANGED <<process, finding, client, tpc, frames, result, serverSock, img, storm>>

\* The image of the last connection is emitted while no other has come.
PEmitAgain ==
  /\ spc \in {"emit", "closed"} /\ spc' = "closed" /\ img \in Frames
  /\ tuples' = tuples \cup {img}
  /\ UNCHANGED <<process, finding, client, transmit, result, serverSock, backlog, img,
                 topic, offset, pending, replays, net>>

PEmit ==
  /\ Spouting("emit", "closed") /\ tuples' = tuples \cup {img}
  /\ UNCHANGED <<process, finding, client, transmit, result, serverSock, backlog, img,
                 topic, offset, pending, replays, net>>

Spout == PListen \/ PAccept \/ PSize \/ PData \/ PClose \/ PEmit

-----------------------------------------------------------------------------
(* The bolts and Kafka *)

\* execute(): the datagram with the result.  The spout's tuples carry no message
\* id, so an execute() that fails has lost its frame.
BMatch(f) ==
  /\ f \in tuples /\ tuples' = tuples \ {f}
  /\ \/ net' = [net EXCEPT ![f] = @ + 1] /\ UNCHANGED trouble
     \/ Lossy /\ trouble' = TRUE /\ UNCHANGED net
  /\ UNCHANGED <<kafka, server, port, finding, client, transmit, result, spout, topic,
                 offset, pending, replays>>

\* KafkaSpout: the messages of the topic in order, a bounded number at a time.
KEmit ==
  /\ offset < Len(topic) /\ Cardinality(pending) < MaxPending
  /\ pending' = pending \cup {topic[offset + 1]} /\ offset' = offset + 1
  /\ UNCHANGED <<process, finding, client, transmit, result, spout, tuples, topic,
                 replays, net>>

\* The acknowledgement comes first, and the match after it can still fail.
KMatchAcksFirst(f) ==
  /\ f \in pending /\ pending' = pending \ {f}
  /\ net' \in {net, [net EXCEPT ![f] = @ + 1]} /\ UNCHANGED replays
  /\ UNCHANGED <<process, finding, client, transmit, result, spout, tuples, topic,
                 offset>>

\* The storm-kafka bolt: the datagram, then the ack.  An exception before or
\* after the datagram leaves the tuple pending, and it is emitted again.
KMatch(f) ==
  /\ f \in pending
  /\ \/ /\ net' = [net EXCEPT ![f] = @ + 1] /\ pending' = pending \ {f}
        /\ UNCHANGED replays
     \/ /\ replays[f] < MaxReplays /\ replays' = [replays EXCEPT ![f] = @ + 1]
        /\ net' \in {net, [net EXCEPT ![f] = @ + 1]} /\ UNCHANGED pending
  /\ UNCHANGED <<process, finding, client, transmit, result, spout, tuples, topic,
                 offset>>

\* A datagram is lost, or arrives while nobody has the port.
Lose(f) ==
  /\ Lossy /\ net[f] > 0
  /\ net' = [net EXCEPT ![f] = @ - 1] /\ trouble' = TRUE
  /\ UNCHANGED <<kafka, server, port, finding, client, transmit, result, spout, tuples,
                 topic, offset, pending, replays>>

Matching == KEmit \/ \E f \in Frames : BMatch(f) \/ KMatch(f)

-----------------------------------------------------------------------------
ServerStep ==
  /\ server = "up"
  /\ \E s \in Sessions : Begin(s) \/ TRead(s) \/ Transmit(s) \/ Result(s)

Next ==
  /\ server # "crashed"
  /\ \/ Start \/ Told \/ Here
     \/ \E s \in Sessions : Close(s)
     \/ ServerStep \/ Spout \/ Matching \/ \E f \in Frames : Lose(f)

Spec == Init /\ [][Next]_vars

(* The server's threads, the spout and the bolts run while they can, and what *)
(* is sent and not lost arrives.  The clients are free.                      *)
Fairness ==
  /\ WF_vars(server # "crashed" /\ Spout) /\ WF_vars(server # "crashed" /\ KEmit)
  /\ \A f \in Frames : WF_vars(server # "crashed" /\ (BMatch(f) \/ KMatch(f)))
  /\ \A s \in Sessions : /\ WF_vars(server = "up" /\ Transmit(s))
                         /\ WF_vars(server = "up" /\ Result(s))

FairSpec == Spec /\ Fairness

-----------------------------------------------------------------------------
(* Properties *)

\* Every variable has its type.
TypeOK ==
  /\ {kafka, trouble} \subseteq BOOLEAN
  /\ server \in {"start", "asking", "off", "up", "crashed"}
  /\ port \in Sessions \cup {None, "server_run"}
  /\ here \in {"unsent", "sent"} /\ finder \in {"none", "spout"}
  /\ client \in [Sessions -> {"up", "closed"}]
  /\ tpc \in [Sessions -> {"idle", "read", "produce", "connect", "ack", "ack2",
                           "push", "post", "left", "done"}]
  /\ \A s \in Sessions : /\ frames[s] \in 0 .. FramesOf[s]
                       /\ sem[s] \in 0 .. FramesOf[s] + 1
  /\ link \in [Sessions -> {"none", "queued", "open", "sized", "acked", "reset"}]
  /\ rpc \in [Sessions -> {"idle", "open", "bind", "wait", "recv", "erase", "done",
                           "lost", "stopped"}]
  /\ sem_live \in [Sessions -> BOOLEAN]
  /\ queue \in [Sessions -> Seq(Frames)] /\ logged_in \in [Sessions -> BOOLEAN]
  /\ got \in [Sessions -> Seq(Frames)]
  /\ spc \in {"closed", "accept", "size", "data", "close", "emit"}
  /\ serverSock \in Sessions \cup {None} /\ backlog \in Seq(Sessions)
  /\ img \in Frames \cup {<<None, 0>>}
  /\ tuples \subseteq Frames /\ pending \subseteq Frames /\ topic \in Seq(Frames)
  /\ offset \in 0 .. Len(topic)
  /\ replays \in [Frames -> 0 .. MaxReplays] /\ net \in [Frames -> 0 .. MaxReplays + 1]

Received(f) == \E s \in Sessions : f \in ToSet(got[s])
Receptions(f) == UNION {{s} \X {i \in 1 .. Len(got[s]) : got[s][i] = f} : s \in Sessions}

\* A frame is queued for its result only when the spout has it: otherwise
\* server_result would wait for a datagram that nobody sends.
QueuedFramesHandedOver ==
  ~kafka /\ ~trouble => \A s \in Sessions : \A i \in 1 .. Len(queue[s]) :
    LET f == queue[s][i] IN
      \/ f \in tuples \/ net[f] > 0 \/ Received(f)
      \/ spc \in {"close", "emit"} /\ img = f

\* The results of one user reach another only when that user's own result
\* thread has not got the port: it has not tried yet, or it was refused.
ForeignResultsOnlyWithoutPort ==
  \A s \in Sessions : \A i \in 1 .. Len(got[s]) :
    got[s][i][1] = s \/ rpc[got[s][i][1]] \in {"open", "bind", "stopped"}

\* server_result logs the user out only after the client's end, with every frame
\* answered for, although it waits for datagrams with the posts piling up.
LogoutMeansHangup ==
  \A s \in Sessions : rpc[s] = "erase" =>
    /\ tpc[s] = "done" /\ queue[s] = <<>> /\ sem[s] = 0
    /\ Len(got[s]) = frames[s]

\* An emission of a frame's tuple gives one result at most, over all the users
\* and the network: without Kafka a result comes once, and with Kafka a second
\* time only when the tuple was emitted again.
OneResultPerEmission ==
  \A f \in Frames : Cardinality(Receptions(f)) + net[f] <= 1 + replays[f]

\* With nothing lost and no error, the end of a session that has the port logs
\* its user out: every frame before it gets a datagram.
HangupLogsOut ==
  \A s \in Sessions :
    tpc[s] = "done" ~> \/ ~logged_in[s] \/ rpc[s] = "stopped"
                       \/ trouble \/ server = "crashed"

\* What Kafka has taken is matched, whatever executions fail, unless the
\* datagram is lost on the way.
KafkaMatchesAll ==
  \A f \in Frames :
    f \in ToSet(topic) ~> net[f] > 0 \/ Received(f) \/ trouble \/ server = "crashed"
=============================================================================
