------------------------------- MODULE Starter -------------------------------
(***************************************************************************)
(* storm/assist/starter.cpp, which tries the Storm cluster without the     *)
(* server: it asks SpoutFinder where the spout is, gives the spout a       *)
(* picture, and prints the datagram that a bolt sends to port 9879.  It    *)
(* reads that port twice, for the answer of SpoutFinder and for the        *)
(* result, and has it unbound in between; what comes is not looked at, but *)
(* for "none".                                                             *)
(*                                                                         *)
(* A datagram is a pair: what it says, and the starter it was sent for.    *)
(***************************************************************************)
EXTENDS Naturals, Sequences, SequencesExt

CONSTANTS
  Starters,   \* the processes, one after the other or at once
  Lossy,      \* whether datagrams may be lost
  None        \* nobody

Datagrams == {"none", "spout", "result"} \X Starters
Result(s) == <<"result", s>>

ASSUME StartersAssumption == None \notin Starters \cup Datagrams
ASSUME LossyAssumption == Lossy \in BOOLEAN

VARIABLES
  pc, told, printed,                \* starter.cpp; what its two recv() gave
  port, inbox,                      \* port 9879: who has it, what waits there
  finder, where,                    \* SpoutFinder, and questions to it
  net, dropped,                     \* datagrams for the port; history: the lost
  spc, serverSock, backlog, link,   \* the spout and its connections
  tuples                            \* frames in Storm

starter == <<pc, told, printed>>
socket == <<port, inbox>>
finding == <<finder, where>>
udp == <<net, dropped>>
spout == <<spc, serverSock, backlog, link>>
vars == <<starter, socket, finding, udp, spout, tuples>>

Init ==
  /\ pc = [s \in Starters |-> "bind"]
  /\ told = [s \in Starters |-> None] /\ printed = [s \in Starters |-> None]
  /\ port = None /\ inbox = <<>>
  /\ finder = "none" /\ where = {} /\ net = {} /\ dropped = {}
  /\ spc = "start" /\ serverSock = None /\ backlog = <<>>
  /\ link = [s \in Starters |-> "none"] /\ tuples = {}

-----------------------------------------------------------------------------
(* starter.cpp *)

(* Mutants, here and below, are definitions changed the way a slip in the    *)
(* code would change them; no specification uses one.                        *)

Goto(s, l) == pc' = [pc EXCEPT ![s] = l]

\* The port, and the question; or "bind failed".
Ask(s) ==
  /\ pc[s] = "bind"
  /\ IF port = None
     THEN port' = s /\ where' = where \cup {s} /\ Goto(s, "where")
     ELSE Goto(s, "refused") /\ UNCHANGED <<port, where>>
  /\ UNCHANGED <<told, printed, inbox, finder, udp, spout, tuples>>

\* recv() and close(): what else has come for the port is gone.
Read(s, l) ==
  /\ pc[s] = l /\ inbox # <<>>
  /\ port' = None /\ inbox' = <<>>
  /\ dropped' = dropped \cup ToSet(Tail(inbox))

\* The answer is "none", or taken for an address that gethostbyaddr() knows or
\* does not.  A result is no address: inet_pton() leaves ipv4addr unset, and
\* gethostbyaddr() finds no host or some other.
Answer(s) ==
  /\ Read(s, "where") /\ told' = [told EXCEPT ![s] = Head(inbox)]
  /\ \/ Goto(s, "off")
     \/ Head(inbox)[1] = "spout" /\ Goto(s, "connect")
     \/ Head(inbox)[1] = "result" /\ Goto(s, "astray")
  /\ UNCHANGED <<printed, finding, net, spout, tuples>>

Listening == spc \notin {"start", "closed", "emit"}

\* connect(), tried again until the spout listens; then the size of the picture,
\* or the end of the process when there is none.
Connect(s) ==
  /\ pc[s] = "connect" /\ Listening /\ backlog' = Append(backlog, s)
  /\ \/ Goto(s, "ack") /\ link' = [link EXCEPT ![s] = "queued"]
     \/ Goto(s, "off") /\ link' = [link EXCEPT ![s] = "left"]
  /\ UNCHANGED <<told, printed, socket, finding, udp, spc, serverSock, tuples>>

\* The connection is closed before the picture is written.
ImageUnsent(s) ==
  /\ pc[s] = "ack" /\ link[s] = "sized"
  /\ Goto(s, "again") /\ link' = [link EXCEPT ![s] = "left"]
  /\ UNCHANGED <<told, printed, socket, finding, udp, spc, serverSock, backlog, tuples>>

\* The answer to the size, the picture, and close(), which does not wait for
\* the spout's ack.
Image(s) ==
  /\ pc[s] = "ack" /\ link[s] = "sized"
  /\ Goto(s, "again") /\ link' = [link EXCEPT ![s] = "sent"]
  /\ UNCHANGED <<told, printed, socket, finding, udp, spc, serverSock, backlog, tuples>>

\* "error reading", or sending: the spout has closed its server socket.
Reset(s) ==
  /\ pc[s] = "ack" /\ link[s] = "reset" /\ Goto(s, "off")
  /\ UNCHANGED <<told, printed, socket, finding, udp, spout, tuples>>

BindAgain(s) ==
  /\ pc[s] = "again"
  /\ IF port = None THEN port' = s /\ Goto(s, "wait")
                    ELSE Goto(s, "refused") /\ UNCHANGED port
  /\ UNCHANGED <<told, printed, inbox, finding, udp, spout, tuples>>

PrintResult(s) ==
  /\ Read(s, "wait") /\ printed' = [printed EXCEPT ![s] = Head(inbox)] /\ Goto(s, "done")
  /\ UNCHANGED <<told, finding, net, spout, tuples>>

main(s) ==
  \/ Ask(s) \/ Answer(s) \/ Connect(s) \/ Image(s) \/ Reset(s) \/ BindAgain(s)
  \/ PrintResult(s)

-----------------------------------------------------------------------------
(* SpoutFinder and the network *)

\* The question stays, and is answered again.
WhereAgain(s) ==
  /\ s \in where /\ net' = net \cup {<<finder, s>>}
  /\ UNCHANGED <<starter, socket, finding, dropped, spout, tuples>>

Where(s) ==
  /\ s \in where /\ where' = where \ {s}
  /\ net' = net \cup {<<finder, s>>}
  /\ UNCHANGED <<starter, socket, finder, dropped, spout, tuples>>

\* A datagram for a port that nobody has is thrown away.
Deliver(m) ==
  /\ m \in net /\ net' = net \ {m}
  /\ IF port # None THEN inbox' = Append(inbox, m) /\ UNCHANGED dropped
                    ELSE dropped' = dropped \cup {m} /\ UNCHANGED inbox
  /\ UNCHANGED <<starter, port, finding, spout, tuples>>

Lose(m) ==
  /\ Lossy /\ m \in net
  /\ net' = net \ {m} /\ dropped' = dropped \cup {m}
  /\ UNCHANGED <<starter, socket, finding, spout, tuples>>

-----------------------------------------------------------------------------
(* The spout and the bolts *)

Spouting(now, then) == spc = now /\ spc' = then

\* "here" is sent once, from the first nextTuple().
Here ==
  /\ Spouting("start", "closed")
  /\ finder' \in IF Lossy THEN {"none", "spout"} ELSE {"spout"}
  /\ UNCHANGED <<starter, socket, where, udp, serverSock, backlog, link, tuples>>

PListen ==
  /\ Spouting("closed", "accept")
  /\ UNCHANGED <<starter, socket, finding, udp, serverSock, backlog, link, tuples>>

PAccept ==
  /\ Spouting("accept", "size") /\ backlog # <<>>
  /\ serverSock' = Head(backlog) /\ backlog' = Tail(backlog)
  /\ UNCHANGED <<starter, socket, finding, udp, link, tuples>>

\* The size and the answer to it.  A connection that has ended gives no number:
\* the exception leaves nextTuple() with the server socket open, and the next
\* turns cannot open theirs.
PSize ==
  /\ \/ /\ Spouting("size", "data") /\ link[serverSock] = "queued"
        /\ link' = [link EXCEPT ![serverSock] = "sized"]
     \/ Spouting("size", "broken") /\ link[serverSock] = "left" /\ UNCHANGED link
  /\ UNCHANGED <<starter, socket, finding, udp, serverSock, backlog, tuples>>

PData ==
  /\ Spouting("data", "close") /\ link[serverSock] = "sent"
  /\ UNCHANGED <<starter, socket, finding, udp, serverSock, backlog, link, tuples>>

\* Who has connected meanwhile is forgotten, and not told.
PCloseQuietly ==
  /\ Spouting("close", "emit") /\ backlog' = <<>>
  /\ UNCHANGED <<starter, socket, finding, udp, serverSock, link, tuples>>

\* close() of the server socket resets whoever has connected meanwhile.
PClose ==
  /\ Spouting("close", "emit") /\ backlog' = <<>>
  /\ link' = [s \in Starters |-> IF s \in ToSet(backlog) /\ link[s] = "queued"
                                 THEN "reset" ELSE link[s]]
  /\ UNCHANGED <<starter, socket, finding, udp, serverSock, tuples>>

\* One place for the frame that waits for a bolt.
PEmitOver ==
  /\ Spouting("emit", "closed") /\ tuples' = {serverSock}
  /\ UNCHANGED <<starter, socket, finding, udp, serverSock, backlog, link>>

PEmit ==
  /\ Spouting("emit", "closed") /\ tuples' = tuples \cup {serverSock}
  /\ UNCHANGED <<starter, socket, finding, udp, serverSock, backlog, link>>

\* execute(): the datagram, or an exception that is only printed.
BMatch(s) ==
  /\ s \in tuples /\ tuples' = tuples \ {s}
  /\ \/ net' = net \cup {Result(s)} /\ UNCHANGED dropped
     \/ Lossy /\ dropped' = dropped \cup {Result(s)} /\ UNCHANGED net
  /\ UNCHANGED <<starter, socket, finding, spout>>

Spout == Here \/ PListen \/ PAccept \/ PSize \/ PData \/ PClose \/ PEmit

-----------------------------------------------------------------------------
Next ==
  \/ \E s \in Starters : main(s) \/ Where(s) \/ BMatch(s)
  \/ \E m \in Datagrams : Deliver(m) \/ Lose(m)
  \/ Spout

Spec == Init /\ [][Next]_vars

\* A process that has begun runs while it can, as do the spout and the bolts,
\* and what is not lost arrives.
Fairness ==
  /\ \A s \in Starters : /\ WF_vars(main(s) /\ pc[s] # "bind")
                         /\ WF_vars(Where(s)) /\ WF_vars(BMatch(s))
  /\ \A m \in Datagrams : WF_vars(Deliver(m))
  /\ WF_vars(Spout)

FairSpec == Spec /\ Fairness

-----------------------------------------------------------------------------
(* Properties *)

\* Every variable has its type.
TypeOK ==
  /\ pc \in [Starters -> {"bind", "refused", "where", "off", "astray", "connect", "ack",
                          "again", "wait", "done"}]
  /\ told \in [Starters -> Datagrams \cup {None}]
  /\ printed \in [Starters -> Datagrams \cup {None}]
  /\ port \in Starters \cup {None} /\ inbox \in Seq(Datagrams)
  /\ finder \in {"none", "spout"} /\ where \subseteq Starters
  /\ net \subseteq Datagrams /\ dropped \subseteq Datagrams
  /\ spc \in {"start", "closed", "accept", "size", "data", "close", "emit", "broken"}
  /\ serverSock \in Starters \cup {None} /\ backlog \in Seq(Starters)
  /\ link \in [Starters -> {"none", "queued", "sized", "sent", "left", "reset"}]
  /\ tuples \subseteq Starters

\* The picture of s is with the spout or in Storm, or its result on the way.
Coming(s) ==
  \/ serverSock = s /\ spc \in {"data", "close", "emit"}
  \/ s \in tuples \/ Result(s) \in net \cup ToSet(inbox)

\* Who has read the datagram m.
ReadBy(m) == {s \in Starters : told[s] = m \/ printed[s] = m}

\* A starter that has sent its picture waits in vain only if its result was lost,
\* came while nobody had the port, or was read by another: the close() that does
\* not wait for the spout's ack loses no picture.
ResultKept ==
  \A s \in Starters : pc[s] \in {"again", "wait"} =>
    Coming(s) \/ Result(s) \in dropped \/ ReadBy(Result(s)) # {}

\* What a starter prints is a result, although the port is the one SpoutFinder
\* answers on, unless a result was taken for SpoutFinder's answer before.
PrintsResults ==
  \A s \in Starters : printed[s] # None =>
    \/ printed[s][1] = "result"
    \/ \E u, v \in Starters : u # v /\ told[u] = Result(v)

\* Whoever has connected to the spout is answered or reset, unless a starter
\* without its picture has stopped the spout.
AckReturns ==
  \A s \in Starters : pc[s] = "ack" ~> pc[s] # "ack" \/ spc = "broken"

\* recv() returns: a starter that waits prints something, or its own result is
\* gone and nothing was sent since that it could take for it.
ResultComes ==
  \A s \in Starters :
    pc[s] = "wait" ~> pc[s] = "done" \/ Result(s) \in dropped \/ ReadBy(Result(s)) # {}
=============================================================================
