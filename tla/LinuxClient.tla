----------------------------- MODULE LinuxClient -----------------------------
(***************************************************************************)
(* The Linux client of client/client-OpenCV.cpp in its TCP mode:           *)
(* display_thread names a frame and starts a transmit_child for it, the    *)
(* children exchange their frames with the server over the one socket      *)
(* under sendLock, and result_thread takes the results apart for the       *)
(* display.  The server's side of a frame's exchange is the loop of        *)
(* server_transmit.                                                        *)
(*                                                                         *)
(* A frame is numbered by its file.  trans_info, a variable in the block   *)
(* of the loop, has one address for all turns: the children keep a pointer *)
(* into it, so here it is one variable.                                    *)
(***************************************************************************)
EXTENDS Integers, Sequences, SequencesExt

CONSTANTS
  MaxFrames,    \* bound: frames the display thread starts
  SizeOf,       \* file sizes, in halves of a buffer of BUFFER_SIZE
  SizePerTime,  \* size_per_time, the -size option: exchanges of a child
  MaxResults,   \* bound: results the server sends
  PeerMayFail   \* whether the server may end at any time

Frames == 1 .. MaxFrames
Block == 2      \* BUFFER_SIZE, in the units of SizeOf

ASSUME BoundsAssumption ==
  MaxFrames \in Nat /\ MaxResults \in Nat /\ SizePerTime \in Nat \ {0}
ASSUME SizesAssumption == SizeOf \in [Frames -> Nat \ {0}]
ASSUME PeerAssumption == PeerMayFail \in BOOLEAN

VARIABLES
  test,                          \* the -t option: a loop over sample images
  client, global_stop,           \* the process, and its flag
  dpc, index, trans_info, sockfd,               \* display_thread
  pc, stated, opened, sent, round,              \* transmit_child
  sendLock,                                     \* 0, or the child that has it
  torn,         \* history: a child has met another name than it started with
  rpc, counter, fresh, title, coord, drawResult,    \* result_thread
  to_server, to_client,                         \* the transmit connection
  results, rlink,                               \* the result connection
  spc, file_size, offset, owner, from, saved    \* server_transmit

process == <<test, client, global_stop>>
display == <<dpc, index, trans_info, sockfd>>
child == <<pc, stated, opened, sent, round, sendLock, torn>>
drawn == <<rpc, counter, fresh, title, coord, drawResult>>
wire == <<to_server, to_client>>
rwire == <<results, rlink>>
server == <<spc, file_size, offset, owner, from, saved>>
vars == <<process, display, child, drawn, wire, rwire, server>>

Init ==
  /\ test \in BOOLEAN /\ client = "up" /\ global_stop = FALSE
  /\ dpc = "connect" /\ index = 0 /\ trans_info = 0 /\ sockfd = "none"
  /\ pc = [k \in Frames |-> "none"] /\ stated = [k \in Frames |-> 0]
  /\ opened = [k \in Frames |-> 0]
  /\ sent = [k \in Frames |-> 0] /\ round = [k \in Frames |-> 0]
  /\ sendLock = 0 /\ torn = FALSE
  /\ rpc = "connect" /\ counter = SizePerTime /\ fresh = 0
  /\ title = 0 /\ coord = 0 /\ drawResult = FALSE
  /\ to_server = <<>> /\ to_client = <<>>
  /\ results = 0 /\ rlink = <<>>
  /\ spc = "header" /\ file_size = 0 /\ offset = 0 /\ owner = 0 /\ from = {}
  /\ saved = {}

\* exit() in any thread ends the process, as does SIGPIPE.
Exit == client' = "exited"
ServerGone == spc = "gone"

-----------------------------------------------------------------------------
(* display_thread *)

(* Mutants, here and below, are definitions changed the way a slip in the    *)
(* code would change them; no specification uses one.                        *)

\* connect() to the server, or "The server is not available now".
DConnect ==
  /\ dpc = "connect"
  /\ \/ /\ ~ServerGone /\ sockfd' = "open" /\ dpc' = "login"
        /\ UNCHANGED <<client, global_stop>>
     \/ /\ ServerGone /\ global_stop' = TRUE /\ Exit /\ UNCHANGED <<sockfd, dpc>>
  /\ UNCHANGED <<test, index, trans_info, child, drawn, wire, rwire, server>>

\* "transmit,user", and the answer; "failed" ends the process.
DLogin ==
  /\ dpc = "login"
  /\ \/ dpc' = "loop" /\ UNCHANGED client
     \/ Exit /\ UNCHANGED dpc
  /\ UNCHANGED <<test, global_stop, index, trans_info, sockfd, child, drawn, wire,
                 rwire, server>>

\* The thread is created before its argument is written.
DNameSpawnsFirst ==
  /\ \/ /\ dpc = "loop" /\ ~global_stop /\ index < MaxFrames /\ dpc' = "cleared"
        /\ pc' = [pc EXCEPT ![index + 1] = "stat"] /\ UNCHANGED <<index, trans_info>>
     \/ /\ dpc = "cleared" /\ trans_info' = index + 1 /\ index' = index + 1
        /\ dpc' = "draw" /\ UNCHANGED pc
  /\ UNCHANGED <<process, sockfd, stated, opened, sent, round, sendLock,
                 torn, drawn, wire, rwire, server>>

\* The name of the next frame.  The test loop clears the buffer first.
DName ==
  /\ \/ /\ dpc = "loop" /\ ~global_stop /\ index < MaxFrames
        /\ IF test THEN dpc' = "cleared" /\ trans_info' = 0
                   ELSE dpc' = "spawn" /\ trans_info' = index + 1
     \/ /\ dpc = "cleared" /\ dpc' = "spawn" /\ trans_info' = index + 1
  /\ UNCHANGED <<process, index, sockfd, child, drawn, wire, rwire, server>>

DSpawn ==
  /\ dpc = "spawn" /\ index' = index + 1 /\ dpc' = "draw"
  /\ pc' = [pc EXCEPT ![index + 1] = "stat"]
  /\ UNCHANGED <<process, trans_info, sockfd, stated, opened, sent, round,
                 sendLock, torn, drawn, wire, rwire, server>>

\* The result is put on the frame; the test loop prints it once.
DDraw ==
  /\ dpc = "draw" /\ dpc' = "loop"
  /\ drawResult' = IF test THEN FALSE ELSE drawResult
  /\ UNCHANGED <<process, index, trans_info, sockfd, child, rpc, counter, fresh,
                 title, coord, wire, rwire, server>>

\* A turn of the loop without a new frame.
DTurn ==
  /\ dpc = "loop" /\ ~global_stop /\ drawResult /\ dpc' = "draw"
  /\ UNCHANGED <<process, index, trans_info, sockfd, child, drawn, wire, rwire, server>>

\* global_stop, or the escape key in the capture loop: the socket is closed
\* whatever the children are doing.
DClose ==
  /\ dpc = "loop" /\ (global_stop \/ ~test)
  /\ sockfd' = "closed" /\ dpc' = "done" /\ global_stop' = TRUE
  /\ UNCHANGED <<test, client, index, trans_info, child, drawn, wire, rwire, server>>

Display == DConnect \/ DLogin \/ DName \/ DSpawn \/ DDraw \/ DTurn \/ DClose

-----------------------------------------------------------------------------
(* transmit_child *)

\* The file name as a child finds it through its pointer: 0 is the empty name,
\* or whatever is left of the stack of a thread that has ended.
FileName == {trans_info} \cup IF dpc = "done" THEN {0} ELSE {}

Goto(k, s) == pc' = [pc EXCEPT ![k] = s]

CStat(k) ==
  /\ pc[k] = "stat"
  /\ \E f \in FileName :
       \/ f = 0 /\ Exit /\ UNCHANGED <<pc, stated>>
       \/ /\ f # 0 /\ stated' = [stated EXCEPT ![k] = f] /\ Goto(k, "lock")
          /\ UNCHANGED client
  /\ UNCHANGED <<test, global_stop, display, opened, sent, round, sendLock, torn,
                 drawn, wire, rwire, server>>

CLockUnheld(k) ==
  /\ pc[k] = "lock" /\ sendLock' = k /\ Goto(k, "header")
  /\ UNCHANGED <<process, display, stated, opened, sent, round, torn, drawn, wire,
                 rwire, server>>

CLock(k) ==
  /\ pc[k] = "lock" /\ sendLock = 0
  /\ sendLock' = k /\ Goto(k, "header")
  /\ UNCHANGED <<process, display, stated, opened, sent, round, torn, drawn, wire,
                 rwire, server>>

\* "name,size": with size_per_time the name is made up and never empty.
Header(k, f) == [kind |-> "header", by |-> k, size |-> SizeOf[stated[k]],
                 blank |-> f = 0 /\ SizePerTime = 1]

CHeader(k) ==
  /\ pc[k] = "header"
  /\ \E f \in FileName :
       /\ \/ /\ sockfd = "open" /\ ~ServerGone
             /\ to_server' = Append(to_server, Header(k, f))
             /\ Goto(k, "ack") /\ UNCHANGED client
          \/ /\ sockfd = "open" /\ ServerGone
             /\ Goto(k, "ack") /\ UNCHANGED <<client, to_server>>
          \/ /\ sockfd = "closed" \/ ServerGone
             /\ Exit /\ UNCHANGED <<to_server, pc>>
       /\ torn' = (torn \/ f = 0)
  /\ UNCHANGED <<test, global_stop, display, stated, opened, sent, round, sendLock,
                 drawn, to_client, rwire, server>>

\* read() of an answer: what came, or 0 from a server that is gone.
Answered ==
  \/ to_client # <<>> /\ to_client' = Tail(to_client)
  \/ to_client = <<>> /\ ServerGone /\ UNCHANGED to_client

CAck(k) ==
  /\ pc[k] = "ack"
  /\ \/ /\ sockfd = "open" /\ Answered /\ Goto(k, "open") /\ UNCHANGED client
     \/ /\ sockfd = "closed" /\ Exit /\ UNCHANGED <<to_client, pc>>
  /\ UNCHANGED <<test, global_stop, display, stated, opened, sent, round,
                 sendLock, torn, drawn, to_server, rwire, server>>

\* fopen(file_name): the name is read once more.
COpen(k) ==
  /\ pc[k] = "open"
  /\ \E f \in FileName :
       \/ f = 0 /\ Exit /\ UNCHANGED <<pc, opened, sent, torn>>
       \/ /\ f # 0 /\ opened' = [opened EXCEPT ![k] = f] /\ Goto(k, "data")
          /\ sent' = [sent EXCEPT ![k] = 0] /\ UNCHANGED client
          /\ torn' = (torn \/ SizeOf[f] # SizeOf[stated[k]])
  /\ UNCHANGED <<test, global_stop, display, stated, round, sendLock, drawn,
                 wire, rwire, server>>

Least(a, b) == IF a < b THEN a ELSE b

\* A turn of the sending loop; a send() that fails leaves the loop.
CData(k) ==
  LET rest == SizeOf[opened[k]] - sent[k]
      n == Least(rest, Block)
      unit == [kind |-> "data", by |-> k, size |-> 1, blank |-> FALSE]
  IN /\ pc[k] = "data"
     /\ \/ /\ rest > 0 /\ sockfd = "open" /\ ~ServerGone
           /\ to_server' = to_server \o [i \in 1 .. n |-> unit]
           /\ sent' = [sent EXCEPT ![k] = @ + n] /\ UNCHANGED pc
        \/ /\ rest = 0 \/ sockfd = "closed" \/ ServerGone
           /\ Goto(k, "answer") /\ UNCHANGED <<to_server, sent>>
     /\ UNCHANGED <<process, display, stated, opened, round, sendLock, torn,
                    drawn, to_client, rwire, server>>

\* The unlock does not wait for the answer.
CAnswerEarly(k) ==
  /\ pc[k] = "answer"
  /\ sendLock' = 0 /\ round' = [round EXCEPT ![k] = @ + 1]
  /\ Goto(k, IF round[k] + 1 < SizePerTime THEN "stat" ELSE "done")
  /\ UNCHANGED <<process, display, stated, opened, sent, torn, drawn, wire,
                 rwire, server>>

\* The unlock is forgotten.
CAnswerKeepsLock(k) ==
  /\ pc[k] = "answer"
  /\ \/ sockfd = "open" /\ Answered
     \/ sockfd = "closed" /\ UNCHANGED to_client
  /\ round' = [round EXCEPT ![k] = @ + 1]
  /\ Goto(k, IF round[k] + 1 < SizePerTime THEN "stat" ELSE "done")
  /\ UNCHANGED <<process, display, stated, opened, sent, sendLock, torn, drawn,
                 to_server, rwire, server>>

\* The second answer, whatever read() gives, and the unlock.
CAnswer(k) ==
  /\ pc[k] = "answer"
  /\ \/ sockfd = "open" /\ Answered
     \/ sockfd = "closed" /\ UNCHANGED to_client
  /\ sendLock' = 0 /\ round' = [round EXCEPT ![k] = @ + 1]
  /\ Goto(k, IF round[k] + 1 < SizePerTime THEN "stat" ELSE "done")
  /\ UNCHANGED <<process, display, stated, opened, sent, torn, drawn, to_server,
                 rwire, server>>

Child(k) ==
  \/ CStat(k) \/ CLock(k) \/ CHeader(k) \/ CAck(k) \/ COpen(k) \/ CData(k)
  \/ CAnswer(k)

-----------------------------------------------------------------------------
(* result_thread: a result is numbered, 0 is "none". *)

RConnect ==
  /\ rpc = "connect"
  /\ \/ ~ServerGone /\ rpc' = "login" /\ UNCHANGED <<client, global_stop>>
     \/ ServerGone /\ global_stop' = TRUE /\ Exit /\ UNCHANGED rpc
  /\ UNCHANGED <<test, display, child, counter, fresh, title, coord, drawResult, wire,
                 rwire, server>>

RLogin ==
  /\ rpc = "login"
  /\ \/ rpc' = "loop" /\ UNCHANGED client
     \/ Exit /\ UNCHANGED rpc
  /\ UNCHANGED <<test, global_stop, display, child, counter, fresh, title, coord,
                 drawResult, wire, rwire, server>>

\* The flag is looked at before recv(), which then waits whatever it becomes.
RLoop ==
  /\ rpc = "loop"
  /\ IF global_stop THEN rpc' = "done" ELSE rpc' = "recv"
  /\ UNCHANGED <<process, display, child, counter, fresh, title, coord, drawResult,
                 wire, rwire, server>>

\* The flag stays up while a new result is written.
RRecvKeepsFlag ==
  /\ rpc = "recv"
  /\ \E n \in 1 .. Len(rlink) :
       /\ rlink' = SubSeq(rlink, n + 1, Len(rlink))
       /\ counter' = SizePerTime /\ fresh' = Head(rlink)
       /\ drawResult' = (drawResult /\ Head(rlink) # 0)
       /\ rpc' = IF Head(rlink) = 0 THEN "loop" ELSE "title"
  /\ UNCHANGED <<process, display, child, title, coord, wire, results, server>>

\* recv() takes what has come, several results perhaps: the text of the first
\* is looked at, one in size_per_time.
RRecv ==
  /\ rpc = "recv"
  /\ \E n \in 1 .. Len(rlink) :
       /\ rlink' = SubSeq(rlink, n + 1, Len(rlink))
       /\ IF counter - 1 > 0
          THEN /\ counter' = counter - 1 /\ rpc' = "loop"
               /\ UNCHANGED <<drawResult, fresh>>
          ELSE /\ counter' = SizePerTime /\ drawResult' = FALSE
               /\ fresh' = Head(rlink)
               /\ rpc' = IF Head(rlink) = 0 THEN "loop" ELSE "title"
  /\ UNCHANGED <<process, display, child, title, coord, wire, results, server>>

\* The strings, then the coordinates, then the flag.
RParse ==
  /\ \/ /\ rpc = "title" /\ title' = fresh /\ rpc' = "coord"
        /\ UNCHANGED <<coord, drawResult>>
     \/ /\ rpc = "coord" /\ coord' = fresh /\ rpc' = "flag"
        /\ UNCHANGED <<title, drawResult>>
     \/ /\ rpc = "flag" /\ drawResult' = TRUE /\ rpc' = "loop"
        /\ UNCHANGED <<title, coord>>
  /\ UNCHANGED <<process, display, child, counter, fresh, wire, rwire, server>>

\* The server has closed: recv() gives 0, or an error that ends the process.
REnd ==
  /\ rpc = "recv" /\ ServerGone
  /\ \/ rlink = <<>> /\ global_stop' = TRUE /\ rpc' = "done" /\ UNCHANGED client
     \/ Exit /\ UNCHANGED <<global_stop, rpc>>
  /\ UNCHANGED <<test, display, child, counter, fresh, title, coord, drawResult, wire,
                 rwire, server>>

Results == RConnect \/ RLogin \/ RLoop \/ RRecv \/ RParse \/ REnd

-----------------------------------------------------------------------------
(* The server: server_transmit with this client, and results that come at    *)
(* any time.                                                                 *)

\* strtok() of what is no header gives no size, and strtol() follows the null
\* pointer; or there is a comma in it by chance, and some number behind it.
SHeader ==
  /\ spc = "header" /\ to_server # <<>>
  /\ LET m == Head(to_server) IN
       /\ to_server' = Tail(to_server)
       /\ \/ /\ m.kind = "header" /\ ~m.blank
             /\ spc' = "data" /\ file_size' = m.size /\ owner' = m.by
             /\ to_client' = Append(to_client, "ok")
          \/ /\ m.kind = "data" /\ spc' = "data" /\ file_size' = -1 /\ owner' = 0
             /\ to_client' = Append(to_client, "ok")
          \/ /\ m.kind = "data" \/ m.blank
             /\ spc' = "gone" /\ UNCHANGED <<file_size, owner, to_client>>
  /\ offset' = 0 /\ from' = {}
  /\ UNCHANGED <<process, display, child, drawn, rwire, saved>>

Save(whole) == saved' = saved \cup {[by |-> owner, from |-> from', whole |-> whole]}

\* One recv() of at most BUFFER_SIZE; done when the sum is exactly the size.
SData ==
  /\ spc = "data"
  /\ \E n \in 1 .. Least(Len(to_server), Block) :
       LET units == SubSeq(to_server, 1, n)
           length == IF units[1].kind = "header" THEN Block ELSE n
       IN /\ \/ n = 1 \/ \A i \in 1 .. n : units[i].kind = "data"
          /\ to_server' = SubSeq(to_server, n + 1, Len(to_server))
          /\ offset' = offset + length
          /\ from' = from \cup {units[i].by : i \in 1 .. n}
  /\ IF offset' = file_size
     THEN /\ spc' = "header" /\ Save(TRUE) /\ to_client' = Append(to_client, "ok")
     ELSE UNCHANGED <<spc, saved, to_client>>
  /\ UNCHANGED <<process, display, child, drawn, rwire, file_size, owner>>

\* recv() gives 0: the frame is taken as it is; at a header the thread ends.
SEnd ==
  /\ spc \in {"header", "data"} /\ to_server = <<>>
  /\ sockfd = "closed" \/ client = "exited"
  /\ spc' = "ended"
  /\ IF spc = "data" THEN from' = from /\ Save(FALSE) ELSE UNCHANGED <<from, saved>>
  /\ UNCHANGED <<process, display, child, drawn, wire, rwire, file_size, offset, owner>>

SResult ==
  /\ ~ServerGone /\ rpc \notin {"connect", "login"} /\ results < MaxResults
  /\ results' = results + 1
  /\ \E r \in {0, results + 1} : rlink' = Append(rlink, r)
  /\ UNCHANGED <<process, display, child, drawn, wire, server>>

SFail ==
  /\ PeerMayFail /\ ~ServerGone /\ spc' = "gone"
  /\ UNCHANGED <<process, display, child, drawn, wire, rwire, file_size, offset, owner,
                 from, saved>>

Server == SHeader \/ SData \/ SEnd

-----------------------------------------------------------------------------
ClientStep == client = "up" /\ (Display \/ Results \/ \E k \in Frames : Child(k))

Next == ClientStep \/ Server \/ SResult \/ SFail

Spec == Init /\ [][Next]_vars

(* Every thread of the client and the server's transmit thread run while     *)
(* they can; the escape key, the results and the server's end are free.      *)
Fairness ==
  /\ WF_vars(client = "up" /\ (DConnect \/ DLogin \/ DName \/ DSpawn \/ DDraw))
  /\ WF_vars(client = "up" /\ global_stop /\ DClose)
  /\ WF_vars(client = "up" /\ Results)
  /\ \A k \in Frames : WF_vars(client = "up" /\ Child(k))
  /\ WF_vars(Server)

FairSpec == Spec /\ Fairness

-----------------------------------------------------------------------------
(* Properties *)

Exchange == {"header", "ack", "open", "data", "answer"}

\* Every variable has its type.
TypeOK ==
  /\ test \in BOOLEAN /\ client \in {"up", "exited"} /\ global_stop \in BOOLEAN
  /\ dpc \in {"connect", "login", "loop", "cleared", "spawn", "draw", "done"}
  /\ index \in 0 .. MaxFrames /\ trans_info \in 0 .. MaxFrames
  /\ sockfd \in {"none", "open", "closed"}
  /\ pc \in [Frames -> Exchange \cup {"none", "stat", "lock", "done"}]
  /\ stated \in [Frames -> 0 .. MaxFrames] /\ opened \in [Frames -> 0 .. MaxFrames]
  /\ sent \in [Frames -> Nat] /\ round \in [Frames -> 0 .. SizePerTime]
  /\ sendLock \in 0 .. MaxFrames /\ torn \in BOOLEAN
  /\ rpc \in {"connect", "login", "loop", "recv", "title", "coord", "flag", "done"}
  /\ counter \in 1 .. SizePerTime /\ drawResult \in BOOLEAN
  /\ {fresh, title, coord, results} \subseteq 0 .. MaxResults
  /\ spc \in {"header", "data", "ended", "gone"}
  /\ file_size \in Int /\ offset \in Nat /\ owner \in 0 .. MaxFrames
  /\ from \subseteq Frames

\* "gain the lock, insure transmit order": whatever the children do, a frame the
\* server stores under a header holds nothing of another child's exchange.
FramesNotMixed == \A r \in saved : r.by # 0 => r.from \subseteq {r.by}

\* An answer on its way is for the child that has the lock and waits or will
\* wait for it, unless the client has closed or a file name changed under a child.
AnswersInStep ==
  ~torn /\ sockfd # "closed" => /\ Len(to_client) <= 1
           /\ \/ to_client = <<>>
              \/ sendLock # 0 /\ pc[sendLock] \in {"ack", "data", "answer"}

\* The drawing starts from strings and coordinates of one result: the flag is
\* never up while the result thread is between the two.
DrawnResultIsOne == drawResult => title = coord /\ title # 0

\* The pointer into trans_info may show a child a later frame, never one that
\* was started before its own, nor may a child announce one and send an older.
NeverAnOlderFrame ==
  \A k \in Frames : /\ pc[k] \notin {"none", "stat"} => stated[k] >= k
                    /\ pc[k] \in {"data", "answer"} => opened[k] >= stated[k]

\* A frame that was started is sent, although all share one lock and one socket,
\* unless the client closes, the server ends or a file name changed.
EveryFrameSent ==
  \A k \in Frames :
    pc[k] = "stat" ~> \/ pc[k] = "done" \/ torn \/ ServerGone
                      \/ client = "exited" \/ sockfd = "closed"
=============================================================================
