---------------------------- MODULE FrameService ----------------------------
(***************************************************************************)
(* What the image server promises of a client's frames, without threads,   *)
(* maps, queues and semaphores: the frames of a client are taken in the    *)
(* order it sends them; at most one client of a user is served at a time;  *)
(* the frames of a client that is served are handed out in their order,    *)
(* each once and never more than MaxImage at a time; a frame handed out is *)
(* answered or lost; and a client is dismissed only when nothing of its    *)
(* frames is left waiting, after which none of them is taken any more.     *)
(***************************************************************************)
EXTENDS Integers, FiniteSets

CONSTANTS Clients, UserOf, MaxFrames, MaxImage

Frames == Clients \X (1 .. MaxFrames)

VARIABLES
  up,      \* whether the server runs
  served,  \* the clients that are being served
  past,    \* the clients that have been dismissed
  stage    \* how far each frame has come

vars == <<up, served, past, stage>>

Init ==
  /\ up = TRUE /\ served = {} /\ past = {}
  /\ stage = [f \in Frames |-> "absent"]

Of(c) == {f \in Frames : f[1] = c}
Before(f) == {g \in Of(f[1]) : g[2] < f[2]}
Matching == {f \in Frames : stage[f] = "matching"}

Receive(f) ==
  /\ up /\ f[1] \notin past
  /\ stage[f] = "absent" /\ \A g \in Before(f) : stage[g] # "absent"
  /\ stage' = [stage EXCEPT ![f] = "queued"]
  /\ UNCHANGED <<up, served, past>>

Begin(c) ==
  /\ up /\ c \notin past /\ \A d \in served : UserOf[d] # UserOf[c]
  /\ served' = served \cup {c}
  /\ UNCHANGED <<up, past, stage>>

HandOut(f) ==
  /\ up /\ f[1] \in served /\ Cardinality(Matching) < MaxImage
  /\ stage[f] = "queued" /\ \A g \in Before(f) : stage[g] \notin {"absent", "queued"}
  /\ stage' = [stage EXCEPT ![f] = "matching"]
  /\ UNCHANGED <<up, served, past>>

Answer(f) ==
  /\ up /\ stage[f] = "matching"
  /\ stage' = [stage EXCEPT ![f] = "answered"]
  /\ UNCHANGED <<up, served, past>>

Lose(f) ==
  /\ up /\ stage[f] = "matching"
  /\ stage' = [stage EXCEPT ![f] = "lost"]
  /\ UNCHANGED <<up, served, past>>

Dismiss(c) ==
  /\ up /\ c \in served /\ \A f \in Of(c) : stage[f] # "queued"
  /\ served' = served \ {c} /\ past' = past \cup {c}
  /\ UNCHANGED <<up, stage>>

Down ==
  /\ up /\ up' = FALSE
  /\ UNCHANGED <<served, past, stage>>

Next ==
  \/ \E f \in Frames : Receive(f) \/ HandOut(f) \/ Answer(f) \/ Lose(f)
  \/ \E c \in Clients : Begin(c) \/ Dismiss(c)
  \/ Down

Spec == Init /\ [][Next]_vars
=============================================================================
