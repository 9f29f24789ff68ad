--------------------------- MODULE CpsServerImpl ---------------------------
(* CpsServer implements FrameService.  A client is served from the moment its *)
(* transmit thread has found the semaphore of its user's result thread        *)
(* (server-OpenCV.cpp 722-734) to the erasure of user_map (271).              *)
EXTENDS CpsServerInv

served == {q \in Clients : sem_match[q] # None /\ ~Over(sem_match[q])}
past == {q \in Clients : sem_match[q] # None /\ Over(sem_match[q])}

StageOf(f) ==
  CASE c_st[f] = "none" -> IF f[2] <= received[f[1]] THEN "queued" ELSE "absent"
    [] c_st[f] \in {"started", "matching"} -> "matching"
    [] c_st[f] = "done" -> "answered"
    [] OTHER -> "lost"

stage == [f \in Frames |-> StageOf(f)]

Service == INSTANCE FrameService WITH up <- server = "up", served <- served,
                                      past <- past, stage <- stage

\* The threads of the server, with their shared maps, queue and semaphores, do
\* what FrameService allows: serverThread, server_transmit, server_result and
\* result_child together serve one client of a user at a time, hand its frames
\* out in order, once each and within the permits, and give the user ID back
\* only when no frame of the client is left in its queue.
Implements == Service!Spec
=============================================================================
