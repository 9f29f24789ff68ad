----------------------------- MODULE CpsServerMC -----------------------------
(* Instances of CpsServer for TLC: who the clients log in as. *)
EXTENDS CpsServerImpl

CONSTANTS c1, c2, u1, u2

TwoUsers == {u1, u2}
OneUser == {u1}
Alone == [c \in {c1} |-> u1]
Strangers == [c \in {c1, c2} |-> IF c = c1 THEN u1 ELSE u2]
Twins == [c \in {c1, c2} |-> u1]
=============================================================================
