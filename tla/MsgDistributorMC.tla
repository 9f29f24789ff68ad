--------------------------- MODULE MsgDistributorMC ---------------------------
(* Instances of MsgDistributor for TLC: which process the threads belong to. *)
EXTENDS MsgDistributor

CONSTANTS t1, t2, t3

OneProcess == [t \in Threads |-> 1]
TwoProcesses == [t \in Threads |-> IF t = t3 THEN 2 ELSE 1]
===============================================================================
