---------------------------- MODULE LinuxClientMC ----------------------------
(* Instances of LinuxClient for TLC: the sizes of the files. *)
EXTENDS LinuxClient

\* Less than a buffer, a buffer and a half, and the first size again.
Sizes == [k \in Frames |-> IF k = 2 THEN 3 ELSE 1]
=============================================================================
