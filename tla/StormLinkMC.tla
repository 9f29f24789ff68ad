----------------------------- MODULE StormLinkMC -----------------------------
(* Instances of StormLink for TLC: the sessions and their frames. *)
EXTENDS StormLink

CONSTANTS s1, s2

OneEach == [s \in Sessions |-> 1]
=============================================================================
