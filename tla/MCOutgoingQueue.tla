--------------------------- MODULE MCOutgoingQueue ---------------------------
(* OutgoingQueue on small instances: identical workers and request handlers *)
(* may be exchanged when no liveness property is checked.                   *)
EXTENDS OutgoingQueue, TLC

Symmetry == Permutations(Workers) \cup Permutations(Requests)
=============================================================================
