--------------------------- MODULE MCKnowledgeBase ---------------------------
(* KnowledgeBase on small instances.  Identical processes may be exchanged  *)
(* when no liveness property is checked.                                    *)
EXTENDS KnowledgeBase, TLC

UnitSize == [d \in Docs |-> 1]

Symmetry == Permutations(Workers) \cup Permutations(Requests)
=============================================================================
