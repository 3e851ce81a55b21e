------------------------------ MODULE MCAutopilot ------------------------------
(* Autopilot on small instances: identical workers may be exchanged when no *)
(* liveness property is checked.                                            *)
EXTENDS Autopilot, TLC

NoRetry == <<>>
OneRetry == <<1>>
OneDate == [t \in 0 .. MaxTime |-> 1]
Symmetry == Permutations(Workers)
=============================================================================
