------------------------------- MODULE MCAIChat -------------------------------
(* AIChat on a small instance.                                              *)
EXTENDS AIChat, TLC

Symmetry == Permutations(Requests) \cup Permutations(Sessions)
            \cup Permutations(Messages) \cup Permutations(Tokens)
=============================================================================
