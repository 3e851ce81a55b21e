---------------------------- MODULE MCAutomation ----------------------------
(* Automation on a small instance: all messages belong to one chat. *)
EXTENDS Automation, TLC

CONSTANT chat

OneChat == [m \in 1 .. MaxMessages |-> chat]

Mixes == {{"contact"}, {"task"}, {"deal", "details"}}

Symmetry == Permutations(Workers)
=============================================================================
