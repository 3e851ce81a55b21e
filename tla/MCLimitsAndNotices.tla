-------------------------- MODULE MCLimitsAndNotices --------------------------
(* Notices, and KnowledgeBase with uploads at the limits, on small instances. *)
(* The two share no variable, so how their steps interleave shows nothing: a  *)
(* behaviour is one of the first or one of the second.                        *)
EXTENDS KnowledgeBase, Notices, TLC

VARIABLE part               \* which of the two this behaviour is about

TwoDays == [t \in 0 .. MaxTime |-> IF t = MaxTime THEN MaxTime ELSE 0]

Separate == {Tasks, Chats}

MixedSize == [d \in 1 .. MaxDocs |-> IF d = 1 THEN 2 ELSE 1]

Symmetry == Permutations(Requests) \cup Permutations(Handlers)

(* Bound: where the scan is about tasks, one handler is busy at a time; the   *)
(* behaviours about chats have all of them at work.                           *)
FewHandlers == menu = Tasks => Cardinality({h \in Handlers : ~Free(h)}) <= 1

EitherInit == part \in {"limits", "notices"} /\ Init /\ NoticesInit

EitherNext ==
    \/ part = "limits" /\ Next /\ UNCHANGED <<part, noticesVars>>
    \/ part = "notices" /\ NoticesNext /\ FewHandlers' /\ UNCHANGED <<part, vars>>

EitherSpec == EitherInit /\ [][EitherNext]_<<part, vars, noticesVars>>
=============================================================================
