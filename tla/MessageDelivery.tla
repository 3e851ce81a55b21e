--------------------------- MODULE MessageDelivery ---------------------------
(***************************************************************************)
(* What the outgoing queue promises for one reply of a manager, with no    *)
(* worker, lock, batch, retry timer or idempotency record in sight.        *)
(*                                                                         *)
(* The customer side of Telegram is the only thing the database cannot     *)
(* roll back, so the contract is a ledger of copies: a copy that reached   *)
(* the customer is OPEN until the queue either confirms it (the message    *)
(* becomes DELIVERED) or loses track of it (the answer of Telegram was     *)
(* lost, or the worker died before its commit).                            *)
(***************************************************************************)
EXTENDS Naturals

CONSTANT Messages           \* the identifiers messages may take

VARIABLES
    status,                 \* NONE (not created), SENT, DELIVERED or FAILED
    deleted,                \* the messages soft-deleted with their chat
    copies,                 \* copies of a message the customer received
    open,                   \* messages with one copy not yet accounted for
    lost,                   \* copies of a message the queue lost track of
    alerted                 \* messages whose failure the admins were told of

vars == <<status, deleted, copies, open, lost, alerted>>

Init ==
    /\ status = [m \in Messages |-> "NONE"]
    /\ deleted = {}
    /\ copies = [m \in Messages |-> 0]
    /\ open = {}
    /\ lost = [m \in Messages |-> 0]
    /\ alerted = {}

(* A manager's reply is accepted for delivery. *)
Accept(m) ==
    /\ status[m] = "NONE"
    /\ status' = [status EXCEPT ![m] = "SENT"]
    /\ UNCHANGED <<deleted, copies, open, lost, alerted>>

(* One copy reaches the customer: never a second one while the first is    *)
(* unaccounted for, never of a message that is settled or deleted.         *)
Reach(m) ==
    /\ status[m] = "SENT"
    /\ m \notin deleted \cup open
    /\ copies' = [copies EXCEPT ![m] = @ + 1]
    /\ open' = open \cup {m}
    /\ UNCHANGED <<status, deleted, lost, alerted>>

(* The open copy is confirmed and the message is settled. *)
Confirm(m) ==
    /\ m \in open
    /\ status[m] = "SENT"
    /\ status' = [status EXCEPT ![m] = "DELIVERED"]
    /\ open' = open \ {m}
    /\ UNCHANGED <<deleted, copies, lost, alerted>>

(* The open copy, if any, is lost track of; the message may be given up    *)
(* in the same step, and then the admins learn of it.                      *)
Lose(m, giveUp) ==
    /\ status[m] = "SENT"
    /\ giveUp \/ m \in open
    /\ lost' = IF m \in open THEN [lost EXCEPT ![m] = @ + 1] ELSE lost
    /\ open' = open \ {m}
    /\ status' = IF giveUp THEN [status EXCEPT ![m] = "FAILED"] ELSE status
    /\ alerted' = IF giveUp THEN alerted \cup {m} ELSE alerted
    /\ UNCHANGED <<deleted, copies>>

(* Messages disappear with their chat, but none with a copy under way. *)
Delete(S) ==
    /\ S \cap open = {}
    /\ \A m \in S : status[m] # "NONE"
    /\ deleted' = deleted \cup S
    /\ UNCHANGED <<status, copies, open, lost, alerted>>

Next ==
    \/ \E m \in Messages :
        \/ Accept(m)
        \/ Reach(m)
        \/ Confirm(m)
        \/ \E giveUp \in BOOLEAN : Lose(m, giveUp)
    \/ \E S \in SUBSET Messages : Delete(S)

Spec == Init /\ [][Next]_vars
=============================================================================
