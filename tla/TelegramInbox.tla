---------------------------- MODULE TelegramInbox ----------------------------
(***************************************************************************)
(* The inbox of one workspace: updates that Telegram posts are stored in   *)
(* TelegramWebhookLog (workspaces/telegram_services.py) and turned into    *)
(* contacts, chats and messages by process_pending_telegram_webhooks       *)
(* (messaging/telegram.py), while managers read and delete chats and edit  *)
(* contacts.                                                               *)
(*                                                                         *)
(* The query that locks a log row joins the workspace and so locks its row *)
(* too: updates of one workspace are processed one after another, and      *)
(* every insert of a row that refers to the workspace waits.  The insert   *)
(* of the message waits for the chat, which a request may hold while it    *)
(* waits for the workspace: PostgreSQL breaks the deadlock.                *)
(***************************************************************************)
EXTENDS Naturals, FiniteSets

CONSTANTS
    Workers,                \* process_telegram_webhooks processes
    Requests,               \* handlers of mark_chat_read and delete_chat
    Customers,              \* Telegram users
    Handles,                \* phones, e-mails and user names
    Payloads,               \* what an update may hold: sender and handle
    MaxUpdates,             \* bound: updates
    MaxAdded,               \* bound: contacts that managers add
    MaxAttempts,            \* MAX_WEBHOOK_PROCESSING_ATTEMPTS
    BatchLimit,             \* limit of process_pending_telegram_webhooks
    MaxFaults,              \* bound: failed transactions and dead workers
    Nobody, NoHandle, NoRow

Updates == 1 .. MaxUpdates  \* in the order of received_at
Contacts == 1 .. MaxUpdates + MaxAdded
Chats == Updates            \* an update makes at most one

ASSUME InboxAssumption ==
    /\ MaxUpdates \in Nat /\ MaxAdded \in Nat
    /\ MaxAttempts \in Nat \ {0} /\ BatchLimit \in Nat \ {0} /\ MaxFaults \in Nat
    /\ Payloads \subseteq (Customers \cup {Nobody}) \X (Handles \cup {NoHandle})
    /\ Nobody \notin Customers /\ NoHandle \notin Handles /\ NoRow \notin Nat

VARIABLES
    log, attempts,          \* TelegramWebhookLog: status and processing_attempts
    from, mentions,         \* payload: the sender, Nobody without one; a handle
    contacts,               \* number of contacts, numbered in the order of created_at
    person, handle,         \* telegram_user_id and identifiers of each contact
    chats,                  \* number of chats
    owner, gone, unread,    \* contact, is_deleted and unread_count of each chat
    messages,               \* set of [update, chat, read, deleted]
    wpc, batch, cur,        \* workers
    foundContact, foundChat,    \* what the transaction of a worker has found
    rpc, call, seen,        \* requests; the unread messages mark_chat_read updates
    faults

logVars == <<log, attempts>>
payloadVars == <<from, mentions>>
contactVars == <<contacts, person, handle>>
chatVars == <<chats, owner, gone, unread, messages>>
workerVars == <<wpc, batch, cur, foundContact, foundChat>>
requestVars == <<rpc, call, seen>>
vars == <<logVars, payloadVars, contactVars, chatVars, workerVars, requestVars, faults>>

Message == [update: Updates, chat: Chats, read: BOOLEAN, deleted: BOOLEAN]
Calls == [op: {"read", "delete"}, chat: Chats]

Init ==
    /\ log = [u \in Updates |-> "none"]
    /\ attempts = [u \in Updates |-> 0]
    /\ from = [u \in Updates |-> Nobody]
    /\ mentions = [u \in Updates |-> NoHandle]
    /\ contacts = 0
    /\ person = [c \in Contacts |-> Nobody]
    /\ handle = [c \in Contacts |-> NoHandle]
    /\ chats = 0
    /\ owner = [h \in Chats |-> NoRow]
    /\ gone = {}
    /\ unread = [h \in Chats |-> 0]
    /\ messages = {}
    /\ wpc = [w \in Workers |-> "idle"]
    /\ batch = [w \in Workers |-> {}]
    /\ cur = [w \in Workers |-> NoRow]
    /\ foundContact = [w \in Workers |-> NoRow]
    /\ foundChat = [w \in Workers |-> NoRow]
    /\ rpc = [r \in Requests |-> "idle"]
    /\ call = [r \in Requests |-> NoRow]
    /\ seen = [r \in Requests |-> {}]
    /\ faults = 0

-----------------------------------------------------------------------------
(* Row locks. *)

(* Mutant: the query locks the log row and not the workspace.              *)
WorkspaceFree_LogLockedOnly == TRUE

WorkspaceFree == \A w \in Workers : wpc[w] # "writing"
LogFree(u) == \A w \in Workers : ~(wpc[w] = "writing" /\ cur[w] = u)

(* Mutant: mark_chat_read and delete_chat without select_for_update().     *)
ChatHeld_NotLocked(h) == FALSE

ChatHeld(h) == \E r \in Requests : rpc[r] = "locked" /\ call[r].chat = h

-----------------------------------------------------------------------------
(* The webhook, and managers who edit contacts. *)

(* receive_telegram_webhook: get_or_create by (workspace, update_id); an   *)
(* update that Telegram posts again changes nothing.                       *)
Receive(u, p, h) ==
    /\ log[u] = "none" /\ \A v \in 1 .. u - 1 : log[v] # "none"
    /\ WorkspaceFree
    /\ log' = [log EXCEPT ![u] = "new"]
    /\ from' = [from EXCEPT ![u] = p]
    /\ mentions' = [mentions EXCEPT ![u] = h]
    /\ UNCHANGED <<attempts, contactVars, chatVars, workerVars, requestVars,
                   faults>>

(* create_contact and update_contact of the API.  Waits for the lock of a  *)
(* contact are left out: a transaction they abort is one of ProcessFails.  *)
AddContact(h) ==
    /\ contacts + Cardinality({u \in Updates : log[u] \in {"none", "new"}})
           < MaxUpdates + MaxAdded
    /\ WorkspaceFree
    /\ contacts' = contacts + 1
    /\ handle' = [handle EXCEPT ![contacts + 1] = h]
    /\ UNCHANGED <<payloadVars, person, logVars, chatVars, workerVars,
                   requestVars, faults>>

EditContact(c, h) ==
    /\ c <= contacts
    /\ WorkspaceFree
    /\ handle[c] # h
    /\ handle' = [handle EXCEPT ![c] = h]
    /\ UNCHANGED <<payloadVars, contacts, person, logVars, chatVars, workerVars,
                   requestVars, faults>>

-----------------------------------------------------------------------------
(* Requests: mark_chat_read and delete_chat lock the chat first; the audit *)
(* record they end with refers to the workspace.                           *)

UnreadIn(h) == {m \in messages : m.chat = h /\ ~m.read /\ ~m.deleted}

LockChat(r, c) ==
    /\ rpc[r] = "idle"
    /\ c.chat <= chats /\ c.chat \notin gone
    /\ ~ChatHeld(c.chat)
    /\ rpc' = [rpc EXCEPT ![r] = "locked"]
    /\ call' = [call EXCEPT ![r] = c]
    /\ seen' = [seen EXCEPT ![r] = UnreadIn(c.chat)]
    /\ UNCHANGED <<payloadVars, logVars, contactVars, chatVars, workerVars,
                   faults>>

EndRequest(r) ==
    /\ rpc' = [rpc EXCEPT ![r] = "idle"]
    /\ call' = [call EXCEPT ![r] = NoRow]
    /\ seen' = [seen EXCEPT ![r] = {}]

(* Without an unread message there is no audit record and nothing to wait  *)
(* for.                                                                    *)
MarkRead(r) ==
    LET h == call[r].chat IN
    /\ rpc[r] = "locked" /\ call[r].op = "read"
    /\ seen[r] # {} => WorkspaceFree
    /\ messages' = {IF m \in seen[r] THEN [m EXCEPT !.read = TRUE] ELSE m :
                        m \in messages}
    /\ unread' = [unread EXCEPT ![h] = 0]
    /\ EndRequest(r)
    /\ UNCHANGED <<payloadVars, chats, owner, gone, logVars, contactVars,
                   workerVars, faults>>

DeleteChat(r) ==
    LET h == call[r].chat IN
    /\ rpc[r] = "locked" /\ call[r].op = "delete"
    /\ WorkspaceFree
    /\ gone' = gone \cup {h}
    /\ messages' = {IF m.chat = h THEN [m EXCEPT !.deleted = TRUE] ELSE m :
                        m \in messages}
    /\ EndRequest(r)
    /\ UNCHANGED <<payloadVars, chats, owner, unread, logVars, contactVars,
                   workerVars, faults>>

-----------------------------------------------------------------------------
(* process_pending_telegram_webhooks *)

(* Mutant: an update whose first attempt failed is not taken up again.     *)
Pending_FirstAttemptOnly == {u \in Updates : log[u] = "new" /\ attempts[u] = 0}

Pending == {u \in Updates : log[u] = "new" /\ attempts[u] < MaxAttempts}

(* The first BatchLimit of a set of updates. *)
Prefix(S) == {u \in S : Cardinality({v \in S : v < u}) < BatchLimit}

SelectBatch(w) ==
    /\ wpc[w] = "idle"
    /\ Pending # {}
    /\ wpc' = [wpc EXCEPT ![w] = "next"]
    /\ batch' = [batch EXCEPT ![w] = Prefix(Pending)]
    /\ UNCHANGED <<payloadVars, cur, foundContact, foundChat, logVars,
                   contactVars, chatVars, requestVars, faults>>

IsFirst(u, S) == u \in S /\ \A v \in S : u <= v

(* Back to the loop over the batch, or to the next batch. *)
Proceed(w, rest) ==
    /\ batch' = [batch EXCEPT ![w] = rest]
    /\ wpc' = [wpc EXCEPT ![w] = IF rest = {} THEN "idle" ELSE "next"]
    /\ cur' = [cur EXCEPT ![w] = NoRow]
    /\ foundContact' = [foundContact EXCEPT ![w] = NoRow]
    /\ foundChat' = [foundChat EXCEPT ![w] = NoRow]

(* Mutant: the status of the batch is trusted once the row is locked.      *)
Settled_NotReadAgain(u) == FALSE

Settled(u) == log[u] # "new"

(* _find_contact: the Telegram user before the handle, the oldest first.   *)
SameHandle(u) ==
    {c \in 1 .. contacts : mentions[u] # NoHandle /\ handle[c] = mentions[u]}
Candidates(u) ==
    LET known == {c \in 1 .. contacts : person[c] = from[u]} IN
    IF known # {} THEN known ELSE SameHandle(u)
ContactOf(u) ==
    {c \in Candidates(u) : \A d \in Candidates(u) : c <= d}

LiveChatOf(c) == {h \in 1 .. chats : owner[h] = c /\ h \notin gone}

(* The row was settled by another worker since the batch was read, or the  *)
(* update is not a message of a person.                                    *)
SkipUpdate(w, u) ==
    /\ wpc[w] = "next" /\ IsFirst(u, batch[w])
    /\ WorkspaceFree /\ LogFree(u)
    /\ \/ Settled(u) /\ UNCHANGED logVars
       \/ /\ ~Settled(u) /\ from[u] = Nobody
          /\ log' = [log EXCEPT ![u] = "processed"]
          /\ attempts' = [attempts EXCEPT ![u] = @ + 1]
    /\ Proceed(w, batch[w] \ {u})
    /\ UNCHANGED <<payloadVars, contactVars, chatVars, requestVars, faults>>

(* The log row and the workspace are locked, the contact is found or       *)
(* created and its chat is read without a lock.                            *)
LockLog(w, u) ==
    /\ wpc[w] = "next" /\ IsFirst(u, batch[w])
    /\ WorkspaceFree /\ LogFree(u)
    /\ ~Settled(u) /\ from[u] # Nobody
    /\ \/ \E c \in ContactOf(u) :
              /\ foundContact' = [foundContact EXCEPT ![w] = c]
              /\ \/ \E h \in LiveChatOf(c) :
                        foundChat' = [foundChat EXCEPT ![w] = h]
                 \/ LiveChatOf(c) = {} /\ UNCHANGED foundChat
       \/ /\ ContactOf(u) = {}
          /\ UNCHANGED <<foundContact, foundChat>>
    /\ wpc' = [wpc EXCEPT ![w] = "writing"]
    /\ cur' = [cur EXCEPT ![w] = u]
    /\ UNCHANGED <<payloadVars, batch, logVars, contactVars, chatVars,
                   requestVars, faults>>

(* The contact of the update belongs to its sender from now on.  A phone   *)
(* or an e-mail is not added to a contact that was found; a username is,   *)
(* which is left to EditContact.                                           *)
SaveContact(w) ==
    LET u == cur[w]
        c == foundContact[w] IN
    IF c # NoRow
    THEN person' = [person EXCEPT ![c] = from[u]] /\ UNCHANGED <<contacts, handle>>
    ELSE /\ contacts' = contacts + 1
         /\ person' = [person EXCEPT ![contacts + 1] = from[u]]
         /\ handle' = [handle EXCEPT ![contacts + 1] = mentions[u]]

(* The counter grows in the database: F('unread_count') + 1. *)
Deliver(u, h) ==
    /\ messages' = messages \cup
           {[update |-> u, chat |-> h, read |-> FALSE, deleted |-> FALSE]}
    /\ unread' = [unread EXCEPT ![h] = @ + 1]

(* unique_telegram_update_per_chat *)
Duplicate(u, h) == \E m \in messages : m.update = u /\ m.chat = h

(* Everything the transaction writes, and its commit.  A broadcast that    *)
(* raises behind it finds the log processed and changes nothing.           *)
StoreMessage(w) ==
    LET u == cur[w]
        c == IF foundContact[w] # NoRow THEN foundContact[w] ELSE contacts + 1
        h == foundChat[w] IN
    /\ wpc[w] = "writing"
    /\ SaveContact(w)
    /\ IF h # NoRow
       THEN /\ ~ChatHeld(h) /\ ~Duplicate(u, h)
            /\ Deliver(u, h)
            /\ UNCHANGED <<chats, owner, gone>>
       ELSE /\ chats' = chats + 1
            /\ owner' = [owner EXCEPT ![chats + 1] = c]
            /\ Deliver(u, chats + 1)
            /\ UNCHANGED gone
    /\ log' = [log EXCEPT ![u] = "processed"]
    /\ attempts' = [attempts EXCEPT ![u] = @ + 1]
    /\ Proceed(w, batch[w] \ {u})
    /\ UNCHANGED <<payloadVars, requestVars, faults>>

Fault == faults < MaxFaults /\ faults' = faults + 1

Abort(w) ==
    /\ wpc' = [wpc EXCEPT ![w] = "failing"]
    /\ foundContact' = [foundContact EXCEPT ![w] = NoRow]
    /\ foundChat' = [foundChat EXCEPT ![w] = NoRow]

(* Any exception: the transaction is rolled back, its attempt included.    *)
ProcessFails(w) ==
    /\ wpc[w] = "writing"
    /\ IF foundChat[w] # NoRow /\ Duplicate(cur[w], foundChat[w])
       THEN ~ChatHeld(foundChat[w]) /\ UNCHANGED faults
       ELSE Fault
    /\ Abort(w)
    /\ UNCHANGED <<payloadVars, batch, cur, logVars, contactVars, chatVars,
                   requestVars>>

(* A worker that waits for a chat and the request that holds it and waits  *)
(* for the workspace: one of them is the victim.                           *)
Deadlocked(w, r) ==
    /\ wpc[w] = "writing" /\ foundChat[w] # NoRow
    /\ rpc[r] = "locked" /\ call[r].chat = foundChat[w]
    /\ call[r].op = "delete" \/ seen[r] # {}

BreakDeadlock(w, r) ==
    /\ Deadlocked(w, r)
    /\ \/ Abort(w) /\ UNCHANGED requestVars
       \/ EndRequest(r) /\ UNCHANGED <<wpc, foundContact, foundChat>>
    /\ UNCHANGED <<payloadVars, batch, cur, logVars, contactVars, chatVars,
                   faults>>

IsFinal(u) == attempts[u] + 1 >= MaxAttempts

(* _record_webhook_failure: a transaction of its own. *)
RecordFailure(w) ==
    LET u == cur[w] IN
    /\ wpc[w] = "failing"
    /\ WorkspaceFree /\ LogFree(u)
    /\ IF log[u] = "new"
       THEN /\ attempts' = [attempts EXCEPT ![u] = @ + 1]
            /\ log' = [log EXCEPT ![u] = IF IsFinal(u) THEN "failed" ELSE "new"]
       ELSE UNCHANGED logVars
    /\ Proceed(w, batch[w] \ {u})
    /\ UNCHANGED <<payloadVars, contactVars, chatVars, requestVars, faults>>

WorkerDies(w) ==
    /\ wpc[w] # "idle"
    /\ Fault
    /\ Proceed(w, {})
    /\ UNCHANGED <<payloadVars, logVars, contactVars, chatVars, requestVars>>

-----------------------------------------------------------------------------
Webhook ==
    \E u \in Updates, p \in Payloads : Receive(u, p[1], p[2])

Manager ==
    \/ \E h \in Handles : AddContact(h)
    \/ \E c \in Contacts, h \in Handles : EditContact(c, h)

RequestStep(r) ==
    \/ \E c \in Calls : LockChat(r, c)
    \/ MarkRead(r)
    \/ DeleteChat(r)

Advance(w) ==
    \/ SelectBatch(w)
    \/ \E u \in Updates : SkipUpdate(w, u) \/ LockLog(w, u)
    \/ StoreMessage(w)
    \/ RecordFailure(w)

WorkerStep(w) == Advance(w) \/ ProcessFails(w) \/ WorkerDies(w)

Next ==
    \/ Webhook
    \/ Manager
    \/ \E r \in Requests : RequestStep(r)
    \/ \E w \in Workers : WorkerStep(w)
    \/ \E w \in Workers, r \in Requests : BreakDeadlock(w, r)

Spec == Init /\ [][Next]_vars

(* A supervised worker goes on, requests end, PostgreSQL breaks deadlocks  *)
(* and grants a lock in turn to those who wait for it.                     *)
Fairness ==
    /\ \A w \in Workers : SF_vars(Advance(w))
    /\ \A r \in Requests : SF_vars(MarkRead(r) \/ DeleteChat(r))
    /\ \A w \in Workers, r \in Requests : WF_vars(BreakDeadlock(w, r))

LiveSpec == Spec /\ Fairness

-----------------------------------------------------------------------------
(* Properties *)

(* The variables have their types; an update that waits has attempts left, *)
(* one that was given up has used them all (_record_webhook_failure        *)
(* against the filter of the next batch).                                  *)
TypeOK ==
    /\ log \in [Updates -> {"none", "new", "processed", "failed"}]
    /\ attempts \in [Updates -> 0 .. MaxAttempts]
    /\ \A u \in Updates :
           /\ log[u] = "new" => attempts[u] < MaxAttempts
           /\ log[u] = "failed" => attempts[u] = MaxAttempts
    /\ from \in [Updates -> Customers \cup {Nobody}]
    /\ mentions \in [Updates -> Handles \cup {NoHandle}]
    /\ contacts \in 0 .. MaxUpdates + MaxAdded
    /\ person \in [Contacts -> Customers \cup {Nobody}]
    /\ handle \in [Contacts -> Handles \cup {NoHandle}]
    /\ chats \in 0 .. MaxUpdates
    /\ owner \in [Chats -> Contacts \cup {NoRow}]
    /\ gone \subseteq 1 .. chats
    /\ unread \in [Chats -> Nat]
    /\ messages \subseteq Message
    /\ wpc \in [Workers -> {"idle", "next", "writing", "failing"}]
    /\ batch \in [Workers -> SUBSET Updates]
    /\ cur \in [Workers -> Updates \cup {NoRow}]
    /\ foundContact \in [Workers -> Contacts \cup {NoRow}]
    /\ foundChat \in [Workers -> Chats \cup {NoRow}]
    /\ rpc \in [Requests -> {"idle", "locked"}]
    /\ call \in [Requests -> Calls \cup {NoRow}]
    /\ seen \in [Requests -> SUBSET Message]
    /\ faults \in 0 .. MaxFaults

(* Exactly one message for a processed update of a person, none for any    *)
(* other: neither two workers, nor a retry, nor a crash between two        *)
(* transactions stores an update twice or loses it with a processed log.   *)
MessagesMatchLog ==
    \A u \in Updates :
        Cardinality({m \in messages : m.update = u}) =
            IF log[u] = "processed" /\ from[u] # Nobody THEN 1 ELSE 0

(* One contact for each Telegram user, whoever processes the updates and   *)
(* whatever managers enter: _find_contact looks and create_contact writes  *)
(* under the lock of the workspace.                                        *)
OneContactPerPerson ==
    \A c, d \in 1 .. contacts : person[c] = person[d] /\ person[c] # Nobody => c = d

(* unread_count of a chat is the number of its unread messages: the        *)
(* counter is added to by workers and zeroed by mark_chat_read.            *)
UnreadAccurate ==
    \A h \in (1 .. chats) \ gone : unread[h] = Cardinality(UnreadIn(h))

(* A stored update becomes a message or is given up with failed_at, in     *)
(* spite of failures, dead workers and deadlocks with managers.            *)
EveryUpdateSettles ==
    \A u \in Updates : log[u] = "new" ~> log[u] \in {"processed", "failed"}

(* No message is left in a deleted chat, where nobody would see it.  The   *)
(* update finds its chat without a lock; what saves it is the audit record *)
(* of delete_chat, whose reference waits for the workspace.                *)
NoMessageInDeletedChat ==
    \A m \in messages : m.chat \in gone => m.deleted

(* The state of the inbox is sound: types, counters, chats.                *)
Inv == TypeOK /\ UnreadAccurate /\ NoMessageInDeletedChat

(* The property below does not hold. *)

(* A contact stays with its Telegram user.  An update that gives the phone *)
(* of another customer is put in the chat of that customer and takes the   *)
(* contact over.                                                           *)
ContactKeepsPerson ==
    [][\A c \in Contacts : person[c] # Nobody => person'[c] = person[c]]_vars

=============================================================================
