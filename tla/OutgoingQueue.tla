---------------------------- MODULE OutgoingQueue ----------------------------
(***************************************************************************)
(* The queue of replies to Telegram customers (messaging/outgoing.py) with *)
(* the requests that feed it and the deletion of chats that empties it     *)
(* (messaging/services.py), in one workspace.                              *)
(*                                                                         *)
(* HTTP requests and workers are transactions on one PostgreSQL database   *)
(* at READ COMMITTED.  A transaction is split where another one can run    *)
(* between two of its statements and matter: where it waits for a row, and *)
(* around the Telegram call, which the worker makes inside its transaction *)
(* with its rows locked.  A row lock is not a variable: it is held by      *)
(* whoever is between the statement that takes it and the commit, so the   *)
(* program counters say who holds what.                                    *)
(*                                                                         *)
(* Django's select_for_update() locks the rows of select_related() too:    *)
(* the worker's query locks the message, its chat, the workspace and the   *)
(* contact, in that order; the request's query locks the chat first and    *)
(* the message of the idempotency record second.                           *)
(***************************************************************************)
EXTENDS Naturals, FiniteSets

CONSTANTS
    Workers,                \* process_outgoing_messages processes
    Requests,               \* HTTP request handlers that may run at once
    Chats,
    Keys,                   \* values of the Idempotency-Key header
    MaxMessages,            \* bound: messages ever created
    RetryDelay,
    IdempotencyTTL,
    MaxDeliveryAttempts,
    BatchLimit,             \* --limit of the worker command
    MaxTime,                \* bound: the clock
    MaxFaults,              \* bound: workers that die with their batch
    NoMessage               \* "no idempotency record" (NoMessage \notin 1..MaxMessages)

Messages == 1 .. MaxMessages
Statuses == {"NONE", "SENT", "DELIVERED", "FAILED"}
Calls == [op : {"send"}, chat : Chats, key : Keys]
            \cup [op : {"delete"}, chat : Chats]
Origins == [chat : Chats, key : Keys, at : 0 .. MaxTime]

ASSUME BoundsAssumption ==
    /\ MaxMessages \in Nat /\ MaxTime \in Nat /\ MaxFaults \in Nat
    /\ RetryDelay \in Nat /\ IdempotencyTTL \in Nat
    /\ MaxDeliveryAttempts \in Nat \ {0}
    /\ BatchLimit \in Nat \ {0}

ASSUME NamesAssumption ==
    /\ NoMessage \notin Messages
    /\ Chats # {} /\ Keys # {}

VARIABLES
    now,                    \* timezone.now()
    connected,              \* the Telegram integration has usable credentials
    chatDeleted,            \* SUBSET Chats: Chat.is_deleted
    status,                 \* Message.status, NONE before the row exists
    deleted,                \* SUBSET Messages: Message.is_deleted
    attempts,               \* Message.delivery_attempts
    due,                    \* Message.next_delivery_attempt_at (0 when NULL)
    origin,                 \* the call and the time that created each message
    record,                 \* idempotency records: key -> message and expiry
    rpc, call, issued, purge,       \* requests
    wpc, batch, batchTime, cur, accepted,   \* workers
    alerted,                \* messages with a delivery-failure notification
    copies, lost,           \* history: copies received, copies unaccounted for
    faults                  \* number of worker deaths so far

messageVars == <<status, attempts, due>>
requestVars == <<rpc, call, issued, purge>>
workerVars == <<wpc, batch, batchTime, cur, accepted>>
outcomeVars == <<alerted, copies, lost>>
vars == <<now, connected, chatDeleted, messageVars, deleted, origin, record,
          requestVars, workerVars, outcomeVars, faults>>

NoRecord == [msg |-> NoMessage, expires |-> 0]
NoCall == CHOOSE c \in Calls : TRUE
NoOrigin == CHOOSE o \in Origins : o.at = 0

Init ==
    /\ now = 0
    /\ connected = TRUE
    /\ chatDeleted = {}
    /\ status = [m \in Messages |-> "NONE"]
    /\ deleted = {}
    /\ attempts = [m \in Messages |-> 0]
    /\ due = [m \in Messages |-> 0]
    /\ origin = [m \in Messages |-> NoOrigin]
    /\ record = [k \in Keys |-> NoRecord]
    /\ rpc = [r \in Requests |-> "idle"]
    /\ call = [r \in Requests |-> NoCall]
    /\ issued = [r \in Requests |-> 0]
    /\ purge = [r \in Requests |-> FALSE]
    /\ wpc = [w \in Workers |-> "idle"]
    /\ batch = [w \in Workers |-> {}]
    /\ batchTime = [w \in Workers |-> 0]
    /\ cur = [w \in Workers |-> NoMessage]
    /\ accepted = [w \in Workers |-> FALSE]
    /\ alerted = {}
    /\ copies = [m \in Messages |-> 0]
    /\ lost = [m \in Messages |-> 0]
    /\ faults = 0

-----------------------------------------------------------------------------
(* Who holds which row. *)

Created(m) == status[m] # "NONE"
ChatOf(m) == origin[m].chat

(* Between LockMessage and the end of the transaction. *)
WorkerHasMessage(w, m) == wpc[w] \in {"message", "chat", "calling"} /\ cur[w] = m

(* The lookup of the idempotency record locks the record and its message;  *)
(* both stay locked when the record has expired and is being replaced.     *)
RequestHasMessage(r, m) ==
    rpc[r] = "insert" /\ purge[r] /\ record[call[r].key].msg = m

WorkerHasChat(w, c) == wpc[w] \in {"chat", "calling"} /\ ChatOf(cur[w]) = c
RequestHasChat(r, c) ==
    rpc[r] \in {"lookup", "insert", "messages"} /\ call[r].chat = c

(* Mutant: the worker's query without select_for_update().                *)
MessageFree_NoRowLock(m) == \A r \in Requests : ~RequestHasMessage(r, m)

MessageFree(m) ==
    /\ \A w \in Workers : ~WorkerHasMessage(w, m)
    /\ \A r \in Requests : ~RequestHasMessage(r, m)
ChatFree(c) ==
    /\ \A w \in Workers : ~WorkerHasChat(w, c)
    /\ \A r \in Requests : ~RequestHasChat(r, c)
WorkspaceFree == \A w \in Workers : wpc[w] # "calling"

-----------------------------------------------------------------------------
(* Requests: POST /chats/<id>/messages and DELETE /chats/<id>. *)

Finish(r) ==
    /\ rpc' = [rpc EXCEPT ![r] = "idle"]
    /\ call' = [call EXCEPT ![r] = NoCall]
    /\ issued' = [issued EXCEPT ![r] = 0]
    /\ purge' = [purge EXCEPT ![r] = FALSE]

(* A request arrives; enqueue_outgoing_message reads the clock before its  *)
(* transaction starts.                                                     *)
Arrive(r, c) ==
    /\ rpc[r] = "idle"
    /\ rpc' = [rpc EXCEPT ![r] = "arrived"]
    /\ call' = [call EXCEPT ![r] = c]
    /\ issued' = [issued EXCEPT ![r] = now]
    /\ UNCHANGED <<now, connected, chatDeleted, messageVars, deleted, origin,
                   record, purge, workerVars, outcomeVars, faults>>

(* SELECT ... FROM chats FOR UPDATE; a deleted chat is answered with 404. *)
RequestLocksChat(r) ==
    /\ rpc[r] = "arrived"
    /\ ChatFree(call[r].chat)
    /\ IF call[r].chat \in chatDeleted
       THEN Finish(r)
       ELSE /\ rpc' = [rpc EXCEPT ![r] = IF call[r].op = "send" THEN "lookup"
                                                                ELSE "messages"]
            /\ UNCHANGED <<call, issued, purge>>
    /\ UNCHANGED <<now, connected, chatDeleted, messageVars, deleted, origin,
                   record, workerVars, outcomeVars, faults>>

(* The idempotency record, locked with its message.  A live record ends    *)
(* the request, which changes nothing whether it is a replay (the payload  *)
(* has the record's hash) or a 409 (it has not).                           *)
LookupRecord(r) ==
    LET rec == record[call[r].key]
        exists == rec.msg # NoMessage
        expired == exists /\ rec.expires <= issued[r]
    IN /\ rpc[r] = "lookup"
       /\ exists => MessageFree(rec.msg)
       /\ IF exists /\ ~expired
          THEN Finish(r)
          ELSE /\ rpc' = [rpc EXCEPT ![r] = "insert"]
               /\ purge' = [purge EXCEPT ![r] = expired]
               /\ UNCHANGED <<call, issued>>
       /\ UNCHANGED <<now, connected, chatDeleted, messageVars, deleted, origin,
                      record, workerVars, outcomeVars, faults>>

(* Messages are numbered in the order they are created. *)
IsNext(m) == ~Created(m) /\ \A n \in Messages : n < m => Created(n)

(* Mutant: the key is not unique in its workspace.                        *)
KeyTaken_NotUnique(r) == FALSE

(* The unique constraint on (workspace, key) refuses a record that another *)
(* chat's request has committed since the lookup.                          *)
KeyTaken(r) == ~purge[r] /\ record[call[r].key].msg # NoMessage

(* The message, its record and the commit.  The record's foreign key needs *)
(* a share of the workspace row, which a worker holds during its call.     *)
InsertMessage(r) ==
    /\ rpc[r] = "insert"
    /\ WorkspaceFree
    /\ connected
    /\ ~KeyTaken(r)
    /\ \E m \in Messages :
       /\ IsNext(m)
       /\ status' = [status EXCEPT ![m] = "SENT"]
       /\ due' = [due EXCEPT ![m] = issued[r]]
       /\ origin' = [origin EXCEPT ![m] =
                        [chat |-> call[r].chat, key |-> call[r].key,
                         at |-> issued[r]]]
       /\ record' = [record EXCEPT ![call[r].key] =
                        [msg |-> m, expires |-> issued[r] + IdempotencyTTL]]
    /\ Finish(r)
    /\ UNCHANGED <<now, connected, chatDeleted, deleted, attempts, workerVars,
                   outcomeVars, faults>>

(* TELEGRAM_NOT_CONNECTED, an IntegrityError on the key, a lost connection *)
(* or the end of the model's message pool: the transaction rolls back, and *)
(* an expired record it had deleted is back.                               *)
RollBack(r) ==
    /\ rpc[r] \in {"lookup", "insert", "messages"}
    /\ Finish(r)
    /\ UNCHANGED <<now, connected, chatDeleted, messageVars, deleted, origin,
                   record, workerVars, outcomeVars, faults>>

(* delete_chat: the chat and every message of it, in one transaction that  *)
(* waits for the message rows.                                             *)
DeleteChat(r) ==
    LET c == call[r].chat
        gone == {m \in Messages : Created(m) /\ ChatOf(m) = c}
    IN /\ rpc[r] = "messages"
       /\ \A m \in gone \ deleted : MessageFree(m)
       /\ chatDeleted' = chatDeleted \cup {c}
       /\ deleted' = deleted \cup gone
       /\ Finish(r)
       /\ UNCHANGED <<now, connected, messageVars, origin, record, workerVars,
                      outcomeVars, faults>>

-----------------------------------------------------------------------------
(* Workers. *)

(* Mutant: the query that forgets replies which failed once.              *)
Due_FirstAttemptOnly(t) ==
    {m \in Messages : status[m] = "SENT" /\ m \notin deleted /\ attempts[m] = 0 /\ due[m] <= t}

Due(t) == {m \in Messages : status[m] = "SENT" /\ m \notin deleted /\ due[m] <= t}

(* ORDER BY next_delivery_attempt_at, created_at. *)
Before(p, q) == p.due < q.due \/ (p.due = q.due /\ p.msg < q.msg)
IsFirst(p, S) == p \in S /\ \A q \in S \ {p} : Before(p, q)
Prefix(S, n) == {p \in S : Cardinality({q \in S : Before(q, p)}) < n}

(* process_pending_outgoing_messages reads the clock once and the         *)
(* identifiers of the batch without locking anything.                      *)
SelectBatch(w) ==
    /\ wpc[w] = "idle"
    /\ Due(now) # {}
    /\ wpc' = [wpc EXCEPT ![w] = "batch"]
    /\ batch' = [batch EXCEPT ![w] =
                    Prefix({[due |-> due[m], msg |-> m] : m \in Due(now)}, BatchLimit)]
    /\ batchTime' = [batchTime EXCEPT ![w] = now]
    /\ UNCHANGED <<now, connected, chatDeleted, messageVars, deleted, origin,
                   record, requestVars, cur, accepted, outcomeVars, faults>>

(* The transaction of the current message is over.  Unless the broadcast   *)
(* after the commit raised, which ends the process, the batch goes on.     *)
EndTransaction(w, m, survives) ==
    LET rest == {p \in batch[w] : p.msg # m}
        goesOn == survives /\ rest # {}
    IN /\ wpc' = [wpc EXCEPT ![w] = IF goesOn THEN "batch" ELSE "idle"]
       /\ batch' = [batch EXCEPT ![w] = IF goesOn THEN rest ELSE {}]
       /\ batchTime' = [batchTime EXCEPT ![w] = IF goesOn THEN @ ELSE 0]
       /\ cur' = [cur EXCEPT ![w] = NoMessage]
       /\ accepted' = [accepted EXCEPT ![w] = FALSE]

(* SELECT ... FOR UPDATE of the next message: the message row comes first. *)
LockMessage(w) ==
    /\ wpc[w] = "batch"
    /\ \E p \in batch[w] :
        /\ IsFirst(p, batch[w])
        /\ p.msg \notin deleted
        /\ MessageFree(p.msg)
        /\ cur' = [cur EXCEPT ![w] = p.msg]
    /\ wpc' = [wpc EXCEPT ![w] = "message"]
    /\ UNCHANGED <<now, connected, chatDeleted, messageVars, deleted, origin,
                   record, requestVars, batch, batchTime, accepted,
                   outcomeVars, faults>>

(* ... then the chat row. *)
WorkerLocksChat(w) ==
    /\ wpc[w] = "message"
    /\ ChatFree(ChatOf(cur[w]))
    /\ wpc' = [wpc EXCEPT ![w] = "chat"]
    /\ UNCHANGED <<now, connected, chatDeleted, messageVars, deleted, origin,
                   record, requestVars, batch, batchTime, cur, accepted,
                   outcomeVars, faults>>

(* Mutant: the status is not read again under the lock.                   *)
Eligible_StatusNotChecked(w) == due[cur[w]] <= batchTime[w]

Eligible(w) ==
    status[cur[w]] = "SENT" /\ due[cur[w]] <= batchTime[w]

(* A message deleted since the batch was read is not found, and one that   *)
(* was settled or postponed is left alone once its rows are locked.        *)
Skip(w) ==
    /\ \/ /\ wpc[w] = "batch"
          /\ \E p \in batch[w] :
              /\ IsFirst(p, batch[w])
              /\ p.msg \in deleted
              /\ EndTransaction(w, p.msg, TRUE)
       \/ /\ wpc[w] = "chat"
          /\ WorkspaceFree
          /\ ~Eligible(w)
          /\ EndTransaction(w, cur[w], TRUE)
    /\ UNCHANGED <<now, connected, chatDeleted, messageVars, deleted, origin,
                   record, requestVars, outcomeVars, faults>>

(* ... then the workspace row.  The credentials are there and            *)
(* client.send_message is called.                                          *)
StartCall(w) ==
    /\ wpc[w] = "chat"
    /\ WorkspaceFree
    /\ Eligible(w)
    /\ connected
    /\ wpc' = [wpc EXCEPT ![w] = "calling"]
    /\ UNCHANGED <<now, connected, chatDeleted, messageVars, deleted, origin,
                   record, requestVars, batch, batchTime, cur, accepted,
                   outcomeVars, faults>>

(* Telegram takes the message: the customer has a copy, whatever the       *)
(* worker learns about it.                                                 *)
TelegramAccepts(w) ==
    /\ wpc[w] = "calling"
    /\ ~accepted[w]
    /\ accepted' = [accepted EXCEPT ![w] = TRUE]
    /\ copies' = [copies EXCEPT ![cur[w]] = @ + 1]
    /\ UNCHANGED <<now, connected, chatDeleted, messageVars, deleted, origin,
                   record, requestVars, wpc, batch, batchTime, cur, alerted,
                   lost, faults>>

CountAttempt(w) == attempts' = [attempts EXCEPT ![cur[w]] = @ + 1]

(* The answer arrived: DELIVERED, and no further attempt is due. *)
CallSucceeds(w, survives) ==
    /\ wpc[w] = "calling"
    /\ accepted[w]
    /\ CountAttempt(w)
    /\ status' = [status EXCEPT ![cur[w]] = "DELIVERED"]
    /\ due' = [due EXCEPT ![cur[w]] = 0]
    /\ EndTransaction(w, cur[w], survives)
    /\ UNCHANGED <<now, connected, chatDeleted, deleted, origin, record,
                   requestVars, outcomeVars, faults>>

(* Mutant: the failure is saved and the admins are not told.              *)
GiveUp_Silently(m) ==
    /\ status' = [status EXCEPT ![m] = "FAILED"]
    /\ due' = [due EXCEPT ![m] = 0]
    /\ UNCHANGED alerted

(* status = FAILED, with the notification of the admins in the same        *)
(* transaction.                                                            *)
GiveUp(m) ==
    /\ status' = [status EXCEPT ![m] = "FAILED"]
    /\ due' = [due EXCEPT ![m] = 0]
    /\ alerted' = alerted \cup {m}

(* PermanentDeliveryError (no usable credentials, so no call is made),     *)
(* TelegramInvalidToken or TelegramMessageRejected.                        *)
FailPermanently(w, survives) ==
    /\ \/ wpc[w] = "chat" /\ WorkspaceFree /\ Eligible(w) /\ ~connected
       \/ wpc[w] = "calling" /\ ~accepted[w]
    /\ CountAttempt(w)
    /\ GiveUp(cur[w])
    /\ EndTransaction(w, cur[w], survives)
    /\ UNCHANGED <<now, connected, chatDeleted, deleted, origin, record,
                   requestVars, copies, lost, faults>>

Unaccounted(w) ==
    lost' = IF accepted[w] THEN [lost EXCEPT ![cur[w]] = @ + 1] ELSE lost

(* Mutant: the attempts before the one that is being counted.             *)
LastAttempt_OffByOne(m) == attempts[m] >= MaxDeliveryAttempts

LastAttempt(m) == attempts[m] + 1 >= MaxDeliveryAttempts

(* now + RETRY_DELAY, by the clock of the batch.  The model's clock stops  *)
(* at MaxTime, so a retry due later is due then.                           *)
RetryAt(w) == IF batchTime[w] + RetryDelay < MaxTime
              THEN batchTime[w] + RetryDelay
              ELSE MaxTime

(* TelegramApiUnavailable: a timeout or a network error, which says nothing *)
(* about whether Telegram took the message.  The last attempt fails it.    *)
CallUnavailable(w, survives) ==
    LET m == cur[w] IN
       /\ wpc[w] = "calling"
       /\ CountAttempt(w)
       /\ IF LastAttempt(m)
          THEN GiveUp(m)
          ELSE /\ survives
               /\ due' = [due EXCEPT ![m] = RetryAt(w)]
               /\ UNCHANGED <<status, alerted>>
       /\ Unaccounted(w)
       /\ EndTransaction(w, m, survives)
       /\ UNCHANGED <<now, connected, chatDeleted, deleted, origin, record,
                      requestVars, copies, faults>>

(* The process dies, or PostgreSQL makes its transaction the victim of a   *)
(* deadlock and the uncaught OperationalError ends it: everything it had   *)
(* not committed is undone, except what Telegram already accepted.         *)
WorkerDies(w) ==
    /\ wpc[w] # "idle"
    /\ faults < MaxFaults
    /\ faults' = faults + 1
    /\ Unaccounted(w)
    /\ EndTransaction(w, cur[w], FALSE)
    /\ UNCHANGED <<now, connected, chatDeleted, messageVars, deleted, origin,
                   record, requestVars, alerted, copies>>

-----------------------------------------------------------------------------
(* The environment: the clock and the integration's owner. *)

Tick ==
    /\ now < MaxTime
    /\ now' = now + 1
    /\ UNCHANGED <<connected, chatDeleted, messageVars, deleted, origin, record,
                   requestVars, workerVars, outcomeVars, faults>>

(* connect_telegram and disconnect_telegram commit the integration row. *)
ToggleIntegration ==
    /\ connected' = ~connected
    /\ UNCHANGED <<now, chatDeleted, messageVars, deleted, origin, record,
                   requestVars, workerVars, outcomeVars, faults>>

RequestStep(r) ==
    \/ RequestLocksChat(r)
    \/ LookupRecord(r)
    \/ InsertMessage(r)
    \/ RollBack(r)
    \/ DeleteChat(r)

WorkerStep(w) ==
    \/ SelectBatch(w)
    \/ LockMessage(w)
    \/ WorkerLocksChat(w)
    \/ Skip(w)
    \/ StartCall(w)
    \/ TelegramAccepts(w)
    \/ \E survives \in BOOLEAN :
        \/ CallSucceeds(w, survives)
        \/ FailPermanently(w, survives)
        \/ CallUnavailable(w, survives)

Next ==
    \/ \E r \in Requests : RequestStep(r) \/ \E c \in Calls : Arrive(r, c)
    \/ \E w \in Workers : WorkerStep(w) \/ WorkerDies(w)
    \/ Tick
    \/ ToggleIntegration

Spec == Init /\ [][Next]_vars

(* The supervisor keeps the workers running, PostgreSQL grants a row lock  *)
(* to its waiters in turn and breaks deadlocks, HTTP requests end and the  *)
(* clock runs; nothing is assumed of clients, Telegram's verdicts, crashes *)
(* or the owner of the integration.                                        *)
Fairness ==
    /\ WF_vars(Tick)
    /\ \A r \in Requests : WF_vars(RequestStep(r))
    /\ \A w \in Workers :
        /\ WF_vars(SelectBatch(w))
        /\ SF_vars(LockMessage(w))
        /\ SF_vars(WorkerLocksChat(w))
        /\ SF_vars(Skip(w))
        /\ SF_vars(StartCall(w) \/ FailPermanently(w, TRUE))
        /\ WF_vars(CallSucceeds(w, TRUE) \/ CallUnavailable(w, TRUE))

LiveSpec == Spec /\ Fairness

-----------------------------------------------------------------------------
(* Properties. *)

Entries == [due : Nat, msg : Messages]

MessageTypes ==
    /\ status \in [Messages -> Statuses]
    /\ attempts \in [Messages -> 0 .. MaxDeliveryAttempts]
    /\ due \in [Messages -> Nat]
    /\ origin \in [Messages -> Origins]
    /\ record \in [Keys -> [msg : Messages \cup {NoMessage}, expires : Nat]]
    /\ copies \in [Messages -> Nat]
    /\ lost \in [Messages -> Nat]

RequestTypes ==
    /\ rpc \in [Requests -> {"idle", "arrived", "lookup", "insert", "messages"}]
    /\ call \in [Requests -> Calls]
    /\ issued \in [Requests -> 0 .. MaxTime]
    /\ purge \in [Requests -> BOOLEAN]

WorkerTypes ==
    /\ wpc \in [Workers -> {"idle", "batch", "message", "chat", "calling"}]
    /\ batch \in [Workers -> SUBSET Entries]
    /\ batchTime \in [Workers -> Nat]
    /\ cur \in [Workers -> Messages \cup {NoMessage}]
    /\ accepted \in [Workers -> BOOLEAN]

WorldTypes ==
    /\ now \in 0 .. MaxTime
    /\ connected \in BOOLEAN
    /\ faults \in 0 .. MaxFaults
    /\ chatDeleted \in SUBSET Chats
    /\ deleted \in SUBSET Messages
    /\ alerted \in SUBSET Messages

(* The type invariant.  Among the rest it says that the attempts counted   *)
(* for a message never exceed MAX_DELIVERY_ATTEMPTS.                       *)
TypeOK == MessageTypes /\ RequestTypes /\ WorkerTypes /\ WorldTypes

(* Messages with a copy the customer has and no transaction has recorded. *)
Open == {m \in Messages : \E w \in Workers : accepted[w] /\ cur[w] = m}

(* The customer gets a reply twice only where an answer of Telegram was    *)
(* lost or a worker died in between: every copy is the one that made the   *)
(* message DELIVERED, the one in flight, or one of the lost.  It rests on  *)
(* the row lock that spans the call and on the status read under it        *)
(* (process_outgoing_message), whatever the overlap of the batches.        *)
CopiesAccounted ==
    \A m \in Messages :
        copies[m] = lost[m] + (IF status[m] = "DELIVERED" \/ m \in Open THEN 1 ELSE 0)

(* A chat's owner who was told that it is deleted sees nothing more sent   *)
(* from it: no copy reaches the customer after delete_chat has committed.  *)
NoSendAfterDelete ==
    [][\A m \in deleted : copies'[m] = copies[m]]_vars

(* Idempotency-Key: the requests that created two messages under one key   *)
(* are at least IDEMPOTENCY_TTL apart, also when they raced each other     *)
(* from different chats or with the purge of the expired record.           *)
OneMessagePerLiveKey ==
    \A m, n \in Messages :
        Created(m) /\ Created(n) /\ m < n /\ origin[m].key = origin[n].key
            => origin[n].at >= origin[m].at + IdempotencyTTL

(* The inductive invariant behind the properties, by its parts. *)

(* At most one worker is inside the transaction of a message, at most one  *)
(* of the workspace is inside a Telegram call.                             *)
LocksExclude ==
    /\ \A v, w \in Workers : \A m \in Messages :
        WorkerHasMessage(v, m) /\ WorkerHasMessage(w, m) => v = w
    /\ \A v, w \in Workers : wpc[v] = "calling" /\ wpc[w] = "calling" => v = w

(* What a locked row guarantees until the commit: the message exists, is   *)
(* not deleted and, from the start of the call, is still SENT.             *)
LockedRowsStand ==
    \A w \in Workers :
        /\ \A p \in batch[w] : Created(p.msg)
        /\ wpc[w] \in {"message", "chat", "calling"}
              => cur[w] \in Messages /\ Created(cur[w]) /\ cur[w] \notin deleted
        /\ wpc[w] = "calling" => status[cur[w]] = "SENT"
        /\ accepted[w] => wpc[w] = "calling"

(* A message can be sent only while it has attempts left. *)
AttemptsLeft ==
    \A m \in Messages :
        status[m] \in {"NONE", "SENT"} => attempts[m] < MaxDeliveryAttempts

(* The record of a key outlives by IDEMPOTENCY_TTL the request of every    *)
(* message created under the key, and the request that purges an expired   *)
(* record is the only one that does.                                       *)
RecordsCover ==
    /\ \A m, n \in Messages : Created(n) /\ m < n => Created(m)
    /\ \A m \in Messages : Created(m) =>
        /\ record[origin[m].key].msg # NoMessage
        /\ record[origin[m].key].expires >= origin[m].at + IdempotencyTTL
    /\ \A r \in Requests : rpc[r] = "insert" /\ purge[r] =>
        /\ call[r].op = "send"
        /\ record[call[r].key].msg # NoMessage
        /\ record[call[r].key].expires <= issued[r]
    /\ \A r \in Requests : rpc[r] \in {"lookup", "insert"} => call[r].op = "send"
    /\ \A q, r \in Requests :
        /\ rpc[q] = "insert" /\ purge[q] /\ rpc[r] = "insert" /\ purge[r]
        /\ call[q].key = call[r].key
        => q = r

Inv ==
    /\ TypeOK
    /\ LocksExclude
    /\ LockedRowsStand
    /\ AttemptsLeft
    /\ RecordsCover
    /\ CopiesAccounted
    /\ OneMessagePerLiveKey

(* The queue keeps the contract of MessageDelivery. *)
Contract == INSTANCE MessageDelivery WITH open <- Open
Implements == Contract!Spec

(* No reply stays SENT for ever: it is delivered, given up with a notice   *)
(* to the admins, or deleted with its chat, in spite of retries, dead      *)
(* workers and the deadlocks of workers with requests.                     *)
EverySentMessageSettles ==
    \A m \in Messages :
        status[m] = "SENT" ~> status[m] \in {"DELIVERED", "FAILED"} \/ m \in deleted

=============================================================================
