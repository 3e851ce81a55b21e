------------------------- MODULE OutgoingQueueProofs -------------------------
(***************************************************************************)
(* Proofs about OutgoingQueue for any number of workers, requests, chats,  *)
(* messages and keys and any value of the delays and limits.  TypeOK and   *)
(* the parts of the inductive invariant Inv are proved one by one, each    *)
(* from the parts it needs, action by action.                              *)
(***************************************************************************)
EXTENDS OutgoingQueue, TLAPS

USE BoundsAssumption, NamesAssumption
    DEF BoundsAssumption, NamesAssumption, Messages, Statuses

LEMMA NoCallType == NoCall \in Calls
<1>1. PICK c \in Chats : TRUE
  OBVIOUS
<1>2. [op |-> "delete", chat |-> c] \in Calls
  BY <1>1 DEF Calls
<1> QED
  BY <1>2 DEF NoCall

LEMMA NoOriginType == NoOrigin \in Origins
<1>1. PICK c \in Chats, k \in Keys : TRUE
  OBVIOUS
<1>2. [chat |-> c, key |-> k, at |-> 0] \in Origins
  BY <1>1 DEF Origins
<1> QED
  BY <1>2 DEF NoOrigin

-----------------------------------------------------------------------------
(* Type correctness. *)

LEMMA FinishTypes ==
    ASSUME RequestTypes, NEW r \in Requests, Finish(r)
    PROVE  RequestTypes'
  BY NoCallType DEF Finish, RequestTypes

LEMMA EndTransactionTypes ==
    ASSUME WorkerTypes, NEW w \in Workers, NEW m, NEW survives \in BOOLEAN,
           EndTransaction(w, m, survives)
    PROVE  WorkerTypes'
<1>1. batch' \in [Workers -> SUBSET Entries]
  <2>1. {p \in batch[w] : p.msg # m} \in SUBSET Entries
    BY DEF WorkerTypes
  <2> QED
    BY <2>1 DEF EndTransaction, WorkerTypes
<1>2. wpc' \in [Workers -> {"idle", "batch", "message", "chat", "calling"}]
  BY DEF EndTransaction, WorkerTypes
<1>3. batchTime' \in [Workers -> Nat]
  BY DEF EndTransaction, WorkerTypes
<1> QED
  BY <1>1, <1>2, <1>3 DEF EndTransaction, WorkerTypes

LEMMA CountAttemptType ==
    ASSUME MessageTypes, NEW w \in Workers, cur[w] \in Messages,
           attempts[cur[w]] < MaxDeliveryAttempts, CountAttempt(w)
    PROVE  attempts' \in [Messages -> 0 .. MaxDeliveryAttempts]
<1>1. attempts[cur[w]] \in 0 .. MaxDeliveryAttempts
  BY DEF MessageTypes
<1>2. attempts[cur[w]] + 1 \in 0 .. MaxDeliveryAttempts
  BY <1>1
<1> QED
  BY <1>2 DEF MessageTypes, CountAttempt

LEMMA GiveUpTypes ==
    ASSUME MessageTypes, alerted \in SUBSET Messages, NEW m \in Messages, GiveUp(m)
    PROVE  /\ due' \in [Messages -> Nat]
           /\ status' \in [Messages -> Statuses]
           /\ alerted' \in SUBSET Messages
  BY DEF MessageTypes, GiveUp

LEMMA UnaccountedType ==
    ASSUME MessageTypes, NEW w \in Workers,
           accepted[w] => cur[w] \in Messages, Unaccounted(w)
    PROVE  lost' \in [Messages -> Nat]
<1>1. lost \in [Messages -> Nat]
  BY DEF MessageTypes
<1>2. CASE accepted[w]
  <2>1. lost' = [lost EXCEPT ![cur[w]] = lost[cur[w]] + 1] /\ lost[cur[w]] + 1 \in Nat
    BY <1>1, <1>2 DEF Unaccounted
  <2> QED
    BY <1>1, <2>1
<1>3. CASE ~accepted[w]
  BY <1>1, <1>3 DEF Unaccounted
<1> QED
  BY <1>2, <1>3

(* An attempt that ends has attempts left to count. *)
LEMMA CurrentMessage ==
    ASSUME LockedRowsStand, AttemptsLeft, NEW w \in Workers,
           wpc[w] \in {"message", "chat", "calling"}
    PROVE  /\ cur[w] \in Messages
           /\ status[cur[w]] = "SENT" => attempts[cur[w]] < MaxDeliveryAttempts
           /\ wpc[w] = "calling" => status[cur[w]] = "SENT"
  BY DEF LockedRowsStand, AttemptsLeft

LEMMA RequestStepTypes ==
    ASSUME TypeOK, RecordsCover, NEW r \in Requests, RequestStep(r)
    PROVE  TypeOK'
<1> USE DEF TypeOK
<1>1. CASE RequestLocksChat(r)
  <2>1. RequestTypes'
    BY <1>1, FinishTypes DEF RequestLocksChat, RequestTypes
  <2> QED
    BY <1>1, <2>1 DEF RequestLocksChat, MessageTypes, WorkerTypes, WorldTypes,
                      messageVars, workerVars, outcomeVars
<1>2. CASE LookupRecord(r)
  <2>1. RequestTypes'
    BY <1>2, FinishTypes DEF LookupRecord, RequestTypes
  <2> QED
    BY <1>2, <2>1 DEF LookupRecord, MessageTypes, WorkerTypes, WorldTypes,
                      messageVars, workerVars, outcomeVars
<1>3. CASE InsertMessage(r)
  <2>1. RequestTypes'
    BY <1>3, FinishTypes DEF InsertMessage
  <2>2. call[r] \in [op : {"send"}, chat : Chats, key : Keys] /\ issued[r] \in 0 .. MaxTime
    BY <1>3 DEF InsertMessage, RequestTypes, Calls, RecordsCover
  <2> DEFINE origin_ == [chat |-> call[r].chat, key |-> call[r].key, at |-> issued[r]]
  <2>3. origin_ \in Origins
    BY <2>2 DEF Origins
  <2>4. issued[r] + IdempotencyTTL \in Nat
    BY <2>2
  <2>9. PICK m \in Messages :
          /\ status' = [status EXCEPT ![m] = "SENT"]
          /\ due' = [due EXCEPT ![m] = issued[r]]
          /\ origin' = [origin EXCEPT ![m] = origin_]
          /\ record' = [record EXCEPT ![call[r].key] =
                           [msg |-> m, expires |-> issued[r] + IdempotencyTTL]]
    BY <1>3 DEF InsertMessage
  <2>5. status' \in [Messages -> Statuses] /\ due' \in [Messages -> Nat]
    BY <2>9, <2>2 DEF MessageTypes, Statuses
  <2>6. origin' \in [Messages -> Origins]
    <3>1. origin \in [Messages -> Origins]
      BY DEF MessageTypes
    <3> HIDE DEF origin_
    <3> QED
      BY <2>9, <2>3, <3>1
  <2>7. record' \in [Keys -> [msg : Messages \cup {NoMessage}, expires : Nat]]
    BY <2>9, <2>2, <2>4 DEF MessageTypes
  <2>8. MessageTypes'
    BY <1>3, <2>5, <2>6, <2>7 DEF InsertMessage, MessageTypes, outcomeVars
  <2> QED
    BY <1>3, <2>1, <2>8 DEF InsertMessage, WorkerTypes, WorldTypes,
                            workerVars, outcomeVars
<1>4. CASE RollBack(r)
  <2>1. RequestTypes'
    BY <1>4, FinishTypes DEF RollBack
  <2> QED
    BY <1>4, <2>1 DEF RollBack, MessageTypes, WorkerTypes, WorldTypes,
                      messageVars, workerVars, outcomeVars
<1>5. CASE DeleteChat(r)
  <2>1. RequestTypes'
    BY <1>5, FinishTypes DEF DeleteChat
  <2>2. call[r].chat \in Chats
    BY DEF RequestTypes, Calls
  <2>3. WorldTypes'
    BY <1>5, <2>2 DEF DeleteChat, WorldTypes, outcomeVars
  <2> QED
    BY <1>5, <2>1, <2>3 DEF DeleteChat, MessageTypes, WorkerTypes,
                            messageVars, workerVars, outcomeVars
<1> QED
  BY <1>1, <1>2, <1>3, <1>4, <1>5 DEF RequestStep

LEMMA WorkerStepTypes ==
    ASSUME TypeOK, LockedRowsStand, AttemptsLeft, NEW w \in Workers, WorkerStep(w)
    PROVE  TypeOK'
<1> USE DEF TypeOK
<1>1. CASE SelectBatch(w)
  <2>1. now \in Nat
    BY DEF WorldTypes
  <2>2. Prefix({[due |-> due[m], msg |-> m] : m \in Due(now)}, BatchLimit) \in SUBSET Entries
    BY DEF Prefix, Due, Entries, MessageTypes
  <2>3. WorkerTypes'
    BY <1>1, <2>1, <2>2 DEF SelectBatch, WorkerTypes
  <2> QED
    BY <1>1, <2>3 DEF SelectBatch, MessageTypes, RequestTypes, WorldTypes,
                      messageVars, requestVars, outcomeVars
<1>2. CASE LockMessage(w)
  <2>1. PICK p \in batch[w] : cur' = [cur EXCEPT ![w] = p.msg]
    BY <1>2 DEF LockMessage
  <2>2. p.msg \in Messages
    BY DEF WorkerTypes, Entries
  <2>3. WorkerTypes'
    BY <1>2, <2>1, <2>2 DEF LockMessage, WorkerTypes
  <2> QED
    BY <1>2, <2>3 DEF LockMessage, MessageTypes, RequestTypes, WorldTypes,
                      messageVars, requestVars, outcomeVars
<1>3. CASE WorkerLocksChat(w)
  <2>1. WorkerTypes'
    BY <1>3 DEF WorkerLocksChat, WorkerTypes
  <2>2. MessageTypes' /\ RequestTypes'
    BY <1>3 DEF WorkerLocksChat, MessageTypes, RequestTypes, messageVars, requestVars, outcomeVars
  <2> QED
    BY <1>3, <2>1, <2>2 DEF WorkerLocksChat, WorldTypes, outcomeVars
<1>4. CASE Skip(w)
  <2>1. WorkerTypes'
    BY <1>4, EndTransactionTypes DEF Skip
  <2> QED
    BY <1>4, <2>1 DEF Skip, MessageTypes, RequestTypes, WorldTypes,
                      messageVars, requestVars, outcomeVars
<1>5. CASE StartCall(w)
  <2>1. WorkerTypes'
    BY <1>5 DEF StartCall, WorkerTypes
  <2>2. MessageTypes' /\ RequestTypes'
    BY <1>5 DEF StartCall, MessageTypes, RequestTypes, messageVars, requestVars, outcomeVars
  <2> QED
    BY <1>5, <2>1, <2>2 DEF StartCall, WorldTypes, outcomeVars
<1>6. CASE TelegramAccepts(w)
  <2>1. cur[w] \in Messages
    BY <1>6, CurrentMessage DEF TelegramAccepts
  <2>2. copies' \in [Messages -> Nat]
    BY <1>6, <2>1 DEF TelegramAccepts, MessageTypes
  <2>3. MessageTypes'
    BY <1>6, <2>2 DEF TelegramAccepts, MessageTypes, messageVars
  <2> QED
    BY <1>6, <2>3 DEF TelegramAccepts, RequestTypes, WorkerTypes, WorldTypes, requestVars
<1>7. ASSUME NEW survives \in BOOLEAN, CallSucceeds(w, survives)
      PROVE  TypeOK'
  <2>1. cur[w] \in Messages /\ attempts[cur[w]] < MaxDeliveryAttempts
    BY <1>7, CurrentMessage DEF CallSucceeds
  <2>2. WorkerTypes'
    BY <1>7, EndTransactionTypes DEF CallSucceeds
  <2>3. MessageTypes'
    BY <1>7, <2>1, CountAttemptType DEF CallSucceeds, MessageTypes, outcomeVars
  <2> QED
    BY <1>7, <2>2, <2>3 DEF CallSucceeds, RequestTypes, WorldTypes,
                            requestVars, outcomeVars
<1>8. ASSUME NEW survives \in BOOLEAN, FailPermanently(w, survives)
      PROVE  TypeOK'
  <2>1. cur[w] \in Messages /\ attempts[cur[w]] < MaxDeliveryAttempts
    BY <1>8, CurrentMessage DEF FailPermanently, Eligible
  <2>2. WorkerTypes'
    BY <1>8, EndTransactionTypes DEF FailPermanently
  <2>3. alerted \in SUBSET Messages
    BY DEF WorldTypes
  <2>4. MessageTypes' /\ alerted' \in SUBSET Messages
    BY <1>8, <2>1, <2>3, CountAttemptType, GiveUpTypes DEF FailPermanently, MessageTypes
  <2> QED
    BY <1>8, <2>2, <2>4 DEF FailPermanently, RequestTypes, WorldTypes, requestVars
<1>9. ASSUME NEW survives \in BOOLEAN, CallUnavailable(w, survives)
      PROVE  TypeOK'
  <2>1. cur[w] \in Messages /\ attempts[cur[w]] < MaxDeliveryAttempts
    BY <1>9, CurrentMessage DEF CallUnavailable
  <2>2. WorkerTypes'
    BY <1>9, EndTransactionTypes DEF CallUnavailable
  <2>3. alerted \in SUBSET Messages
    BY DEF WorldTypes
  <2>4. RetryAt(w) \in Nat
    BY DEF WorkerTypes, RetryAt
  <2>5. /\ due' \in [Messages -> Nat]
        /\ status' \in [Messages -> Statuses]
        /\ alerted' \in SUBSET Messages
    <3>1. CASE LastAttempt(cur[w])
      BY <1>9, <2>1, <2>3, <3>1, GiveUpTypes DEF CallUnavailable
    <3>2. CASE ~LastAttempt(cur[w])
      <4>1. due' = [due EXCEPT ![cur[w]] = RetryAt(w)] /\ UNCHANGED <<status, alerted>>
        BY <1>9, <3>2 DEF CallUnavailable
      <4> QED
        BY <2>1, <2>3, <2>4, <4>1 DEF MessageTypes
    <3> QED
      BY <3>1, <3>2
  <2>6. MessageTypes'
    BY <1>9, <2>1, <2>5, CountAttemptType, UnaccountedType
       DEF CallUnavailable, MessageTypes
  <2> QED
    BY <1>9, <2>2, <2>5, <2>6 DEF CallUnavailable, RequestTypes, WorldTypes, requestVars
<1> QED
  BY <1>1, <1>2, <1>3, <1>4, <1>5, <1>6, <1>7, <1>8, <1>9 DEF WorkerStep

LEMMA TypeStep ==
    ASSUME TypeOK, LockedRowsStand, AttemptsLeft, RecordsCover, [Next]_vars
    PROVE  TypeOK'
<1> USE DEF TypeOK
<1>1. ASSUME NEW r \in Requests, NEW c \in Calls, Arrive(r, c)
      PROVE  TypeOK'
  <2>1. RequestTypes'
    BY <1>1 DEF Arrive, RequestTypes, WorldTypes
  <2> QED
    BY <1>1, <2>1 DEF Arrive, MessageTypes, WorkerTypes, WorldTypes,
                      messageVars, workerVars, outcomeVars
<1>2. ASSUME NEW w \in Workers, WorkerDies(w)
      PROVE  TypeOK'
  <2>1. accepted[w] => cur[w] \in Messages
    BY DEF LockedRowsStand
  <2>2. WorkerTypes'
    BY <1>2, EndTransactionTypes DEF WorkerDies
  <2>3. MessageTypes'
    BY <1>2, <2>1, UnaccountedType DEF WorkerDies, MessageTypes, messageVars
  <2> QED
    BY <1>2, <2>2, <2>3 DEF WorkerDies, RequestTypes, WorldTypes, requestVars
<1>3. CASE Tick
  <2>1. now' \in 0 .. MaxTime
    BY <1>3 DEF Tick, WorldTypes
  <2> QED
    BY <1>3, <2>1 DEF Tick, MessageTypes, RequestTypes, WorkerTypes, WorldTypes,
              messageVars, requestVars, workerVars, outcomeVars
<1>4. CASE ToggleIntegration
  BY <1>4 DEF ToggleIntegration, MessageTypes, RequestTypes, WorkerTypes, WorldTypes,
              messageVars, requestVars, workerVars, outcomeVars
<1>5. CASE UNCHANGED vars
  BY <1>5 DEF vars, MessageTypes, RequestTypes, WorkerTypes, WorldTypes,
              messageVars, requestVars, workerVars, outcomeVars
<1> QED
  BY <1>1, <1>2, <1>3, <1>4, <1>5, RequestStepTypes, WorkerStepTypes DEF Next

-----------------------------------------------------------------------------
(* Locks and what they protect. *)

LEMMA EndTransactionEffect ==
    ASSUME WorkerTypes, NEW w \in Workers, NEW m, NEW survives \in BOOLEAN,
           EndTransaction(w, m, survives)
    PROVE  /\ \A v \in Workers \ {w} :
                /\ wpc'[v] = wpc[v] /\ batch'[v] = batch[v]
                /\ cur'[v] = cur[v] /\ accepted'[v] = accepted[v]
           /\ wpc'[w] \in {"idle", "batch"}
           /\ batch'[w] \subseteq batch[w]
           /\ cur'[w] = NoMessage
           /\ accepted'[w] = FALSE
  BY DEF EndTransaction, WorkerTypes

LEMMA LocksExcludeStep ==
    ASSUME TypeOK, LocksExclude, [Next]_vars
    PROVE  LocksExclude'
<1> USE DEF TypeOK
<1>1. ASSUME NEW r \in Requests, RequestStep(r)
      PROVE  LocksExclude'
  <2>1. UNCHANGED <<wpc, cur>>
    BY <1>1 DEF RequestStep, RequestLocksChat, LookupRecord, InsertMessage,
                RollBack, DeleteChat, workerVars
  <2> QED
    BY <2>1 DEF LocksExclude, WorkerHasMessage
<1>2. ASSUME NEW w \in Workers, NEW m, NEW survives \in BOOLEAN,
             EndTransaction(w, m, survives)
      PROVE  LocksExclude'
  <2>1. /\ \A v \in Workers \ {w} : wpc'[v] = wpc[v] /\ cur'[v] = cur[v]
        /\ wpc'[w] \in {"idle", "batch"}
    BY <1>2, EndTransactionEffect
  <2> QED
    BY <2>1 DEF LocksExclude, WorkerHasMessage
<1>3. ASSUME NEW w \in Workers, LockMessage(w)
      PROVE  LocksExclude'
  <2>1. PICK p \in batch[w] : MessageFree(p.msg) /\ cur' = [cur EXCEPT ![w] = p.msg]
    BY <1>3 DEF LockMessage
  <2>2. p.msg \in Messages
    BY DEF WorkerTypes, Entries
  <2> QED
    BY <1>3, <2>1, <2>2 DEF LockMessage, MessageFree, LocksExclude,
                            WorkerHasMessage, WorkerTypes
<1>4. ASSUME NEW w \in Workers, WorkerLocksChat(w)
      PROVE  LocksExclude'
  BY <1>4 DEF WorkerLocksChat, LocksExclude, WorkerHasMessage, WorkerTypes
<1>5. ASSUME NEW w \in Workers, StartCall(w)
      PROVE  LocksExclude'
  BY <1>5 DEF StartCall, WorkspaceFree, LocksExclude, WorkerHasMessage, WorkerTypes
<1>6. ASSUME NEW w \in Workers, SelectBatch(w)
      PROVE  LocksExclude'
  BY <1>6 DEF SelectBatch, LocksExclude, WorkerHasMessage, WorkerTypes
<1>7. CASE UNCHANGED <<wpc, cur>>
  BY <1>7 DEF LocksExclude, WorkerHasMessage
<1>8. ASSUME NEW w \in Workers, WorkerStep(w) \/ WorkerDies(w)
      PROVE  LocksExclude'
  <2>1. CASE Skip(w)
    BY <1>2, <2>1 DEF Skip
  <2>2. CASE WorkerDies(w)
    BY <1>2, <2>2 DEF WorkerDies
  <2>3. CASE TelegramAccepts(w)
    BY <1>7, <2>3 DEF TelegramAccepts
  <2>4. ASSUME NEW survives \in BOOLEAN,
               CallSucceeds(w, survives) \/ FailPermanently(w, survives)
                  \/ CallUnavailable(w, survives)
        PROVE  LocksExclude'
    BY <1>2, <2>4 DEF CallSucceeds, FailPermanently, CallUnavailable
  <2> QED
    BY <1>3, <1>4, <1>5, <1>6, <1>8, <2>1, <2>2, <2>3, <2>4 DEF WorkerStep
<1>9. ASSUME NEW r \in Requests, NEW c \in Calls, Arrive(r, c)
      PROVE  LocksExclude'
  BY <1>7, <1>9 DEF Arrive, workerVars
<1>10. CASE Tick \/ ToggleIntegration \/ UNCHANGED vars
  BY <1>7, <1>10 DEF Tick, ToggleIntegration, vars, workerVars
<1> QED
  BY <1>1, <1>8, <1>9, <1>10 DEF Next

(* A worker that ends its transaction may change the status of its own     *)
(* message, which no other worker has locked.                              *)
LEMMA EndTransactionStands ==
    ASSUME TypeOK, LocksExclude, LockedRowsStand, NEW w \in Workers, NEW m,
           NEW survives \in BOOLEAN, EndTransaction(w, m, survives),
           UNCHANGED deleted,
           UNCHANGED status
              \/ /\ wpc[w] \in {"chat", "calling"}
                 /\ \E s \in Statuses \ {"NONE"} : status' = [status EXCEPT ![cur[w]] = s]
    PROVE  LockedRowsStand'
<1> USE DEF TypeOK
<1>1. \A n \in Messages : Created(n) => Created(n)'
  BY DEF Created, MessageTypes, LockedRowsStand
<1>2. ASSUME NEW v \in Workers \ {w}, wpc[v] = "calling"
      PROVE  status'[cur[v]] = status[cur[v]]
  BY <1>2 DEF LocksExclude, WorkerHasMessage, LockedRowsStand, MessageTypes
<1>3. \A p \in Entries : p.msg \in Messages
  BY DEF Entries
<1>4. /\ \A v \in Workers \ {w} :
            /\ wpc'[v] = wpc[v] /\ batch'[v] = batch[v]
            /\ cur'[v] = cur[v] /\ accepted'[v] = accepted[v]
      /\ wpc'[w] \in {"idle", "batch"}
      /\ batch'[w] \subseteq batch[w]
      /\ accepted'[w] = FALSE
  <2>1. WorkerTypes
    BY DEF TypeOK
  <2> QED
    BY ONLY <2>1, EndTransactionEffect, w \in Workers, survives \in BOOLEAN,
            EndTransaction(w, m, survives)
<1>5. \A v \in Workers : \A p \in batch'[v] : Created(p.msg)'
  <2>1. \A v \in Workers : \A p \in batch[v] : p.msg \in Messages /\ Created(p.msg)
    BY <1>3 DEF LockedRowsStand, WorkerTypes
  <2> QED
    BY <1>1, <1>4, <2>1
<1>6. ASSUME NEW v \in Workers, wpc'[v] \in {"message", "chat", "calling"}
      PROVE  cur'[v] \in Messages /\ Created(cur[v])' /\ cur'[v] \notin deleted'
  BY <1>1, <1>4, <1>6 DEF LockedRowsStand
<1>7. ASSUME NEW v \in Workers
      PROVE  /\ wpc'[v] = "calling" => status'[cur'[v]] = "SENT"
             /\ accepted'[v] => wpc'[v] = "calling"
  BY <1>2, <1>4, <1>7 DEF LockedRowsStand
<1> QED
  BY <1>5, <1>6, <1>7 DEF LockedRowsStand

LEMMA LockedRowsStandStep ==
    ASSUME TypeOK, LocksExclude, LockedRowsStand, [Next]_vars
    PROVE  LockedRowsStand'
<1> USE DEF TypeOK
<1>1. CASE UNCHANGED <<wpc, batch, cur, accepted, status, deleted>>
  BY <1>1 DEF LockedRowsStand, Created
<1>2. ASSUME NEW r \in Requests, RequestStep(r)
      PROVE  LockedRowsStand'
  <2>1. CASE RequestLocksChat(r) \/ LookupRecord(r) \/ RollBack(r)
    BY <1>1, <2>1 DEF RequestLocksChat, LookupRecord, RollBack, messageVars, workerVars
  <2>2. CASE InsertMessage(r)
    <3>1. PICK m \in Messages : ~Created(m) /\ status' = [status EXCEPT ![m] = "SENT"]
      BY <2>2 DEF InsertMessage, IsNext
    <3>2. \A n \in Messages : Created(n) => status'[n] = status[n]
      BY <3>1 DEF Created, MessageTypes
    <3>3. \A p \in Entries : p.msg \in Messages
      BY DEF Entries
    <3>4. UNCHANGED <<wpc, batch, cur, accepted, deleted>>
      BY <2>2 DEF InsertMessage, workerVars
    <3> QED
      BY <3>2, <3>3, <3>4 DEF LockedRowsStand, Created, WorkerTypes
  <2>3. CASE DeleteChat(r)
    <3>1. \A w \in Workers : wpc[w] \in {"message", "chat", "calling"}
             => cur[w] \notin deleted'
      BY <2>3 DEF DeleteChat, MessageFree, WorkerHasMessage, LockedRowsStand
    <3>2. UNCHANGED <<wpc, batch, cur, accepted, status>>
      BY <2>3 DEF DeleteChat, workerVars, messageVars
    <3> QED
      BY <3>1, <3>2 DEF LockedRowsStand, Created
  <2> QED
    BY <1>2, <2>1, <2>2, <2>3 DEF RequestStep
<1>3. ASSUME NEW w \in Workers, SelectBatch(w)
      PROVE  LockedRowsStand'
  <2>1. \A p \in batch'[w] : Created(p.msg)
    BY <1>3 DEF SelectBatch, Prefix, Due, Created, WorkerTypes
  <2> QED
    BY <1>3, <2>1 DEF SelectBatch, LockedRowsStand, Created, WorkerTypes, messageVars
<1>4. ASSUME NEW w \in Workers, LockMessage(w)
      PROVE  LockedRowsStand'
  <2>1. PICK p \in batch[w] : p.msg \notin deleted /\ cur' = [cur EXCEPT ![w] = p.msg]
    BY <1>4 DEF LockMessage
  <2>2. p.msg \in Messages /\ Created(p.msg)
    BY DEF WorkerTypes, Entries, LockedRowsStand
  <2> QED
    BY <1>4, <2>1, <2>2 DEF LockMessage, LockedRowsStand, Created, WorkerTypes, messageVars
<1>5. ASSUME NEW w \in Workers, WorkerLocksChat(w)
      PROVE  LockedRowsStand'
  BY <1>5 DEF WorkerLocksChat, LockedRowsStand, Created, WorkerTypes, messageVars
<1>6. ASSUME NEW w \in Workers, StartCall(w)
      PROVE  LockedRowsStand'
  BY <1>6 DEF StartCall, Eligible, LockedRowsStand, Created, WorkerTypes, messageVars
<1>7. ASSUME NEW w \in Workers, TelegramAccepts(w)
      PROVE  LockedRowsStand'
  BY <1>7 DEF TelegramAccepts, LockedRowsStand, Created, WorkerTypes, messageVars
<1>8. ASSUME NEW w \in Workers, Skip(w) \/ WorkerDies(w)
      PROVE  LockedRowsStand'
  BY <1>8, EndTransactionStands DEF Skip, WorkerDies, messageVars
<1>9. ASSUME NEW w \in Workers, NEW survives \in BOOLEAN,
             CallSucceeds(w, survives) \/ FailPermanently(w, survives)
                \/ CallUnavailable(w, survives)
      PROVE  LockedRowsStand'
  BY <1>9, EndTransactionStands DEF CallSucceeds, FailPermanently, CallUnavailable, GiveUp
<1>10. ASSUME NEW r \in Requests, NEW c \in Calls, Arrive(r, c)
      PROVE  LockedRowsStand'
  BY <1>1, <1>10 DEF Arrive, messageVars, workerVars
<1>11. CASE Tick \/ ToggleIntegration \/ UNCHANGED vars
  BY <1>1, <1>11 DEF Tick, ToggleIntegration, vars, messageVars, workerVars
<1> QED
  BY <1>2, <1>3, <1>4, <1>5, <1>6, <1>7, <1>8, <1>9, <1>10, <1>11
     DEF Next, WorkerStep

-----------------------------------------------------------------------------
(* Attempts and copies. *)

LEMMA AttemptsLeftStep ==
    ASSUME TypeOK, LockedRowsStand, AttemptsLeft, [Next]_vars
    PROVE  AttemptsLeft'
<1> USE DEF TypeOK
<1>1. CASE UNCHANGED <<status, attempts>>
  BY <1>1 DEF AttemptsLeft
<1>2. ASSUME NEW r \in Requests, InsertMessage(r)
      PROVE  AttemptsLeft'
  BY <1>2 DEF InsertMessage, IsNext, Created, AttemptsLeft, MessageTypes
<1>3. ASSUME NEW w \in Workers, NEW survives \in BOOLEAN, CallSucceeds(w, survives)
      PROVE  AttemptsLeft'
  BY <1>3 DEF CallSucceeds, CountAttempt, AttemptsLeft, LockedRowsStand, MessageTypes
<1>4. ASSUME NEW w \in Workers, NEW survives \in BOOLEAN, FailPermanently(w, survives)
      PROVE  AttemptsLeft'
  BY <1>4 DEF FailPermanently, CountAttempt, GiveUp, AttemptsLeft, LockedRowsStand,
              MessageTypes
<1>5. ASSUME NEW w \in Workers, NEW survives \in BOOLEAN, CallUnavailable(w, survives)
      PROVE  AttemptsLeft'
  <2>1. cur[w] \in Messages /\ attempts[cur[w]] \in Nat
    BY <1>5 DEF CallUnavailable, LockedRowsStand, MessageTypes
  <2>2. attempts' = [attempts EXCEPT ![cur[w]] = @ + 1]
    BY <1>5 DEF CallUnavailable, CountAttempt
  <2>3. CASE LastAttempt(cur[w])
    <3>1. status' = [status EXCEPT ![cur[w]] = "FAILED"]
      BY <1>5, <2>3 DEF CallUnavailable, GiveUp
    <3> QED
      BY <2>1, <2>2, <3>1 DEF AttemptsLeft, MessageTypes
  <2>4. CASE ~LastAttempt(cur[w])
    <3>1. UNCHANGED status
      BY <1>5, <2>4 DEF CallUnavailable
    <3>2. attempts[cur[w]] + 1 < MaxDeliveryAttempts
      BY <2>1, <2>4 DEF LastAttempt
    <3> QED
      BY <2>1, <2>2, <3>1, <3>2 DEF AttemptsLeft, MessageTypes
  <2> QED
    BY <2>3, <2>4
<1>6. ASSUME NEW r \in Requests, NEW c \in Calls,
             RequestLocksChat(r) \/ LookupRecord(r) \/ RollBack(r) \/ DeleteChat(r)
                \/ Arrive(r, c)
      PROVE  AttemptsLeft'
  BY <1>1, <1>6 DEF RequestLocksChat, LookupRecord, RollBack, DeleteChat, Arrive,
                    messageVars
<1>7. ASSUME NEW w \in Workers,
             SelectBatch(w) \/ LockMessage(w) \/ WorkerLocksChat(w) \/ Skip(w)
                \/ StartCall(w) \/ TelegramAccepts(w) \/ WorkerDies(w)
      PROVE  AttemptsLeft'
  BY <1>1, <1>7 DEF SelectBatch, LockMessage, WorkerLocksChat, Skip, StartCall,
                    TelegramAccepts, WorkerDies, messageVars
<1>8. CASE Tick \/ ToggleIntegration \/ UNCHANGED vars
  BY <1>1, <1>8 DEF Tick, ToggleIntegration, vars, messageVars
<1> QED
  BY <1>2, <1>3, <1>4, <1>5, <1>6, <1>7, <1>8, NoCallType
     DEF Next, RequestStep, WorkerStep

LEMMA OpenIsSent ==
    ASSUME LockedRowsStand, NEW m \in Open
    PROVE  status[m] = "SENT" /\ m \notin deleted
  BY DEF Open, LockedRowsStand

(* The end of a transaction closes the worker's own copy and no other. *)
LEMMA EndTransactionOpen ==
    ASSUME TypeOK, LocksExclude, LockedRowsStand, NEW w \in Workers, NEW m,
           NEW survives \in BOOLEAN, EndTransaction(w, m, survives)
    PROVE  Open' = IF accepted[w] THEN Open \ {cur[w]} ELSE Open
<1>1. WorkerTypes
  BY DEF TypeOK
<1>2. /\ \A v \in Workers \ {w} : cur'[v] = cur[v] /\ accepted'[v] = accepted[v]
      /\ accepted'[w] = FALSE
  BY <1>1, EndTransactionEffect
<1>3. ASSUME accepted[w], NEW v \in Workers \ {w}
      PROVE  ~accepted[v]
  BY <1>3 DEF LocksExclude, LockedRowsStand
<1> QED
  BY <1>2, <1>3 DEF Open

LEMMA CopiesAccountedStep ==
    ASSUME TypeOK, LocksExclude, LockedRowsStand, CopiesAccounted, [Next]_vars
    PROVE  CopiesAccounted'
<1> USE DEF TypeOK
<1>1. ASSUME UNCHANGED <<status, copies, lost>>, Open' = Open
      PROVE  CopiesAccounted'
  BY <1>1 DEF CopiesAccounted
<1>2. ASSUME NEW r \in Requests, RequestStep(r)
      PROVE  CopiesAccounted'
  <2>1. UNCHANGED <<copies, lost, cur, accepted>>
    BY <1>2 DEF RequestStep, RequestLocksChat, LookupRecord, InsertMessage, RollBack,
                DeleteChat, workerVars, outcomeVars
  <2>2. Open' = Open
    BY <2>1 DEF Open
  <2>3. CASE UNCHANGED status
    BY <1>1, <2>1, <2>2, <2>3
  <2>4. CASE InsertMessage(r)
    <3>1. PICK m \in Messages :
            status[m] = "NONE" /\ status' = [status EXCEPT ![m] = "SENT"]
      BY <2>4 DEF InsertMessage, IsNext, Created
    <3> QED
      BY <2>1, <2>2, <3>1 DEF CopiesAccounted, MessageTypes
  <2> QED
    BY <1>2, <2>3, <2>4 DEF RequestStep, RequestLocksChat, LookupRecord, RollBack,
                            DeleteChat, messageVars
<1>3. ASSUME NEW w \in Workers,
             SelectBatch(w) \/ LockMessage(w) \/ WorkerLocksChat(w) \/ StartCall(w)
      PROVE  CopiesAccounted'
  <2>1. /\ UNCHANGED <<status, copies, lost, accepted>>
        /\ ~accepted[w]
        /\ \A v \in Workers \ {w} : cur'[v] = cur[v]
    BY <1>3 DEF SelectBatch, LockMessage, WorkerLocksChat, StartCall, LockedRowsStand,
                WorkerTypes, messageVars, outcomeVars
  <2>2. Open' = Open
    BY <2>1 DEF Open
  <2> QED
    BY <1>1, <2>1, <2>2
<1>4. ASSUME NEW w \in Workers, Skip(w)
      PROVE  CopiesAccounted'
  <2>1. Open' = Open
    BY <1>4, EndTransactionOpen DEF Skip, LockedRowsStand
  <2> QED
    BY <1>1, <1>4, <2>1 DEF Skip, messageVars, outcomeVars
<1>5. ASSUME NEW w \in Workers, TelegramAccepts(w)
      PROVE  CopiesAccounted'
  <2>1. cur[w] \in Messages /\ status[cur[w]] = "SENT"
    BY <1>5 DEF TelegramAccepts, LockedRowsStand
  <2>2. cur[w] \notin Open
    BY <1>5 DEF TelegramAccepts, Open, LocksExclude, LockedRowsStand
  <2>3. Open' = Open \cup {cur[w]}
    BY <1>5, <2>1 DEF TelegramAccepts, Open, WorkerTypes
  <2>4. copies' = [copies EXCEPT ![cur[w]] = @ + 1] /\ UNCHANGED <<status, lost>>
    BY <1>5 DEF TelegramAccepts, messageVars
  <2>5. copies[cur[w]] \in Nat /\ lost[cur[w]] \in Nat
        /\ copies[cur[w]] = lost[cur[w]] + 0
    <3>1. copies[cur[w]] \in Nat /\ lost[cur[w]] \in Nat
      BY <2>1 DEF MessageTypes
    <3>2. copies[cur[w]] = lost[cur[w]] + 0
      BY <2>1, <2>2 DEF CopiesAccounted
    <3> QED
      BY <3>1, <3>2
  <2>6. copies'[cur[w]] = lost'[cur[w]] + 1
    BY <2>1, <2>4, <2>5 DEF MessageTypes
  <2>7. \A m \in Messages \ {cur[w]} :
            copies'[m] = copies[m] /\ (m \in Open' <=> m \in Open)
    BY <2>1, <2>3, <2>4 DEF MessageTypes
  <2> QED
    BY <2>1, <2>3, <2>4, <2>6, <2>7 DEF CopiesAccounted
<1>6. ASSUME NEW w \in Workers, NEW survives \in BOOLEAN, CallSucceeds(w, survives)
      PROVE  CopiesAccounted'
  <2>1. cur[w] \in Messages /\ cur[w] \in Open
    BY <1>6 DEF CallSucceeds, LockedRowsStand, Open
  <2>2. Open' = Open \ {cur[w]}
    BY <1>6, EndTransactionOpen DEF CallSucceeds
  <2>3. status' = [status EXCEPT ![cur[w]] = "DELIVERED"] /\ UNCHANGED <<copies, lost>>
    BY <1>6 DEF CallSucceeds, outcomeVars
  <2> QED
    BY <2>1, <2>2, <2>3 DEF CopiesAccounted, MessageTypes
<1>7. ASSUME NEW w \in Workers, NEW survives \in BOOLEAN, FailPermanently(w, survives)
      PROVE  CopiesAccounted'
  <2>1. ~accepted[w] /\ cur[w] \in Messages /\ status[cur[w]] = "SENT"
    BY <1>7 DEF FailPermanently, Eligible, LockedRowsStand
  <2>2. Open' = Open
    BY <1>7, <2>1, EndTransactionOpen DEF FailPermanently
  <2>3. status' = [status EXCEPT ![cur[w]] = "FAILED"] /\ UNCHANGED <<copies, lost>>
    BY <1>7 DEF FailPermanently, GiveUp
  <2> QED
    BY <2>1, <2>2, <2>3 DEF CopiesAccounted, MessageTypes
<1>8. ASSUME NEW w \in Workers, Unaccounted(w), UNCHANGED copies,
             Open' = IF accepted[w] THEN Open \ {cur[w]} ELSE Open,
             \A m \in Messages : status'[m] = "DELIVERED" <=> status[m] = "DELIVERED"
      PROVE  CopiesAccounted'
  <2>1. accepted[w] => cur[w] \in Open /\ status[cur[w]] # "DELIVERED"
    BY DEF LockedRowsStand, Open
  <2>2. CASE ~accepted[w]
    BY <1>8, <2>2 DEF Unaccounted, CopiesAccounted
  <2>3. CASE accepted[w]
    <3>1. cur[w] \in Messages
      BY <2>1, <2>3 DEF Open
    <3>2. copies[cur[w]] = lost[cur[w]] + 1
      BY <2>1, <2>3, <3>1 DEF CopiesAccounted
    <3>3. lost' = [lost EXCEPT ![cur[w]] = @ + 1]
      BY <1>8, <2>3 DEF Unaccounted
    <3>4. lost'[cur[w]] + 0 = copies[cur[w]]
      BY <3>1, <3>2, <3>3 DEF MessageTypes
    <3>5. \A m \in Messages \ {cur[w]} :
            lost'[m] = lost[m] /\ (m \in Open' <=> m \in Open)
      BY <1>8, <2>3, <3>3 DEF MessageTypes
    <3> QED
      BY <1>8, <2>1, <2>3, <3>4, <3>5 DEF CopiesAccounted
  <2> QED
    BY <2>2, <2>3
<1>9. ASSUME NEW w \in Workers, NEW survives \in BOOLEAN, CallUnavailable(w, survives)
      PROVE  CopiesAccounted'
  <2>1. cur[w] \in Messages /\ status[cur[w]] = "SENT"
    BY <1>9 DEF CallUnavailable, LockedRowsStand
  <2>2. Open' = IF accepted[w] THEN Open \ {cur[w]} ELSE Open
    BY <1>9, EndTransactionOpen DEF CallUnavailable
  <2>3. \A m \in Messages : status'[m] = "DELIVERED" <=> status[m] = "DELIVERED"
    BY <1>9, <2>1 DEF CallUnavailable, GiveUp, MessageTypes
  <2> QED
    BY <1>8, <1>9, <2>2, <2>3 DEF CallUnavailable
<1>10. ASSUME NEW w \in Workers, WorkerDies(w)
       PROVE  CopiesAccounted'
  <2>1. Open' = IF accepted[w] THEN Open \ {cur[w]} ELSE Open
    BY <1>10, EndTransactionOpen DEF WorkerDies
  <2> QED
    BY <1>8, <1>10, <2>1 DEF WorkerDies, messageVars
<1>11. ASSUME UNCHANGED <<status, copies, lost, cur, accepted>>
       PROVE  CopiesAccounted'
  BY <1>1, <1>11 DEF Open
<1>12. ASSUME NEW r \in Requests, NEW c \in Calls, Arrive(r, c)
       PROVE  CopiesAccounted'
  BY <1>11, <1>12 DEF Arrive, messageVars, workerVars, outcomeVars
<1>13. CASE Tick \/ ToggleIntegration \/ UNCHANGED vars
  BY <1>11, <1>13 DEF Tick, ToggleIntegration, vars, messageVars, workerVars, outcomeVars
<1> QED
  BY <1>2, <1>3, <1>4, <1>5, <1>6, <1>7, <1>9, <1>10, <1>12, <1>13
     DEF Next, WorkerStep

-----------------------------------------------------------------------------
(* Idempotency keys. *)

LEMMA WorkerKeepsCreated ==
    ASSUME TypeOK, LockedRowsStand, NEW w \in Workers, WorkerStep(w) \/ WorkerDies(w)
    PROVE  \A m \in Messages : Created(m)' <=> Created(m)
<1> USE DEF TypeOK
<1>1. CASE UNCHANGED status
  BY <1>1 DEF Created
<1>2. ASSUME NEW survives \in BOOLEAN, CallSucceeds(w, survives)
      PROVE  \A m \in Messages : Created(m)' <=> Created(m)
  BY <1>2 DEF CallSucceeds, LockedRowsStand, Created, MessageTypes
<1>3. ASSUME NEW survives \in BOOLEAN, FailPermanently(w, survives)
      PROVE  \A m \in Messages : Created(m)' <=> Created(m)
  BY <1>3 DEF FailPermanently, GiveUp, LockedRowsStand, Created, MessageTypes
<1>4. ASSUME NEW survives \in BOOLEAN, CallUnavailable(w, survives)
      PROVE  \A m \in Messages : Created(m)' <=> Created(m)
  BY <1>4 DEF CallUnavailable, GiveUp, LockedRowsStand, Created, MessageTypes
<1> QED
  BY <1>1, <1>2, <1>3, <1>4
     DEF WorkerStep, SelectBatch, LockMessage, WorkerLocksChat, Skip, StartCall,
         TelegramAccepts, WorkerDies, messageVars

LEMMA RecordsCoverStep ==
    ASSUME TypeOK, LockedRowsStand, RecordsCover, [Next]_vars
    PROVE  RecordsCover'
<1> USE DEF TypeOK
<1>1. ASSUME NEW r \in Requests, RequestStep(r)
      PROVE  RecordsCover'
  <2>1. CASE RequestLocksChat(r)
    <3>1. UNCHANGED <<status, origin, record>>
      BY <2>1 DEF RequestLocksChat, messageVars
    <3>2. /\ \A q \in Requests \ {r} : /\ rpc'[q] = rpc[q] /\ call'[q] = call[q]
                                       /\ issued'[q] = issued[q] /\ purge'[q] = purge[q]
          /\ rpc'[r] # "insert"
          /\ rpc'[r] = "lookup" => call'[r].op = "send"
      BY <2>1 DEF RequestLocksChat, Finish, RequestTypes
    <3> QED
      BY <3>1, <3>2 DEF RecordsCover, Created
  <2>2. CASE LookupRecord(r)
    <3>1. UNCHANGED <<status, origin, record>>
      BY <2>2 DEF LookupRecord, messageVars
    <3>2. /\ \A q \in Requests \ {r} : /\ rpc'[q] = rpc[q] /\ call'[q] = call[q]
                                       /\ issued'[q] = issued[q] /\ purge'[q] = purge[q]
          /\ rpc'[r] # "lookup"
          /\ rpc'[r] = "insert" =>
                /\ call[r].op = "send" /\ call'[r] = call[r] /\ issued'[r] = issued[r]
                /\ purge'[r] => /\ record[call[r].key].msg # NoMessage
                                /\ record[call[r].key].expires <= issued[r]
                                /\ MessageFree(record[call[r].key].msg)
      BY <2>2 DEF LookupRecord, Finish, RequestTypes, RecordsCover
    <3>3. ASSUME NEW q \in Requests \ {r}, rpc'[q] = "insert", purge'[q],
                 rpc'[r] = "insert", purge'[r], call'[q].key = call'[r].key
          PROVE  FALSE
      BY <3>2, <3>3 DEF MessageFree, RequestHasMessage
    <3> QED
      BY <3>1, <3>2, <3>3 DEF RecordsCover, Created
  <2>3. CASE InsertMessage(r)
    <3> DEFINE k == call[r].key
    <3>1. PICK m \in Messages :
            /\ IsNext(m)
            /\ status' = [status EXCEPT ![m] = "SENT"]
            /\ origin' = [origin EXCEPT ![m] = [chat |-> call[r].chat, key |-> k,
                                                at |-> issued[r]]]
            /\ record' = [record EXCEPT ![k] =
                            [msg |-> m, expires |-> issued[r] + IdempotencyTTL]]
      BY <2>3 DEF InsertMessage
    <3>2. k \in Keys /\ issued[r] \in Nat
      BY <2>3 DEF InsertMessage, RecordsCover, RequestTypes, Calls
    <3>3. /\ \A q \in Requests \ {r} : /\ rpc'[q] = rpc[q] /\ call'[q] = call[q]
                                       /\ issued'[q] = issued[q] /\ purge'[q] = purge[q]
          /\ rpc'[r] = "idle"
      BY <2>3 DEF InsertMessage, Finish, RequestTypes
    <3>4. \A n \in Messages : Created(n)' <=> Created(n) \/ n = m
      BY <3>1 DEF Created, MessageTypes
    <3>5. \A n, l \in Messages : Created(l)' /\ n < l => Created(n)'
      BY <3>1, <3>4 DEF IsNext, RecordsCover
    <3>6. \A n \in Messages : Created(n) =>
            /\ origin'[n] = origin[n] /\ origin[n].key \in Keys /\ origin[n].at \in Nat
      <4>1. \A n \in Messages : origin[n].key \in Keys /\ origin[n].at \in Nat
        BY DEF MessageTypes, Origins
      <4>2. \A n \in Messages : Created(n) => origin'[n] = origin[n]
        BY <3>1 DEF IsNext, MessageTypes
      <4> QED
        BY <4>1, <4>2
    <3>7. origin'[m].key = k /\ origin'[m].at = issued[r]
      BY <3>1 DEF MessageTypes
    <3>8. /\ record'[k].msg # NoMessage
          /\ record'[k].expires = issued[r] + IdempotencyTTL
      BY <3>1, <3>2 DEF MessageTypes
    <3>9. \A j \in Keys \ {k} : record'[j] = record[j]
      BY <3>1 DEF MessageTypes
    <3>10. ASSUME NEW n \in Messages, Created(n), origin[n].key = k
           PROVE  issued[r] >= origin[n].at + IdempotencyTTL
      <4>1. record[k].msg # NoMessage /\ record[k].expires >= origin[n].at + IdempotencyTTL
        BY <3>10 DEF RecordsCover
      <4>2. purge[r] /\ record[k].expires <= issued[r]
        BY <2>3, <4>1 DEF InsertMessage, KeyTaken, RecordsCover
      <4>3. record[k].expires \in Nat
        BY <3>2 DEF MessageTypes
      <4> QED
        BY <3>2, <3>6, <3>10, <4>1, <4>2, <4>3
    <3>11. ASSUME NEW n \in Messages, Created(n)'
           PROVE  /\ record'[origin'[n].key].msg # NoMessage
                  /\ record'[origin'[n].key].expires >= origin'[n].at + IdempotencyTTL
      <4>1. CASE n = m
        BY <3>2, <3>7, <3>8, <4>1
      <4>2. CASE n # m /\ origin[n].key = k
        <5>1. Created(n) /\ origin'[n] = origin[n] /\ origin[n].at \in Nat
          BY <3>4, <3>6, <3>11, <4>2
        <5> QED
          BY <3>2, <3>8, <3>10, <4>2, <5>1
      <4>3. CASE n # m /\ origin[n].key # k
        BY <3>4, <3>6, <3>9, <3>11, <4>3 DEF RecordsCover
      <4> QED
        BY <4>1, <4>2, <4>3
    <3>12. ASSUME NEW q \in Requests \ {r}, rpc[q] = "insert", purge[q]
           PROVE  call[q].key # k /\ call[q].key \in Keys
      <4>1. call[q].key \in Keys /\ record[call[q].key].msg # NoMessage
        BY <3>12 DEF RecordsCover, RequestTypes, Calls
      <4>2. call[q].key = k => purge[r]
        BY <2>3, <4>1 DEF InsertMessage, KeyTaken
      <4> QED
        BY <2>3, <3>12, <4>1, <4>2 DEF InsertMessage, RecordsCover
    <3>13. ASSUME NEW q \in Requests, rpc'[q] = "insert", purge'[q]
           PROVE  /\ call'[q].op = "send"
                  /\ record'[call'[q].key].msg # NoMessage
                  /\ record'[call'[q].key].expires <= issued'[q]
      BY <3>3, <3>9, <3>12, <3>13 DEF RecordsCover
    <3>14. /\ \A q \in Requests : rpc'[q] \in {"lookup", "insert"} => call'[q].op = "send"
           /\ \A p, q \in Requests :
                /\ rpc'[p] = "insert" /\ purge'[p] /\ rpc'[q] = "insert" /\ purge'[q]
                /\ call'[p].key = call'[q].key
                => p = q
      BY <3>3 DEF RecordsCover
    <3> QED
      BY <3>5, <3>11, <3>13, <3>14 DEF RecordsCover
  <2>4. CASE RollBack(r) \/ DeleteChat(r)
    <3>1. UNCHANGED <<status, origin, record>>
      BY <2>4 DEF RollBack, DeleteChat, messageVars
    <3>2. /\ \A q \in Requests \ {r} : /\ rpc'[q] = rpc[q] /\ call'[q] = call[q]
                                       /\ issued'[q] = issued[q] /\ purge'[q] = purge[q]
          /\ rpc'[r] = "idle"
      BY <2>4 DEF RollBack, DeleteChat, Finish, RequestTypes
    <3> QED
      BY <3>1, <3>2 DEF RecordsCover, Created
  <2> QED
    BY <1>1, <2>1, <2>2, <2>3, <2>4 DEF RequestStep
<1>2. ASSUME NEW r \in Requests, NEW c \in Calls, Arrive(r, c)
      PROVE  RecordsCover'
  <2>1. UNCHANGED <<status, origin, record>>
    BY <1>2 DEF Arrive, messageVars
  <2>2. /\ \A q \in Requests \ {r} : /\ rpc'[q] = rpc[q] /\ call'[q] = call[q]
                                     /\ issued'[q] = issued[q] /\ purge'[q] = purge[q]
        /\ rpc'[r] = "arrived"
    BY <1>2 DEF Arrive, RequestTypes
  <2> QED
    BY <2>1, <2>2 DEF RecordsCover, Created
<1>3. ASSUME UNCHANGED <<origin, record, requestVars>>,
             \A m \in Messages : Created(m)' <=> Created(m)
      PROVE  RecordsCover'
  BY <1>3 DEF RecordsCover, requestVars
<1>4. ASSUME NEW w \in Workers, WorkerStep(w) \/ WorkerDies(w)
      PROVE  RecordsCover'
  <2>1. UNCHANGED <<origin, record, requestVars>>
    BY <1>4 DEF WorkerStep, SelectBatch, LockMessage, WorkerLocksChat, Skip, StartCall,
                TelegramAccepts, CallSucceeds, FailPermanently, CallUnavailable, WorkerDies
  <2> QED
    BY <1>3, <1>4, <2>1, WorkerKeepsCreated
<1>5. CASE Tick \/ ToggleIntegration \/ UNCHANGED vars
  BY <1>3, <1>5 DEF Tick, ToggleIntegration, vars, messageVars, requestVars, Created
<1> QED
  BY <1>1, <1>2, <1>4, <1>5 DEF Next

LEMMA OneMessagePerLiveKeyStep ==
    ASSUME TypeOK, LockedRowsStand, RecordsCover, OneMessagePerLiveKey, [Next]_vars
    PROVE  OneMessagePerLiveKey'
<1> USE DEF TypeOK
<1>1. ASSUME UNCHANGED origin, \A m \in Messages : Created(m)' <=> Created(m)
      PROVE  OneMessagePerLiveKey'
  BY <1>1 DEF OneMessagePerLiveKey
<1>2. ASSUME NEW r \in Requests, InsertMessage(r)
      PROVE  OneMessagePerLiveKey'
  <2> DEFINE k == call[r].key
  <2>1. PICK m \in Messages :
          /\ IsNext(m)
          /\ status' = [status EXCEPT ![m] = "SENT"]
          /\ origin' = [origin EXCEPT ![m] = [chat |-> call[r].chat, key |-> k,
                                              at |-> issued[r]]]
    BY <1>2 DEF InsertMessage
  <2>2. k \in Keys /\ issued[r] \in Nat
    BY <1>2 DEF InsertMessage, RecordsCover, RequestTypes, Calls
  <2>3. \A n \in Messages \ {m} : Created(n)' => Created(n) /\ origin'[n] = origin[n]
    BY <2>1 DEF Created, MessageTypes
  <2>4. \A n \in Messages : Created(n) => ~(m < n)
    BY <2>1 DEF IsNext, RecordsCover
  <2>5. origin'[m].key = k /\ origin'[m].at = issued[r]
    BY <2>1 DEF MessageTypes
  <2>6. ASSUME NEW n \in Messages, Created(n), origin[n].key = k
        PROVE  issued[r] >= origin[n].at + IdempotencyTTL
    <3>1. record[k].msg # NoMessage /\ record[k].expires >= origin[n].at + IdempotencyTTL
      BY <2>6 DEF RecordsCover
    <3>2. purge[r] /\ record[k].expires <= issued[r]
      BY <1>2, <3>1 DEF InsertMessage, KeyTaken, RecordsCover
    <3>3. record[k].expires \in Nat
      BY <2>2 DEF MessageTypes
    <3>4. origin[n].at \in Nat
      BY DEF MessageTypes, Origins
    <3> QED
      BY <2>2, <3>1, <3>2, <3>3, <3>4
  <2>7. ASSUME NEW n \in Messages, NEW l \in Messages, Created(n)', Created(l)', n < l,
               origin'[n].key = origin'[l].key
        PROVE  origin'[l].at >= origin'[n].at + IdempotencyTTL
    <3>1. CASE l = m
      BY <2>3, <2>5, <2>6, <2>7, <3>1
    <3>2. CASE l # m
      <4>1. n # m
        BY <2>3, <2>4, <2>7, <3>2
      <4> QED
        BY <2>3, <2>7, <3>2, <4>1 DEF OneMessagePerLiveKey
    <3> QED
      BY <3>1, <3>2
  <2> QED
    BY <2>7 DEF OneMessagePerLiveKey
<1>3. ASSUME NEW r \in Requests, NEW c \in Calls,
             RequestLocksChat(r) \/ LookupRecord(r) \/ RollBack(r) \/ DeleteChat(r)
                \/ Arrive(r, c)
      PROVE  OneMessagePerLiveKey'
  BY <1>1, <1>3 DEF RequestLocksChat, LookupRecord, RollBack, DeleteChat, Arrive,
                    messageVars, Created
<1>4. ASSUME NEW w \in Workers, WorkerStep(w) \/ WorkerDies(w)
      PROVE  OneMessagePerLiveKey'
  <2>1. UNCHANGED origin
    BY <1>4 DEF WorkerStep, SelectBatch, LockMessage, WorkerLocksChat, Skip, StartCall,
                TelegramAccepts, CallSucceeds, FailPermanently, CallUnavailable, WorkerDies
  <2> QED
    BY <1>1, <1>4, <2>1, WorkerKeepsCreated
<1>5. CASE Tick \/ ToggleIntegration \/ UNCHANGED vars
  BY <1>1, <1>5 DEF Tick, ToggleIntegration, vars, messageVars, Created
<1> QED
  BY <1>2, <1>3, <1>4, <1>5, NoCallType DEF Next, RequestStep

-----------------------------------------------------------------------------
(* The theorems. *)

LEMMA InitInv == Init => Inv
<1> SUFFICES ASSUME Init
             PROVE  Inv
  OBVIOUS
<1>1. MessageTypes
  BY NoOriginType DEF Init, MessageTypes, NoRecord
<1>2. RequestTypes
  BY NoCallType DEF Init, RequestTypes
<1>3. WorkerTypes
  BY DEF Init, WorkerTypes
<1>4. WorldTypes
  BY DEF Init, WorldTypes
<1>5. LocksExclude /\ LockedRowsStand
  BY DEF Init, LocksExclude, LockedRowsStand, WorkerHasMessage
<1>6. AttemptsLeft
  BY DEF Init, AttemptsLeft
<1>7. RecordsCover /\ OneMessagePerLiveKey
  BY DEF Init, RecordsCover, OneMessagePerLiveKey, Created
<1>8. CopiesAccounted
  BY DEF Init, CopiesAccounted, Open
<1> QED
  BY <1>1, <1>2, <1>3, <1>4, <1>5, <1>6, <1>7, <1>8 DEF Inv, TypeOK

LEMMA StepInv == Inv /\ [Next]_vars => Inv'
  BY TypeStep, LocksExcludeStep, LockedRowsStandStep, AttemptsLeftStep,
     RecordsCoverStep, CopiesAccountedStep, OneMessagePerLiveKeyStep
     DEF Inv

(* The inductive invariant holds in every reachable state: at most one      *)
(* worker is inside the transaction of a message, and the message it has    *)
(* locked stands still (process_outgoing_message).                          *)
THEOREM Invariance == Spec => []Inv
  BY InitInv, StepInv, PTL DEF Spec

(* Every variable keeps its type, MAX_DELIVERY_ATTEMPTS included. *)
THEOREM TypeCorrectness == Spec => []TypeOK
<1>1. Inv => TypeOK
  BY DEF Inv
<1> QED
  BY <1>1, Invariance, PTL

(* A customer receives a second copy of a reply only for an answer of       *)
(* Telegram that was lost or a worker that died before its commit.          *)
THEOREM CopiesAreAccounted == Spec => []CopiesAccounted
<1>1. Inv => CopiesAccounted
  BY DEF Inv
<1> QED
  BY <1>1, Invariance, PTL

(* One Idempotency-Key creates at most one message per IDEMPOTENCY_TTL,     *)
(* whatever the number of racing requests (enqueue_outgoing_message).       *)
THEOREM KeysAreIdempotent == Spec => []OneMessagePerLiveKey
<1>1. Inv => OneMessagePerLiveKey
  BY DEF Inv
<1> QED
  BY <1>1, Invariance, PTL

(* After delete_chat has committed, no copy of the chat's messages is sent. *)
THEOREM NothingIsSentAfterDelete == Spec => NoSendAfterDelete
<1> DEFINE Still == \A m \in deleted : copies'[m] = copies[m]
<1>1. Inv /\ [Next]_vars => [Still]_vars
  <2> SUFFICES ASSUME Inv, Next
               PROVE  Still
    BY DEF Still
  <2> USE DEF Inv, TypeOK
  <2>1. ASSUME NEW w \in Workers, TelegramAccepts(w)
        PROVE  Still
    <3>1. cur[w] \in Messages /\ cur[w] \notin deleted
      BY <2>1 DEF TelegramAccepts, LockedRowsStand
    <3>2. copies \in [Messages -> Nat] /\ copies' = [copies EXCEPT ![cur[w]] = @ + 1]
      BY <2>1 DEF TelegramAccepts, MessageTypes
    <3>3. deleted \subseteq Messages
      BY DEF WorldTypes
    <3> QED
      BY <3>1, <3>2, <3>3
  <2>2. CASE UNCHANGED copies
    BY <2>2
  <2>3. ASSUME NEW r \in Requests, RequestStep(r)
        PROVE  UNCHANGED copies
    BY <2>3 DEF RequestStep, RequestLocksChat, LookupRecord, InsertMessage, RollBack,
                DeleteChat, outcomeVars
  <2>6. ASSUME NEW r \in Requests, NEW c \in Calls, Arrive(r, c)
        PROVE  UNCHANGED copies
    BY <2>6 DEF Arrive, outcomeVars
  <2>4. ASSUME NEW w \in Workers, WorkerStep(w) \/ WorkerDies(w), ~TelegramAccepts(w)
        PROVE  UNCHANGED copies
    BY <2>4 DEF WorkerStep, SelectBatch, LockMessage, WorkerLocksChat, Skip, StartCall,
                CallSucceeds, FailPermanently, CallUnavailable, WorkerDies, outcomeVars
  <2>5. CASE Tick \/ ToggleIntegration
    BY <2>5 DEF Tick, ToggleIntegration, outcomeVars
  <2> QED
    BY <2>1, <2>2, <2>3, <2>4, <2>5, <2>6 DEF Next
<1> QED
  BY <1>1, Invariance, PTL DEF Spec, NoSendAfterDelete

-----------------------------------------------------------------------------
(* Refinement: a step of the queue is a step of the contract or leaves its  *)
(* variables alone.                                                         *)

LEMMA RequestStepRefines ==
    ASSUME Inv, NEW r \in Requests, RequestStep(r)
    PROVE  [Contract!Next]_Contract!vars
<1> USE DEF Inv, TypeOK
<1>1. UNCHANGED <<copies, lost, alerted, cur, accepted>>
  BY DEF RequestStep, RequestLocksChat, LookupRecord, InsertMessage, RollBack,
         DeleteChat, workerVars, outcomeVars
<1>2. Open' = Open
  BY <1>1 DEF Open
<1>3. CASE RequestLocksChat(r) \/ LookupRecord(r) \/ RollBack(r)
  BY <1>1, <1>2, <1>3 DEF RequestLocksChat, LookupRecord, RollBack, messageVars,
                          Contract!vars
<1>4. CASE InsertMessage(r)
  <2>1. PICK m \in Messages :
          status[m] = "NONE" /\ status' = [status EXCEPT ![m] = "SENT"]
    BY <1>4 DEF InsertMessage, IsNext, Created
  <2>2. UNCHANGED deleted
    BY <1>4 DEF InsertMessage
  <2>3. Contract!Accept(m)
    BY <1>1, <1>2, <2>1, <2>2 DEF Contract!Accept
  <2> QED
    BY <2>3 DEF Contract!Next
<1>5. CASE DeleteChat(r)
  <2> DEFINE gone == {m \in Messages : Created(m) /\ ChatOf(m) = call[r].chat}
  <2>1. deleted' = deleted \cup gone /\ UNCHANGED status
    BY <1>5 DEF DeleteChat, messageVars
  <2>2. gone \cap Open = {}
    <3>1. ASSUME NEW m \in gone, m \in Open
          PROVE  FALSE
      <4>1. PICK w \in Workers : accepted[w] /\ cur[w] = m
        BY <3>1 DEF Open
      <4>2. wpc[w] = "calling" /\ m \notin deleted
        BY <4>1 DEF LockedRowsStand
      <4>3. MessageFree(m)
        BY <1>5, <4>2 DEF DeleteChat
      <4> QED
        BY <4>1, <4>2, <4>3 DEF MessageFree, WorkerHasMessage
    <3> QED
      BY <3>1
  <2>3. \A m \in gone : status[m] # "NONE"
    BY DEF Created
  <2>4. Contract!Delete(gone)
    BY <1>1, <1>2, <2>1, <2>2, <2>3 DEF Contract!Delete
  <2>5. gone \in SUBSET Messages
    OBVIOUS
  <2> QED
    BY <2>4, <2>5 DEF Contract!Next
<1> QED
  BY <1>3, <1>4, <1>5 DEF RequestStep

(* Giving up, or losing track of the open copy, or neither. *)
LEMMA EndRefines ==
    ASSUME Inv, NEW w \in Workers, NEW survives \in BOOLEAN,
           wpc[w] \in {"chat", "calling"}, status[cur[w]] = "SENT",
           EndTransaction(w, cur[w], survives), UNCHANGED <<deleted, copies>>,
           Unaccounted(w),
           GiveUp(cur[w]) \/ UNCHANGED <<status, alerted>>
    PROVE  [Contract!Next]_Contract!vars
<1> USE DEF Inv, TypeOK
<1>1. cur[w] \in Messages
  BY DEF LockedRowsStand
<1>2. Open' = IF accepted[w] THEN Open \ {cur[w]} ELSE Open
  BY EndTransactionOpen
<1>3. accepted[w] <=> cur[w] \in Open
  BY <1>1 DEF Open, LocksExclude, LockedRowsStand, WorkerHasMessage
<1>4. /\ lost' = IF cur[w] \in Open THEN [lost EXCEPT ![cur[w]] = @ + 1] ELSE lost
      /\ Open' = Open \ {cur[w]}
  BY <1>2, <1>3 DEF Unaccounted
<1>5. CASE GiveUp(cur[w])
  <2>1. Contract!Lose(cur[w], TRUE)
    BY <1>4, <1>5 DEF GiveUp, Contract!Lose
  <2> QED
    BY <1>1, <2>1 DEF Contract!Next
<1>6. CASE UNCHANGED <<status, alerted>> /\ accepted[w]
  <2>1. Contract!Lose(cur[w], FALSE)
    BY <1>3, <1>4, <1>6 DEF Contract!Lose
  <2> QED
    BY <1>1, <2>1 DEF Contract!Next
<1>7. CASE UNCHANGED <<status, alerted>> /\ ~accepted[w]
  BY <1>2, <1>7 DEF Unaccounted, Contract!vars
<1> QED
  BY <1>5, <1>6, <1>7

LEMMA WorkerStepRefines ==
    ASSUME Inv, NEW w \in Workers, WorkerStep(w) \/ WorkerDies(w)
    PROVE  [Contract!Next]_Contract!vars
<1> USE DEF Inv, TypeOK
<1>1. CASE SelectBatch(w) \/ LockMessage(w) \/ WorkerLocksChat(w) \/ StartCall(w)
  <2>1. /\ UNCHANGED <<status, deleted, copies, lost, alerted, accepted>>
        /\ ~accepted[w]
        /\ \A v \in Workers \ {w} : cur'[v] = cur[v]
    BY <1>1 DEF SelectBatch, LockMessage, WorkerLocksChat, StartCall, LockedRowsStand,
                WorkerTypes, messageVars, outcomeVars
  <2>2. Open' = Open
    BY <2>1 DEF Open
  <2> QED
    BY <2>1, <2>2 DEF Contract!vars
<1>2. CASE Skip(w)
  <2>1. Open' = Open
    BY <1>2, EndTransactionOpen DEF Skip, LockedRowsStand
  <2> QED
    BY <1>2, <2>1 DEF Skip, messageVars, outcomeVars, Contract!vars
<1>3. CASE TelegramAccepts(w)
  <2>1. cur[w] \in Messages /\ status[cur[w]] = "SENT" /\ cur[w] \notin deleted
    BY <1>3 DEF TelegramAccepts, LockedRowsStand
  <2>2. cur[w] \notin Open
    BY <1>3 DEF TelegramAccepts, Open, LocksExclude, LockedRowsStand
  <2>3. Open' = Open \cup {cur[w]}
    BY <1>3, <2>1 DEF TelegramAccepts, Open, WorkerTypes
  <2>4. Contract!Reach(cur[w])
    BY <1>3, <2>1, <2>2, <2>3 DEF TelegramAccepts, messageVars, Contract!Reach
  <2> QED
    BY <2>1, <2>4 DEF Contract!Next
<1>4. ASSUME NEW survives \in BOOLEAN, CallSucceeds(w, survives)
      PROVE  [Contract!Next]_Contract!vars
  <2>1. cur[w] \in Messages /\ cur[w] \in Open /\ status[cur[w]] = "SENT"
    BY <1>4 DEF CallSucceeds, LockedRowsStand, Open
  <2>2. Open' = Open \ {cur[w]}
    BY <1>4, EndTransactionOpen DEF CallSucceeds
  <2>3. Contract!Confirm(cur[w])
    BY <1>4, <2>1, <2>2 DEF CallSucceeds, outcomeVars, Contract!Confirm
  <2> QED
    BY <2>1, <2>3 DEF Contract!Next
<1>5. ASSUME NEW survives \in BOOLEAN, FailPermanently(w, survives)
      PROVE  [Contract!Next]_Contract!vars
  <2>1. status[cur[w]] = "SENT" /\ ~accepted[w] /\ wpc[w] \in {"chat", "calling"}
    BY <1>5 DEF FailPermanently, Eligible, LockedRowsStand
  <2> QED
    BY <1>5, <2>1, EndRefines DEF FailPermanently, Unaccounted
<1>6. ASSUME NEW survives \in BOOLEAN, CallUnavailable(w, survives)
      PROVE  [Contract!Next]_Contract!vars
  <2>1. status[cur[w]] = "SENT"
    BY <1>6 DEF CallUnavailable, LockedRowsStand
  <2>2. GiveUp(cur[w]) \/ UNCHANGED <<status, alerted>>
    BY <1>6 DEF CallUnavailable
  <2> QED
    BY <1>6, <2>1, <2>2, EndRefines DEF CallUnavailable
<1>7. CASE WorkerDies(w)
  <2>1. CASE wpc[w] = "calling"
    BY <1>7, <2>1, EndRefines DEF WorkerDies, LockedRowsStand, messageVars
  <2>2. CASE wpc[w] # "calling"
    <3>1. ~accepted[w]
      BY <2>2 DEF LockedRowsStand
    <3>2. Open' = Open
      BY <1>7, <3>1, EndTransactionOpen DEF WorkerDies
    <3> QED
      BY <1>7, <3>1, <3>2 DEF WorkerDies, Unaccounted, messageVars, Contract!vars
  <2> QED
    BY <2>1, <2>2
<1> QED
  BY <1>1, <1>2, <1>3, <1>4, <1>5, <1>6, <1>7 DEF WorkerStep

LEMMA InitRefines == Init => Contract!Init
  BY DEF Init, Open, Contract!Init

LEMMA StepRefines ==
    ASSUME Inv, [Next]_vars
    PROVE  [Contract!Next]_Contract!vars
<1>1. ASSUME UNCHANGED <<status, deleted, copies, lost, alerted, cur, accepted>>
      PROVE  [Contract!Next]_Contract!vars
  BY <1>1 DEF Open, Contract!vars
<1>2. ASSUME NEW r \in Requests, NEW c \in Calls, Arrive(r, c)
      PROVE  [Contract!Next]_Contract!vars
  BY <1>1, <1>2 DEF Arrive, messageVars, workerVars, outcomeVars
<1>3. CASE Tick \/ ToggleIntegration \/ UNCHANGED vars
  BY <1>1, <1>3 DEF Tick, ToggleIntegration, vars, messageVars, workerVars, outcomeVars
<1> QED
  BY <1>2, <1>3, RequestStepRefines, WorkerStepRefines DEF Next

(* The queue implements the contract: whatever workers, locks, retries and  *)
(* requests do, a message lives as MessageDelivery says.                    *)
THEOREM QueueKeepsContract == Spec => Implements
<1>1. Init => Contract!Init
  BY InitRefines
<1>2. Inv /\ [Next]_vars => [Contract!Next]_Contract!vars
  BY StepRefines
<1> QED
  BY <1>1, <1>2, Invariance, PTL DEF Spec, Implements, Contract!Spec

=============================================================================
