---------------------------- MODULE AutopilotProofs ----------------------------
(* Theorems about Autopilot: the locks of _claim_job and of                 *)
(* _send_autopilot_reply are enough, for any number of workers and messages. *)
EXTENDS Autopilot, TLAPS

USE BoundsAssumption, NamesAssumption DEF BoundsAssumption, NamesAssumption

WorkerStates == {"idle", "batch", "claimed", "asking", "answering", "storing",
                 "stored", "rejected"}
Verdicts == {"none", "skip", "unable", "unsure", "business", "technical"}

-----------------------------------------------------------------------------
(* Lemmas about the helpers of the actions. *)

LEMMA DueType == ASSUME NEW t \in Nat PROVE Due(t) \in 0 .. MaxTime
BY DEF Due

LEMMA TodayType == SettingTypes => Today \in Dates
BY DEF SettingTypes, Today

LEMMA TimeZeroType == DateAt[0] \in Dates
<1>1. 0 \in 0 .. MaxTime OBVIOUS
<1> QED BY <1>1

LEMMA RetriesType == Len(RetryDelays) \in Nat
OBVIOUS

LEMMA FaultType ==
    ASSUME SettingTypes, NEW f,
           Fault(f) \/ \E fine \in BOOLEAN : FaultUnless(fine, f)
    PROVE  faults' \in 0 .. MaxFaults
BY DEF SettingTypes, Fault, FaultUnless

LEMMA WriteEffect ==
    ASSUME SettingTypes, MessageTypes, NEW m \in Messages, NEW c \in Chats,
           NEW k \in Kinds \ {"none"}, Write(m, c, k)
    PROVE  /\ kind' \in [Messages -> Kinds]
           /\ chatOf' \in [Messages -> Chats]
           /\ at' \in [Messages -> 0 .. MaxTime]
           /\ \A n \in Messages : kind'[n] = "none" => kind[n] = "none" /\ n # m
           /\ kind[m] = "none"
BY DEF SettingTypes, MessageTypes, Write, IsNext, Created

(* Only the worker w of the step changes its state. *)
OthersKeep(w) ==
    \A v \in Workers \ {w} :
        wpc'[v] = wpc[v] /\ cur'[v] = cur[v] /\ used'[v] = used[v] /\ date'[v] = date[v]

LEMMA ReleaseEffect ==
    ASSUME WorkerTypes, NEW w \in Workers, NEW s \in {"idle", "batch"},
           NEW B \in SUBSET batch[w], NEW t \in 0 .. MaxTime,
           wpc' = [wpc EXCEPT ![w] = s],
           batch' = [batch EXCEPT ![w] = B],
           batchTime' = [batchTime EXCEPT ![w] = t],
           cur' = [cur EXCEPT ![w] = NoMessage],
           gathered' = [gathered EXCEPT ![w] = {}],
           used' = [used EXCEPT ![w] = 0],
           date' = [date EXCEPT ![w] = DateAt[0]],
           verdict' = [verdict EXCEPT ![w] = "none"]
    PROVE  WorkerTypes' /\ ~Working(w)' /\ OthersKeep(w)
<1>1. wpc' \in [Workers -> WorkerStates] BY DEF WorkerTypes, WorkerStates
<1>2. batch' \in [Workers -> SUBSET [due : Nat, msg : Messages]]
  <2>1. B \in SUBSET [due : Nat, msg : Messages] BY DEF WorkerTypes
  <2> QED BY <2>1 DEF WorkerTypes
<1>3. batchTime' \in [Workers -> 0 .. MaxTime] BY DEF WorkerTypes
<1>4. cur' \in [Workers -> Messages \cup {NoMessage}] BY DEF WorkerTypes
<1>5. gathered' \in [Workers -> SUBSET Messages] BY DEF WorkerTypes
<1>6. used' \in [Workers -> Nat] BY DEF WorkerTypes
<1>7. date' \in [Workers -> Dates] BY TimeZeroType DEF WorkerTypes
<1>8. verdict' \in [Workers -> Verdicts] BY DEF WorkerTypes, Verdicts
<1>9. ~Working(w)' BY DEF WorkerTypes, Working
<1>10. OthersKeep(w) BY DEF WorkerTypes, OthersKeep
<1> QED BY <1>1, <1>2, <1>3, <1>4, <1>5, <1>6, <1>7, <1>8, <1>9, <1>10
        DEF WorkerTypes, WorkerStates, Verdicts

LEMMA EndJobEffect ==
    ASSUME WorkerTypes, NEW w \in Workers, NEW m, EndJob(w, m)
    PROVE  WorkerTypes' /\ ~Working(w)' /\ OthersKeep(w)
<1> DEFINE rest == {p \in batch[w] : p.msg # m}
<1> DEFINE s == IF rest = {} THEN "idle" ELSE "batch"
<1> DEFINE t == IF rest = {} THEN 0 ELSE batchTime[w]
<1>1. rest \in SUBSET batch[w] /\ s \in {"idle", "batch"} OBVIOUS
<1>2. t \in 0 .. MaxTime BY DEF WorkerTypes
<1>3. wpc' = [wpc EXCEPT ![w] = s] /\ batch' = [batch EXCEPT ![w] = rest]
      /\ batchTime' = [batchTime EXCEPT ![w] = t]
  BY DEF EndJob, WorkerTypes
<1>4. /\ cur' = [cur EXCEPT ![w] = NoMessage]
      /\ gathered' = [gathered EXCEPT ![w] = {}]
      /\ used' = [used EXCEPT ![w] = 0]
      /\ date' = [date EXCEPT ![w] = DateAt[0]]
      /\ verdict' = [verdict EXCEPT ![w] = "none"]
  BY DEF EndJob
<1> HIDE DEF rest, s, t
<1> QED BY <1>1, <1>2, <1>3, <1>4, ReleaseEffect

LEMMA RejectEffect ==
    ASSUME WorkerTypes, NEW w \in Workers, NEW v \in Verdicts, Reject(w, v),
           UNCHANGED <<batch, batchTime, cur, gathered, used, date>>
    PROVE  WorkerTypes' /\ wpc'[w] = "rejected" /\ OthersKeep(w)
<1>1. wpc' \in [Workers -> WorkerStates] BY DEF WorkerTypes, Reject, WorkerStates
<1>2. verdict' \in [Workers -> Verdicts] BY DEF WorkerTypes, Reject, Verdicts
<1>3. wpc'[w] = "rejected" BY DEF WorkerTypes, Reject
<1>4. OthersKeep(w) BY DEF WorkerTypes, Reject, OthersKeep
<1> QED BY <1>1, <1>2, <1>3, <1>4 DEF WorkerTypes, WorkerStates, Verdicts

(* What holds of the job in the hands of a worker. *)
LEMMA InHand ==
    ASSUME Inv, NEW w \in Workers, Working(w)
    PROVE  /\ cur[w] \in Messages /\ status[cur[w]] = "processing"
           /\ attempts[cur[w]] \in Nat \ {0}
<1>1. cur[w] \in Messages /\ status[cur[w]] = "processing"
  BY DEF Inv, ClaimsExclude
<1>2. attempts[cur[w]] > 0 BY DEF Inv, JobsStand
<1>3. attempts[cur[w]] \in 0 .. Len(RetryDelays) + 1
  BY <1>1 DEF Inv, TypeOK, JobTypes
<1> QED BY <1>1, <1>2, <1>3

LEMMA SettleEffect ==
    ASSUME Inv, NEW w \in Workers, NEW s \in Statuses, Working(w), Settle(w, s)
    PROVE  /\ WorkerTypes' /\ ~Working(w)' /\ OthersKeep(w)
           /\ status' \in [Messages -> Statuses]
           /\ SettingTypes' /\ MessageTypes'
           /\ jobMode' \in [Messages -> {"always", "fallback"}]
           /\ attempts' \in [Messages -> 0 .. Len(RetryDelays) + 1]
           /\ replies' \in [Dates -> 0 .. DailyReplies]
           /\ charged' \in [Dates -> Nat]
<1> USE DEF Inv, TypeOK, Settle
<1>1. WorkerTypes' /\ ~Working(w)' /\ OthersKeep(w)
  BY EndJobEffect
<1>2. status' \in [Messages -> Statuses] BY DEF JobTypes
<1>3. SettingTypes' BY DEF SettingTypes, settingVars, deletionVars
<1>4. MessageTypes' BY DEF MessageTypes, messageVars, replyVars
<1>5. jobMode' \in [Messages -> {"always", "fallback"}] BY DEF JobTypes
<1>6. attempts' \in [Messages -> 0 .. Len(RetryDelays) + 1] BY DEF JobTypes
<1>7. replies' \in [Dates -> 0 .. DailyReplies] /\ charged' \in [Dates -> Nat]
  BY DEF UsageTypes, replyVars
<1> QED BY <1>1, <1>2, <1>3, <1>4, <1>5, <1>6, <1>7

-----------------------------------------------------------------------------
(* Types. *)

LEMMA InitTypes == Init => TypeOK
<1> SUFFICES ASSUME Init PROVE TypeOK
  OBVIOUS
<1>1. SettingTypes BY DEF Init, SettingTypes
<1>2. MessageTypes
  <2>1. (CHOOSE c \in Chats : TRUE) \in Chats OBVIOUS
  <2> QED BY <2>1 DEF Init, MessageTypes, Kinds
<1>3. JobTypes BY RetriesType DEF Init, JobTypes, Statuses
<1>4. UsageTypes BY DEF Init, UsageTypes
<1>5. WorkerTypes BY TimeZeroType DEF Init, WorkerTypes
<1> QED BY <1>1, <1>2, <1>3, <1>4, <1>5 DEF TypeOK

LEMMA OthersTypes == ASSUME TypeOK, OthersStep PROVE TypeOK'
<1> USE DEF TypeOK
<1>0. ASSUME UNCHANGED workerVars PROVE WorkerTypes'
  BY <1>0 DEF workerVars, WorkerTypes
<1>1. ASSUME NEW c \in Chats, NEW m \in Messages, ContactWrites(m, c) PROVE TypeOK'
  <2>1. WorkerTypes' BY <1>0, <1>1 DEF ContactWrites
  <2>2. SettingTypes'
    BY <1>1 DEF ContactWrites, SettingTypes, settingVars, deletionVars
  <2>3. MessageTypes'
    <3>1. Write(m, c, "contact") /\ UNCHANGED <<answers, unheard>>
      BY <1>1 DEF ContactWrites, replyVars
    <3>2. "contact" \in Kinds \ {"none"} BY DEF Kinds
    <3> QED BY <3>1, <3>2, WriteEffect DEF MessageTypes
  <2>4. status' \in [Messages -> Statuses]
    BY <1>1 DEF ContactWrites, JobTypes, Statuses
  <2>5. available' \in [Messages -> 0 .. MaxTime]
    <3> DEFINE wait == IF mode = "always" THEN BatchingWindow ELSE delay
    <3>1. now + wait \in Nat BY DEF SettingTypes
    <3>2. Due(now + wait) \in 0 .. MaxTime BY <3>1, DueType
    <3>3. \/ available' = [available EXCEPT ![m] = Due(now + wait)]
          \/ available' = available
      BY <1>1 DEF ContactWrites
    <3> HIDE DEF wait
    <3> QED BY <3>2, <3>3 DEF JobTypes
  <2>6. jobMode' \in [Messages -> {"always", "fallback"}]
    <3>1. mode \in {"always", "fallback"} BY DEF SettingTypes
    <3> QED BY <1>1, <3>1 DEF ContactWrites, JobTypes
  <2>7. JobTypes' BY <1>1, <2>4, <2>5, <2>6 DEF ContactWrites, outcomeVars, JobTypes
  <2>8. UsageTypes' BY <1>1 DEF ContactWrites, outcomeVars, replyVars, UsageTypes
  <2> QED BY <2>1, <2>2, <2>3, <2>7, <2>8
<1>2. ASSUME NEW c \in Chats, NEW m \in Messages, ManagerWrites(m, c) PROVE TypeOK'
  <2>1. WorkerTypes' BY <1>0, <1>2 DEF ManagerWrites
  <2>2. SettingTypes'
    BY <1>2 DEF ManagerWrites, SettingTypes, settingVars, deletionVars
  <2>3. MessageTypes'
    <3>1. Write(m, c, "manager") /\ UNCHANGED <<answers, unheard>>
      BY <1>2 DEF ManagerWrites, replyVars
    <3>2. "manager" \in Kinds \ {"none"} BY DEF Kinds
    <3> QED BY <3>1, <3>2, WriteEffect DEF MessageTypes
  <2>4. status' \in [Messages -> Statuses]
    BY <1>2 DEF ManagerWrites, JobTypes, Statuses
  <2>5. JobTypes' BY <1>2, <2>4 DEF ManagerWrites, outcomeVars, JobTypes
  <2>6. UsageTypes' BY <1>2 DEF ManagerWrites, outcomeVars, replyVars, UsageTypes
  <2> QED BY <2>1, <2>2, <2>3, <2>5, <2>6
<1>3. ASSUME NEW c \in Chats, DeleteChat(c) PROVE TypeOK'
  <2>1. WorkerTypes' BY <1>0, <1>3 DEF DeleteChat
  <2>2. SettingTypes' BY <1>3 DEF DeleteChat, SettingTypes, settingVars, Live
  <2>3. MessageTypes' BY <1>3 DEF DeleteChat, MessageTypes, messageVars, replyVars
  <2>4. JobTypes' BY <1>3 DEF DeleteChat, JobTypes, jobVars, outcomeVars
  <2>5. UsageTypes' BY <1>3 DEF DeleteChat, UsageTypes, outcomeVars, replyVars
  <2> QED BY <2>1, <2>2, <2>3, <2>4, <2>5
<1>4. ASSUME \/ \E c \in Chats : ToggleChat(c)
             \/ \E k \in Modes, d \in Delays : ChangeSettings(k, d)
             \/ ToggleIntegration
      PROVE  TypeOK'
  <2> USE DEF ToggleChat, ChangeSettings, ToggleIntegration, Change
  <2>1. WorkerTypes' BY <1>0, <1>4
  <2>2. SettingTypes'
    <3>1. changes' \in 0 .. MaxChanges BY <1>4 DEF SettingTypes
    <3>2. enabled' \subseteq Chats BY <1>4 DEF SettingTypes
    <3>3. mode' \in Modes /\ delay' \in Delays BY <1>4 DEF SettingTypes
    <3>4. connected' \in BOOLEAN BY <1>4 DEF SettingTypes
    <3> QED BY <1>4, <3>1, <3>2, <3>3, <3>4 DEF SettingTypes, deletionVars
  <2>3. MessageTypes' BY <1>4 DEF MessageTypes, messageVars, replyVars
  <2>4. JobTypes' BY <1>4 DEF JobTypes, jobVars, outcomeVars
  <2>5. UsageTypes' BY <1>4 DEF UsageTypes, outcomeVars, replyVars
  <2> QED BY <2>1, <2>2, <2>3, <2>4, <2>5
<1> QED BY <1>1, <1>2, <1>3, <1>4 DEF OthersStep

(* The rows that the steps of a worker with its job in hand leave alone.   *)
LEMMA RowsKeepTypes ==
    ASSUME TypeOK,
           UNCHANGED <<now, settingVars, messageVars, deletionVars, jobVars,
                       outcomeVars, replyVars, unheard>>
    PROVE  /\ MessageTypes' /\ JobTypes' /\ UsageTypes'
           /\ faults' \in 0 .. MaxFaults => SettingTypes'
<1> USE DEF TypeOK
<1>1. MessageTypes' BY DEF MessageTypes, messageVars, replyVars
<1>2. JobTypes' BY DEF JobTypes, jobVars, outcomeVars
<1>3. UsageTypes' BY DEF UsageTypes, outcomeVars, replyVars
<1>4. faults' \in 0 .. MaxFaults => SettingTypes'
  BY DEF SettingTypes, settingVars, deletionVars
<1> QED BY <1>1, <1>2, <1>3, <1>4

RowsKept ==
    /\ UNCHANGED <<now, settingVars, messageVars, deletionVars, jobVars,
                   outcomeVars, replyVars, unheard>>
    /\ faults' \in 0 .. MaxFaults

(* The steps in which a worker changes no row. *)
ReadingStep(w) ==
    \/ SelectJobs(w) \/ SkipJob(w) \/ Validate(w) \/ Generate(w)
    \/ LockChat(w) \/ RefuseReply(w) \/ ReplyFails(w) \/ WorkerDies(w)

LEMMA ReadingRows == ASSUME TypeOK, NEW w \in Workers, ReadingStep(w) PROVE RowsKept
<1> USE DEF TypeOK, RowsKept
<1>0. faults \in 0 .. MaxFaults BY DEF SettingTypes
<1>1. CASE SelectJobs(w) BY <1>0, <1>1 DEF SelectJobs
<1>2. CASE SkipJob(w) BY <1>0, <1>2 DEF SkipJob
<1>3. CASE Validate(w) BY <1>0, <1>3 DEF Validate
<1>4. CASE Generate(w) BY <1>0, <1>4 DEF Generate
<1>5. CASE LockChat(w) BY <1>0, <1>5 DEF LockChat
<1>6. CASE RefuseReply(w) BY <1>0, <1>6 DEF RefuseReply
<1>7. CASE ReplyFails(w) BY <1>0, <1>7 DEF ReplyFails
<1>8. CASE WorkerDies(w) BY <1>8, FaultType DEF WorkerDies
<1> QED BY <1>1, <1>2, <1>3, <1>4, <1>5, <1>6, <1>7, <1>8 DEF ReadingStep

(* Such a step changes the worker w alone, which keeps its job or gives it *)
(* up, and only LockChat begins to store.                                  *)
LEMMA ReadingWorker ==
    ASSUME Inv, NEW w \in Workers, ReadingStep(w)
    PROVE  /\ WorkerTypes' /\ OthersKeep(w)
           /\ Working(w)' => Working(w) /\ cur'[w] = cur[w]
                             /\ wpc[w] # "stored" /\ wpc'[w] # "stored"
           /\ wpc'[w] = "storing" => LockChat(w)
<1>0. TypeOK BY DEF Inv
<1> USE <1>0 DEF TypeOK
<1>1. CASE SelectJobs(w)
  <2>1. Prefix({[due |-> available[m], msg |-> m] : m \in Waiting(now)}, BatchLimit)
            \in SUBSET [due : Nat, msg : Messages]
    <3>1. \A m \in Waiting(now) : m \in Messages /\ available[m] \in Nat
      BY DEF Waiting, JobTypes
    <3>2. \A m \in Waiting(now) :
              [due |-> available[m], msg |-> m] \in [due : Nat, msg : Messages]
      BY <3>1
    <3> QED BY <3>2 DEF Prefix
  <2>2. batch' \in [Workers -> SUBSET [due : Nat, msg : Messages]]
    BY <1>1, <2>1 DEF SelectJobs, WorkerTypes
  <2>3. wpc' \in [Workers -> WorkerStates] /\ wpc'[w] = "batch"
    BY <1>1 DEF SelectJobs, WorkerTypes, WorkerStates
  <2>4. batchTime' \in [Workers -> 0 .. MaxTime]
    BY <1>1 DEF SelectJobs, WorkerTypes, SettingTypes
  <2>5. WorkerTypes'
    BY <1>1, <2>2, <2>3, <2>4 DEF SelectJobs, WorkerTypes, WorkerStates
  <2>6. OthersKeep(w) BY <1>1 DEF SelectJobs, WorkerTypes, OthersKeep
  <2> QED BY <2>3, <2>5, <2>6 DEF Working
<1>2. CASE SkipJob(w)
  <2>1. PICK p \in batch[w] : EndJob(w, p.msg) BY <1>2 DEF SkipJob
  <2> QED BY <2>1, EndJobEffect DEF Working
<1>3. CASE Validate(w)
  <2>1. Working(w) /\ wpc[w] = "claimed" BY <1>3 DEF Validate, Working
  <2>2. UNCHANGED <<batch, batchTime, cur, used, date>> BY <1>3 DEF Validate
  <2>3. CASE UNCHANGED gathered /\ \E v \in {"skip", "unable"} : Reject(w, v)
    <3>1. PICK v \in {"skip", "unable"} : Reject(w, v) BY <2>3
    <3>2. v \in Verdicts BY DEF Verdicts
    <3>3. WorkerTypes' /\ wpc'[w] = "rejected" /\ OthersKeep(w)
      BY <2>2, <2>3, <3>1, <3>2, RejectEffect
    <3> QED BY <2>1, <2>2, <3>3
  <2>4. CASE /\ wpc' = [wpc EXCEPT ![w] = "asking"]
             /\ gathered' = [gathered EXCEPT ![w] = Gather(cur[w], batchTime[w])]
             /\ UNCHANGED verdict
    <3>0. cur[w] \in Messages BY <2>1, InHand
    <3>1. Gather(cur[w], batchTime[w]) \subseteq Messages
      BY <3>0 DEF Gather, LiveOf, Live
    <3>2. gathered' \in [Workers -> SUBSET Messages] BY <2>4, <3>1 DEF WorkerTypes
    <3>3. wpc' \in [Workers -> WorkerStates] /\ wpc'[w] = "asking"
      BY <2>4 DEF WorkerTypes, WorkerStates
    <3>4. WorkerTypes' BY <2>2, <2>4, <3>2, <3>3 DEF WorkerTypes, WorkerStates
    <3>5. OthersKeep(w) BY <2>2, <2>4 DEF WorkerTypes, OthersKeep
    <3> QED BY <2>1, <2>2, <3>3, <3>4, <3>5
  <2> QED BY <1>3, <2>3, <2>4 DEF Validate
<1>4. CASE Generate(w)
  <2>1. Working(w) /\ wpc[w] = "asking" BY <1>4 DEF Generate, Working
  <2>2. UNCHANGED <<batch, batchTime, cur, gathered, used, date>>
    BY <1>4 DEF Generate
  <2>3. CASE \E v \in {"unable", "unsure", "business", "technical"} : Reject(w, v)
    <3>1. PICK v \in Verdicts : Reject(w, v) BY <2>3 DEF Verdicts
    <3>2. WorkerTypes' /\ wpc'[w] = "rejected" /\ OthersKeep(w)
      BY <2>2, <3>1, RejectEffect
    <3> QED BY <2>1, <2>2, <3>2
  <2>4. CASE wpc' = [wpc EXCEPT ![w] = "answering"] /\ UNCHANGED verdict
    <3>1. wpc' \in [Workers -> WorkerStates] /\ wpc'[w] = "answering"
      BY <2>4 DEF WorkerTypes, WorkerStates
    <3>2. WorkerTypes' BY <2>2, <2>4, <3>1 DEF WorkerTypes, WorkerStates
    <3>3. OthersKeep(w) BY <2>2, <2>4 DEF WorkerTypes, OthersKeep
    <3> QED BY <2>1, <2>2, <3>1, <3>2, <3>3
  <2> QED BY <1>4, <2>3, <2>4 DEF Generate
<1>5. CASE LockChat(w)
  <2>1. Working(w) /\ wpc[w] = "answering" /\ UNCHANGED cur
    BY <1>5 DEF LockChat, Working
  <2>2. wpc' \in [Workers -> WorkerStates] /\ wpc'[w] = "storing"
    BY <1>5 DEF LockChat, WorkerTypes, WorkerStates
  <2>3. used' \in [Workers -> Nat] /\ date' \in [Workers -> Dates]
    <3>1. Today \in Dates BY TodayType
    <3>2. replies[Today] \in Nat BY <3>1 DEF UsageTypes
    <3> QED BY <1>5, <3>1, <3>2 DEF LockChat, WorkerTypes
  <2>4. WorkerTypes' BY <1>5, <2>2, <2>3 DEF LockChat, WorkerTypes, WorkerStates
  <2>5. OthersKeep(w) BY <1>5 DEF LockChat, WorkerTypes, OthersKeep
  <2> QED BY <1>5, <2>1, <2>2, <2>4, <2>5
<1>6. CASE RefuseReply(w) \/ ReplyFails(w)
  <2>1. Working(w) /\ wpc[w] = "storing" /\ UNCHANGED cur
    BY <1>6 DEF RefuseReply, ReplyFails, Working
  <2>2. PICK v \in Verdicts : Reject(w, v)
    BY <1>6 DEF RefuseReply, ReplyFails, Verdicts
  <2>3. UNCHANGED <<batch, batchTime, cur, gathered, used, date>>
    BY <1>6 DEF RefuseReply, ReplyFails
  <2>4. WorkerTypes' /\ wpc'[w] = "rejected" /\ OthersKeep(w)
    BY <2>2, <2>3, RejectEffect
  <2> QED BY <2>1, <2>4
<1>7. CASE WorkerDies(w)
  <2>1. {} \in SUBSET batch[w] /\ 0 \in 0 .. MaxTime OBVIOUS
  <2>2. /\ wpc' = [wpc EXCEPT ![w] = "idle"] /\ batch' = [batch EXCEPT ![w] = {}]
        /\ batchTime' = [batchTime EXCEPT ![w] = 0]
        /\ cur' = [cur EXCEPT ![w] = NoMessage]
        /\ gathered' = [gathered EXCEPT ![w] = {}]
        /\ used' = [used EXCEPT ![w] = 0] /\ date' = [date EXCEPT ![w] = DateAt[0]]
        /\ verdict' = [verdict EXCEPT ![w] = "none"]
    BY <1>7 DEF WorkerDies
  <2>3. WorkerTypes' /\ ~Working(w)' /\ OthersKeep(w)
    BY <2>1, <2>2, ReleaseEffect
  <2> QED BY <2>3 DEF Working
<1> QED BY <1>1, <1>2, <1>3, <1>4, <1>5, <1>6, <1>7 DEF ReadingStep

LEMMA ClaimTypes ==
    ASSUME Inv, NEW w \in Workers, Claim(w)
    PROVE  /\ TypeOK'
           /\ OthersKeep(w) /\ wpc'[w] = "claimed" /\ ~Working(w)
           /\ cur'[w] \in Messages /\ status[cur'[w]] = "pending"
           /\ status' = [status EXCEPT ![cur'[w]] = "processing"]
           /\ attempts' = [attempts EXCEPT ![cur'[w]] = @ + 1]
<1> USE DEF Inv, TypeOK
<1>1. PICK p \in batch[w] :
          /\ Claimable(w, p.msg)
          /\ status' = [status EXCEPT ![p.msg] = "processing"]
          /\ attempts' = [attempts EXCEPT ![p.msg] = @ + 1]
          /\ cur' = [cur EXCEPT ![w] = p.msg]
  BY DEF Claim
<1>2. p.msg \in Messages
  <2>1. p \in [due : Nat, msg : Messages] BY DEF WorkerTypes
  <2> QED BY <2>1
<1>3. status[p.msg] = "pending" BY <1>1 DEF Claimable
<1>4. attempts[p.msg] + 1 \in 0 .. Len(RetryDelays) + 1
  <2>1. attempts[p.msg] \in 0 .. Len(RetryDelays) + 1 BY <1>2 DEF JobTypes
  <2>2. attempts[p.msg] <= Len(RetryDelays) BY <1>2, <1>3 DEF JobsStand
  <2> QED BY <2>1, <2>2, RetriesType
<1>5. attempts' \in [Messages -> 0 .. Len(RetryDelays) + 1]
  BY <1>1, <1>2, <1>4 DEF JobTypes
<1>6. status' \in [Messages -> Statuses] BY <1>1 DEF JobTypes, Statuses
<1>7. JobTypes' BY <1>5, <1>6 DEF Claim, outcomeVars, JobTypes
<1>8. SettingTypes' BY DEF Claim, SettingTypes, settingVars, deletionVars
<1>9. MessageTypes' BY DEF Claim, MessageTypes, messageVars, replyVars
<1>10. UsageTypes' BY DEF Claim, UsageTypes, outcomeVars, replyVars
<1>11. wpc' \in [Workers -> WorkerStates] /\ wpc'[w] = "claimed"
  BY DEF Claim, WorkerTypes, WorkerStates
<1>12. cur' \in [Workers -> Messages \cup {NoMessage}] /\ cur'[w] = p.msg
  BY <1>1, <1>2 DEF WorkerTypes
<1>13. WorkerTypes' BY <1>11, <1>12 DEF Claim, WorkerTypes, WorkerStates
<1>14. OthersKeep(w) BY <1>1 DEF Claim, WorkerTypes, OthersKeep
<1>15. ~Working(w) BY DEF Claim, Working
<1> QED BY <1>1, <1>2, <1>3, <1>7, <1>8, <1>9, <1>10, <1>11, <1>12, <1>13, <1>14,
           <1>15

LEMMA StoreTypes ==
    ASSUME Inv, NEW w \in Workers, NEW heard \in BOOLEAN, StoreReply(w, heard)
    PROVE  /\ TypeOK'
           /\ OthersKeep(w) /\ Working(w)
           /\ wpc'[w] = (IF heard THEN "stored" ELSE "rejected")
           /\ \A n \in Messages : kind'[n] = "none" => kind[n] = "none"
<1> USE DEF Inv, TypeOK
<1>1. wpc[w] = "storing" /\ Working(w) BY DEF StoreReply, Working
<1>2. cur[w] \in Messages BY <1>1, InHand
<1>3. PICK m \in Messages : Write(m, chatOf[cur[w]], "ai") BY DEF StoreReply
<1>4. chatOf[cur[w]] \in Chats /\ "ai" \in Kinds \ {"none"}
  BY <1>2 DEF MessageTypes, Kinds
<1>5. /\ kind' \in [Messages -> Kinds] /\ chatOf' \in [Messages -> Chats]
      /\ at' \in [Messages -> 0 .. MaxTime]
      /\ \A n \in Messages : kind'[n] = "none" => kind[n] = "none"
  BY <1>3, <1>4, WriteEffect
<1>6. answers' \in [Messages -> Nat]
  <2>1. answers' = [answers EXCEPT ![cur[w]] = @ + 1] BY DEF StoreReply
  <2>2. answers \in [Messages -> Nat] BY DEF MessageTypes
  <2>3. answers[cur[w]] + 1 \in Nat BY <1>2, <2>2
  <2> QED BY <2>1, <2>2, <2>3
<1>7. unheard' \in [Messages -> Nat]
  <2>1. unheard' = unheard \/ unheard' = [unheard EXCEPT ![cur[w]] = @ + 1]
    BY DEF StoreReply
  <2>2. unheard \in [Messages -> Nat] BY DEF MessageTypes
  <2>3. unheard[cur[w]] + 1 \in Nat BY <1>2, <2>2
  <2> QED BY <2>1, <2>2, <2>3
<1>8. MessageTypes' BY <1>5, <1>6, <1>7 DEF MessageTypes
<1>9. faults' \in 0 .. MaxFaults BY FaultType DEF StoreReply
<1>10. SettingTypes' BY <1>9 DEF StoreReply, SettingTypes, settingVars, deletionVars
<1>11. JobTypes' BY DEF StoreReply, JobTypes, jobVars, outcomeVars
<1>12. UsageTypes'
  <2>1. used[w] = replies[date[w]] /\ date[w] \in Dates
    BY <1>1 DEF UsageLocked, WorkerTypes
  <2>2. replies[date[w]] \in 0 .. DailyReplies BY <2>1 DEF UsageTypes
  <2>3. used[w] + 1 \in 0 .. DailyReplies
    BY <2>1, <2>2 DEF StoreReply, DayIsFull
  <2>4. replies' \in [Dates -> 0 .. DailyReplies]
    BY <2>1, <2>3 DEF StoreReply, UsageTypes
  <2>5. charged' \in [Dates -> Nat]
    <3>1. charged' = [charged EXCEPT ![date[w]] = @ + 1] BY DEF StoreReply
    <3>2. charged \in [Dates -> Nat] BY DEF UsageTypes
    <3>3. charged[date[w]] + 1 \in Nat BY <2>1, <3>2
    <3> QED BY <3>1, <3>2, <3>3
  <2> QED BY <2>4, <2>5 DEF StoreReply, UsageTypes, outcomeVars
<1>13. UNCHANGED <<batch, batchTime, cur, gathered, used, date>> BY DEF StoreReply
<1>14. WorkerTypes' /\ OthersKeep(w)
       /\ wpc'[w] = (IF heard THEN "stored" ELSE "rejected")
  <2>1. CASE heard
    <3>1. wpc' = [wpc EXCEPT ![w] = "stored"] /\ UNCHANGED verdict
      BY <2>1 DEF StoreReply
    <3>2. wpc' \in [Workers -> WorkerStates] /\ wpc'[w] = "stored"
      BY <3>1 DEF WorkerTypes, WorkerStates
    <3>3. OthersKeep(w) BY <3>1, <1>13 DEF WorkerTypes, OthersKeep
    <3> QED BY <2>1, <1>13, <3>1, <3>2, <3>3 DEF WorkerTypes, WorkerStates
  <2>2. CASE ~heard
    <3>1. Reject(w, "technical") BY <2>2 DEF StoreReply
    <3>2. "technical" \in Verdicts BY DEF Verdicts
    <3> QED BY <2>2, <1>13, <3>1, <3>2, RejectEffect
  <2> QED BY <2>1, <2>2
<1> QED BY <1>1, <1>5, <1>8, <1>10, <1>11, <1>12, <1>14

(* The four ways a job leaves the hands of its worker. *)
OutcomeStep(w) == MarkSent(w) \/ MarkSkipped(w) \/ MarkFailed(w) \/ Reschedule(w)

LEMMA OutcomeIsSettle ==
    ASSUME Inv, NEW w \in Workers, OutcomeStep(w)
    PROVE  /\ Working(w)
           /\ \E s \in {"sent", "skipped", "failed", "pending"} :
                /\ Settle(w, s)
                /\ s = "sent" <=> wpc[w] = "stored"
                /\ s = "pending" => attempts[cur[w]] <= Len(RetryDelays)
<1>1. CASE MarkSent(w) BY <1>1 DEF MarkSent, Working
<1>2. CASE MarkSkipped(w) BY <1>2 DEF MarkSkipped, Working
<1>3. CASE MarkFailed(w) BY <1>3 DEF MarkFailed, Working
<1>4. CASE Reschedule(w)
  <2>1. Working(w) /\ wpc[w] # "stored" /\ Settle(w, "pending")
    BY <1>4 DEF Reschedule, Working
  <2>2. attempts[cur[w]] \in Nat BY <2>1, InHand
  <2>3. attempts[cur[w]] <= Len(RetryDelays)
    BY <1>4, <2>2, RetriesType DEF Reschedule, LastAttempt
  <2> QED BY <2>1, <2>3
<1> QED BY <1>1, <1>2, <1>3, <1>4 DEF OutcomeStep

LEMMA OutcomeTypes == ASSUME Inv, NEW w \in Workers, OutcomeStep(w) PROVE TypeOK'
<1> USE DEF Inv, TypeOK
<1>1. PICK s \in {"sent", "skipped", "failed", "pending"} : Settle(w, s)
  BY OutcomeIsSettle
<1>2. Working(w) /\ s \in Statuses BY OutcomeIsSettle DEF Statuses
<1>3. /\ cur[w] \in Messages /\ attempts[cur[w]] \in Nat \ {0}
      /\ gathered[w] \subseteq Messages
  BY <1>2, InHand DEF WorkerTypes
<1>4. /\ WorkerTypes' /\ SettingTypes' /\ MessageTypes'
      /\ status' \in [Messages -> Statuses]
      /\ jobMode' \in [Messages -> {"always", "fallback"}]
      /\ attempts' \in [Messages -> 0 .. Len(RetryDelays) + 1]
      /\ replies' \in [Dates -> 0 .. DailyReplies]
      /\ charged' \in [Dates -> Nat]
  BY <1>1, <1>2, SettleEffect
<1>5. available' \in [Messages -> 0 .. MaxTime]
  <2>1. CASE Reschedule(w)
    <3> DEFINE t == batchTime[w] + RetryDelays[attempts[cur[w]]]
    <3>1. available' = [available EXCEPT ![cur[w]] = Due(t)]
          /\ attempts[cur[w]] <= Len(RetryDelays)
      BY <1>3, <2>1, RetriesType DEF Reschedule, LastAttempt
    <3>2. RetryDelays[attempts[cur[w]]] \in Nat
      BY <1>3, <3>1, RetriesType
    <3>3. t \in Nat BY <3>2 DEF WorkerTypes
    <3> HIDE DEF t
    <3>4. Due(t) \in 0 .. MaxTime BY <3>3, DueType
    <3> QED BY <3>1, <3>4 DEF JobTypes
  <2>2. CASE ~Reschedule(w)
    <3>1. available' = available
      BY <2>2 DEF OutcomeStep, MarkSent, MarkSkipped, MarkFailed
    <3> QED BY <3>1 DEF JobTypes
  <2> QED BY <2>1, <2>2
<1>6. batched' \in [Messages -> SUBSET Messages]
  <2>1. batched' = batched \/ batched' = [batched EXCEPT ![cur[w]] = gathered[w]]
    BY DEF OutcomeStep, MarkSent, MarkSkipped, MarkFailed, Reschedule
  <2> QED BY <1>3, <2>1 DEF JobTypes
<1>7. done' \subseteq Messages /\ escalated' \subseteq Messages
      /\ alerted' \subseteq Messages
  <2>1. CASE MarkSkipped(w) BY <1>3, <2>1 DEF MarkSkipped, JobTypes
  <2>2. CASE ~MarkSkipped(w)
    BY <1>3, <2>2
       DEF OutcomeStep, MarkSent, MarkFailed, Reschedule, outcomeVars, JobTypes
  <2> QED BY <2>1, <2>2
<1>8. tasks' \in [Dates -> 0 .. DailyTasks]
  <2>1. CASE MarkSkipped(w) /\ Escalates(w)
    <3>1. tasks' = [tasks EXCEPT ![Today] = @ + 1] /\ tasks[Today] < DailyTasks
      BY <2>1 DEF MarkSkipped, Escalates
    <3>2. Today \in Dates BY TodayType
    <3>3. tasks \in [Dates -> 0 .. DailyTasks] BY DEF UsageTypes
    <3>4. tasks[Today] \in 0 .. DailyTasks BY <3>2, <3>3
    <3>5. tasks[Today] + 1 \in 0 .. DailyTasks BY <3>1, <3>4
    <3> QED BY <3>1, <3>3, <3>5
  <2>2. CASE ~(MarkSkipped(w) /\ Escalates(w))
    <3>1. tasks' = tasks
      BY <2>2
         DEF OutcomeStep, MarkSent, MarkSkipped, MarkFailed, Reschedule, outcomeVars
    <3> QED BY <3>1 DEF UsageTypes
  <2> QED BY <2>1, <2>2
<1>9. JobTypes' BY <1>4, <1>5, <1>6, <1>7 DEF JobTypes
<1>10. UsageTypes' BY <1>4, <1>8 DEF UsageTypes
<1> QED BY <1>4, <1>9, <1>10

LEMMA TypesStep == Inv /\ [Next]_vars => TypeOK'
<1> SUFFICES ASSUME Inv, [Next]_vars PROVE TypeOK'
  OBVIOUS
<1>0. TypeOK BY DEF Inv
<1>1. CASE OthersStep BY <1>0, <1>1, OthersTypes
<1>2. ASSUME NEW w \in Workers, ReadingStep(w) PROVE TypeOK'
  <2>1. RowsKept BY <1>0, <1>2, ReadingRows
  <2>2. WorkerTypes' BY <1>2, ReadingWorker
  <2> QED BY <1>0, <2>1, <2>2, RowsKeepTypes DEF RowsKept, TypeOK
<1>3. ASSUME NEW w \in Workers, Claim(w) PROVE TypeOK'
  BY <1>3, ClaimTypes
<1>4. ASSUME NEW w \in Workers, NEW heard \in BOOLEAN, StoreReply(w, heard)
      PROVE  TypeOK'
  BY <1>4, StoreTypes
<1>5. ASSUME NEW w \in Workers, OutcomeStep(w) PROVE TypeOK'
  BY <1>5, OutcomeTypes
<1>6. CASE Tick \/ UNCHANGED vars
  <2> USE <1>0 DEF TypeOK, Tick, vars
  <2>1. SettingTypes'
    <3>1. now' \in 0 .. MaxTime BY <1>6 DEF SettingTypes
    <3>2. UNCHANGED <<settingVars, deletionVars, faults>> BY <1>6
    <3> QED BY <3>1, <3>2 DEF SettingTypes, settingVars, deletionVars
  <2>2. MessageTypes' BY <1>6 DEF MessageTypes, messageVars, replyVars
  <2>3. JobTypes' BY <1>6 DEF JobTypes, jobVars, outcomeVars
  <2>4. UsageTypes' BY <1>6 DEF UsageTypes, outcomeVars, replyVars
  <2>5. WorkerTypes' BY <1>6 DEF WorkerTypes, workerVars
  <2> QED BY <2>1, <2>2, <2>3, <2>4, <2>5
<1> QED BY <1>1, <1>2, <1>3, <1>4, <1>5, <1>6
        DEF Next, WorkerStep, ReadingStep, OutcomeStep

-----------------------------------------------------------------------------
(* The rest of the invariant. *)

LEMMA InitInv == Init => Inv
<1> SUFFICES ASSUME Init PROVE Inv
  OBVIOUS
<1>1. TypeOK BY InitTypes
<1>2. ClaimsExclude BY DEF Init, ClaimsExclude, Working
<1>3. UsageLocked BY DEF Init, UsageLocked
<1>4. JobsStand BY RetriesType DEF Init, JobsStand, Working
<1>5. AnswersAccounted BY DEF Init, AnswersAccounted, Working
<1> QED BY <1>1, <1>2, <1>3, <1>4, <1>5 DEF Inv

(* What customers, managers and administrators do to the jobs.             *)
JobsFromOutside ==
    /\ UNCHANGED <<workerVars, attempts, replyVars, unheard>>
    /\ \A m \in Messages :
        /\ kind'[m] = "none" => kind[m] = "none" /\ status'[m] = status[m]
        /\ \/ status'[m] = status[m]
           \/ status[m] = "none" /\ status'[m] = "pending"
           \/ status[m] = "pending" /\ status'[m] \in {"cancelled", "superseded"}

LEMMA OthersJobs == ASSUME Inv, OthersStep \/ Tick PROVE JobsFromOutside
<1> USE DEF Inv, TypeOK
<1>1. ASSUME NEW c \in Chats, NEW m \in Messages, ContactWrites(m, c)
      PROVE  JobsFromOutside
  <2>1. Write(m, c, "contact") /\ "contact" \in Kinds \ {"none"}
    BY <1>1 DEF ContactWrites, Kinds
  <2>2. /\ kind[m] = "none"
        /\ \A n \in Messages : kind'[n] = "none" => kind[n] = "none" /\ n # m
    BY <2>1, WriteEffect
  <2>3. /\ status[m] = "none"
        /\ \A n \in Messages : kind[n] = "none" => status[n] = "none"
    BY <2>2 DEF JobsStand
  <2>4. \A n \in Messages : n # m =>
            \/ status'[n] = status[n]
            \/ status[n] = "pending" /\ status'[n] = "superseded"
    BY <1>1 DEF ContactWrites, JobsOf, JobTypes
  <2>5. status'[m] = status[m] \/ status'[m] = "pending"
    BY <1>1 DEF ContactWrites, JobTypes
  <2>6. \A n \in Messages : n # m /\ status[n] = "none" => status'[n] = status[n]
    BY <2>4
  <2>7. UNCHANGED <<workerVars, attempts, replyVars, unheard>>
    BY <1>1 DEF ContactWrites
  <2> QED BY <2>2, <2>3, <2>4, <2>5, <2>6, <2>7 DEF JobsFromOutside
<1>2. ASSUME NEW c \in Chats, NEW m \in Messages, ManagerWrites(m, c)
      PROVE  JobsFromOutside
  <2>1. Write(m, c, "manager") /\ "manager" \in Kinds \ {"none"}
    BY <1>2 DEF ManagerWrites, Kinds
  <2>2. \A n \in Messages : kind'[n] = "none" => kind[n] = "none"
    BY <2>1, WriteEffect
  <2>3. \A n \in Messages : kind[n] = "none" => status[n] = "none"
    BY DEF JobsStand
  <2>4. \A n \in Messages :
            \/ status'[n] = status[n]
            \/ status[n] = "pending" /\ status'[n] = "cancelled"
    BY <1>2 DEF ManagerWrites, JobsOf, JobTypes
  <2>5. UNCHANGED <<workerVars, attempts, replyVars, unheard>>
    BY <1>2 DEF ManagerWrites
  <2> QED BY <2>2, <2>3, <2>4, <2>5 DEF JobsFromOutside
<1>3. ASSUME \/ \E c \in Chats : DeleteChat(c) \/ ToggleChat(c)
             \/ \E k \in Modes, d \in Delays : ChangeSettings(k, d)
             \/ ToggleIntegration \/ Tick
      PROVE  JobsFromOutside
  <2>1. UNCHANGED <<workerVars, messageVars, jobVars, replyVars, unheard>>
    BY <1>3 DEF DeleteChat, ToggleChat, ChangeSettings, ToggleIntegration, Tick
  <2> QED BY <2>1 DEF JobsFromOutside, messageVars, jobVars
<1> QED BY <1>1, <1>2, <1>3 DEF OthersStep

LEMMA OutsideKeepsInv == ASSUME Inv, TypeOK', JobsFromOutside PROVE Inv'
<1> USE DEF JobsFromOutside
<1>1. UNCHANGED <<wpc, cur, used, date, replies, answers, charged, unheard, attempts>>
  BY DEF workerVars, replyVars
<1>2. \A w \in Workers : Working(w)' <=> Working(w)
  BY <1>1 DEF Working
<1>3. ClaimsExclude'
  BY <1>1, <1>2 DEF Inv, ClaimsExclude
<1>4. UsageLocked' BY <1>1 DEF Inv, UsageLocked
<1>5. JobsStand' BY <1>1, <1>2 DEF Inv, JobsStand
<1>6. AnswersAccounted'
  <2>1. \A m \in Messages :
            status'[m] \in {"none", "pending", "cancelled", "superseded"}
                => status[m] \in {"none", "pending", "cancelled", "superseded"}
    OBVIOUS
  <2>2. \A m \in Messages : status'[m] = "sent" => status[m] = "sent"
    OBVIOUS
  <2> QED BY <1>1, <1>2, <2>1, <2>2 DEF Inv, AnswersAccounted
<1> QED BY <1>3, <1>4, <1>5, <1>6 DEF Inv

LEMMA ReadingKeepsInv ==
    ASSUME Inv, TypeOK', NEW w \in Workers, ReadingStep(w)
    PROVE  Inv'
<1>0. TypeOK BY DEF Inv
<1>1. UNCHANGED <<status, kind, attempts, replies, answers, charged, unheard>>
  BY <1>0, ReadingRows DEF RowsKept, jobVars, messageVars, replyVars
<1>2. /\ OthersKeep(w)
      /\ Working(w)' => Working(w) /\ cur'[w] = cur[w]
                        /\ wpc[w] # "stored" /\ wpc'[w] # "stored"
      /\ wpc'[w] = "storing" => LockChat(w)
  BY ReadingWorker
<1>3. \A v \in Workers : Working(v)' =>
          /\ Working(v) /\ cur'[v] = cur[v]
          /\ wpc'[v] = "stored" <=> wpc[v] = "stored"
  BY <1>2 DEF OthersKeep, Working
<1>4. ClaimsExclude' BY <1>1, <1>3 DEF Inv, ClaimsExclude
<1>5. UsageLocked'
  <2>1. CASE LockChat(w)
    <3>1. \A v \in Workers : wpc[v] # "storing"
      BY <2>1 DEF LockChat, WorkspaceFree
    <3>2. used'[w] = replies[date'[w]]
      BY <1>0, <2>1 DEF LockChat, TypeOK, WorkerTypes
    <3>3. \A v \in Workers : wpc'[v] = "storing" => v = w
      BY <1>2, <3>1 DEF OthersKeep
    <3> QED BY <1>1, <3>2, <3>3 DEF Inv, UsageLocked
  <2>2. CASE ~LockChat(w)
    <3>1. \A v \in Workers : wpc'[v] = "storing" =>
              wpc[v] = "storing" /\ used'[v] = used[v] /\ date'[v] = date[v]
      BY <1>2, <2>2 DEF OthersKeep
    <3> QED BY <1>1, <3>1 DEF Inv, UsageLocked
  <2> QED BY <2>1, <2>2
<1>6. JobsStand' BY <1>1, <1>3 DEF Inv, JobsStand
<1>7. AnswersAccounted' BY <1>1, <1>3 DEF Inv, AnswersAccounted
<1> QED BY <1>4, <1>5, <1>6, <1>7 DEF Inv

LEMMA ClaimKeepsInv ==
    ASSUME Inv, TypeOK', NEW w \in Workers, Claim(w)
    PROVE  Inv'
<1> DEFINE m == cur'[w]
<1>0. TypeOK BY DEF Inv
<1>1. /\ OthersKeep(w) /\ wpc'[w] = "claimed" /\ ~Working(w)
      /\ m \in Messages /\ status[m] = "pending"
      /\ status' = [status EXCEPT ![m] = "processing"]
      /\ attempts' = [attempts EXCEPT ![m] = @ + 1]
  BY ClaimTypes
<1>2. UNCHANGED <<kind, replies, answers, charged, unheard>>
  BY DEF Claim, messageVars, replyVars
<1> HIDE DEF m
<1>3. \A v \in Workers \ {w} : Working(v)' =>
          Working(v) /\ cur'[v] = cur[v] /\ cur[v] # m /\ wpc'[v] = wpc[v]
  BY <1>1 DEF OthersKeep, Working, Inv, ClaimsExclude
<1>4. status'[m] = "processing" /\ \A n \in Messages \ {m} : status'[n] = status[n]
  BY <1>0, <1>1 DEF TypeOK, JobTypes
<1>5. /\ attempts[m] \in Nat /\ attempts'[m] = attempts[m] + 1
      /\ \A n \in Messages \ {m} : attempts'[n] = attempts[n]
  <2>1. attempts[m] \in Nat BY <1>0, <1>1 DEF TypeOK, JobTypes
  <2>2. attempts \in [Messages -> 0 .. Len(RetryDelays) + 1]
    BY <1>0 DEF TypeOK, JobTypes
  <2> QED BY <1>1, <2>1, <2>2
<1>6. ClaimsExclude'
  <2>1. ASSUME NEW v \in Workers, Working(v)'
        PROVE  cur'[v] \in Messages /\ status'[cur'[v]] = "processing"
    <3>1. CASE v = w BY <1>1, <1>4, <3>1 DEF m
    <3>2. CASE v # w BY <1>3, <1>4, <2>1, <3>2 DEF Inv, ClaimsExclude
    <3> QED BY <3>1, <3>2
  <2>2. ASSUME NEW u \in Workers, NEW v \in Workers, Working(u)', Working(v)',
               cur'[u] = cur'[v]
        PROVE  u = v
    <3>1. CASE u # w /\ v # w BY <1>3, <2>2, <3>1 DEF Inv, ClaimsExclude
    <3>2. CASE u = w \/ v = w BY <1>3, <2>2, <3>2 DEF m
    <3> QED BY <3>1, <3>2
  <2> QED BY <2>1, <2>2 DEF ClaimsExclude
<1>7. UsageLocked'
  <2>1. \A v \in Workers : wpc'[v] = "storing" =>
            wpc[v] = "storing" /\ used'[v] = used[v] /\ date'[v] = date[v]
    BY <1>1 DEF OthersKeep
  <2> QED BY <1>2, <2>1 DEF Inv, UsageLocked
<1>8. JobsStand'
  <2>1. \A n \in Messages : kind[n] = "none" => status'[n] = "none"
    BY <1>1, <1>4 DEF Inv, JobsStand
  <2>2. \A n \in Messages : status'[n] \in {"none", "pending"} =>
            attempts'[n] <= Len(RetryDelays)
    BY <1>4, <1>5 DEF Inv, JobsStand
  <2>3. \A v \in Workers : Working(v)' => attempts'[cur'[v]] > 0
    <3>1. attempts'[m] > 0 BY <1>5
    <3>2. ASSUME NEW v \in Workers \ {w}, Working(v)' PROVE attempts'[cur'[v]] > 0
      <4>1. Working(v) /\ cur'[v] = cur[v] /\ cur[v] # m BY <1>3, <3>2
      <4>2. cur[v] \in Messages BY <4>1, InHand
      <4>3. attempts[cur[v]] > 0 BY <4>1 DEF Inv, JobsStand
      <4> QED BY <1>5, <4>1, <4>2, <4>3
    <3> QED BY <3>1, <3>2 DEF m
  <2> QED BY <1>2, <2>1, <2>2, <2>3 DEF JobsStand
<1>9. AnswersAccounted'
  <2>1. answers[m] = unheard[m] BY <1>1 DEF Inv, AnswersAccounted
  <2>2. ASSUME NEW n \in Messages
        PROVE  /\ answers'[n] <= unheard'[n] + 1
               /\ status'[n] \in {"none", "pending", "cancelled", "superseded"}
                     => answers'[n] = unheard'[n]
               /\ status'[n] = "sent" => answers'[n] = unheard'[n] + 1
    BY <1>2, <1>4 DEF Inv, AnswersAccounted
  <2>3. ASSUME NEW n \in Messages, NEW v \in Workers,
               Working(v)', cur'[v] = n
        PROVE  answers'[n] = IF wpc'[v] = "stored" THEN unheard'[n] + 1
                                                   ELSE unheard'[n]
    <3>1. CASE v = w BY <1>1, <1>2, <2>1, <2>3, <3>1 DEF m
    <3>2. CASE v # w
      <4>1. Working(v) /\ cur[v] = n /\ wpc'[v] = wpc[v] BY <1>3, <2>3, <3>2
      <4> QED BY <1>2, <4>1 DEF Inv, AnswersAccounted
    <3> QED BY <3>1, <3>2
  <2> QED BY <2>2, <2>3 DEF AnswersAccounted
<1> QED BY <1>6, <1>7, <1>8, <1>9 DEF Inv

LEMMA StoreKeepsInv ==
    ASSUME Inv, TypeOK', NEW w \in Workers, NEW heard \in BOOLEAN,
           StoreReply(w, heard)
    PROVE  Inv'
<1> DEFINE trigger == cur[w]
<1>0. TypeOK BY DEF Inv
<1>1. /\ OthersKeep(w) /\ Working(w)
      /\ wpc'[w] = (IF heard THEN "stored" ELSE "rejected")
      /\ \A n \in Messages : kind'[n] = "none" => kind[n] = "none"
  BY StoreTypes
<1>2. /\ wpc[w] = "storing"
      /\ UNCHANGED <<status, attempts, cur, used, date>>
      /\ answers' = [answers EXCEPT ![trigger] = @ + 1]
      /\ replies' = [replies EXCEPT ![date[w]] = used[w] + 1]
      /\ charged' = [charged EXCEPT ![date[w]] = @ + 1]
      /\ unheard' = IF heard THEN unheard ELSE [unheard EXCEPT ![trigger] = @ + 1]
  BY DEF StoreReply, jobVars
<1>3. trigger \in Messages /\ status[trigger] = "processing"
  BY <1>1, InHand
<1> HIDE DEF trigger
<1>4. Working(w)' /\ \A v \in Workers \ {w} : Working(v)' =>
                       Working(v) /\ cur[v] # trigger /\ wpc'[v] = wpc[v]
  BY <1>1 DEF OthersKeep, Working, Inv, ClaimsExclude, trigger
<1>5. /\ answers[trigger] \in Nat /\ unheard[trigger] \in Nat
      /\ answers'[trigger] = answers[trigger] + 1
      /\ unheard'[trigger] = IF heard THEN unheard[trigger] ELSE unheard[trigger] + 1
      /\ \A n \in Messages \ {trigger} :
            answers'[n] = answers[n] /\ unheard'[n] = unheard[n]
  <2>1. answers \in [Messages -> Nat] /\ unheard \in [Messages -> Nat]
    BY <1>0 DEF TypeOK, MessageTypes
  <2>2. answers[trigger] \in Nat /\ unheard[trigger] \in Nat BY <1>3, <2>1
  <2> QED BY <1>2, <1>3, <2>1, <2>2
<1>6. ClaimsExclude' BY <1>1, <1>2, <1>4 DEF Inv, ClaimsExclude
<1>7. UsageLocked'
  <2>1. \A v \in Workers : wpc'[v] # "storing"
    BY <1>1, <1>2 DEF OthersKeep, Inv, UsageLocked
  <2>2. charged' = replies'
    BY <1>2 DEF Inv, UsageLocked
  <2> QED BY <2>1, <2>2 DEF UsageLocked
<1>8. JobsStand'
  <2>1. \A v \in Workers : Working(v)' => Working(v) BY <1>1, <1>4
  <2> QED BY <1>1, <1>2, <2>1 DEF Inv, JobsStand
<1>9. AnswersAccounted'
  <2>1. answers[trigger] = unheard[trigger]
    BY <1>1, <1>2, <1>3 DEF Inv, AnswersAccounted, trigger
  <2>2. /\ answers'[trigger] <= unheard'[trigger] + 1
        /\ answers'[trigger] = IF heard THEN unheard'[trigger] + 1
                                        ELSE unheard'[trigger]
    BY <1>5, <2>1
  <2>3. ASSUME NEW n \in Messages
        PROVE  /\ answers'[n] <= unheard'[n] + 1
               /\ status'[n] \in {"none", "pending", "cancelled", "superseded"}
                     => answers'[n] = unheard'[n]
               /\ status'[n] = "sent" => answers'[n] = unheard'[n] + 1
    <3>1. CASE n = trigger BY <1>2, <1>3, <2>2, <3>1
    <3>2. CASE n # trigger BY <1>2, <1>5, <3>2 DEF Inv, AnswersAccounted
    <3> QED BY <3>1, <3>2
  <2>4. ASSUME NEW n \in Messages, NEW v \in Workers,
               Working(v)', cur'[v] = n
        PROVE  answers'[n] = IF wpc'[v] = "stored" THEN unheard'[n] + 1
                                                   ELSE unheard'[n]
    <3>1. CASE v = w BY <1>1, <1>2, <2>2, <2>4, <3>1 DEF trigger
    <3>2. CASE v # w
      <4>1. Working(v) /\ n # trigger /\ wpc'[v] = wpc[v] /\ cur[v] = n
        BY <1>2, <1>4, <2>4, <3>2
      <4>2. answers[n] = IF wpc[v] = "stored" THEN unheard[n] + 1 ELSE unheard[n]
        BY <4>1 DEF Inv, AnswersAccounted
      <4> QED BY <1>5, <4>1, <4>2
    <3> QED BY <3>1, <3>2
  <2> QED BY <2>3, <2>4 DEF AnswersAccounted
<1> QED BY <1>6, <1>7, <1>8, <1>9 DEF Inv

LEMMA OutcomeKeepsInv ==
    ASSUME Inv, TypeOK', NEW w \in Workers, OutcomeStep(w)
    PROVE  Inv'
<1> DEFINE m == cur[w]
<1>0. TypeOK BY DEF Inv
<1>1. Working(w) BY OutcomeIsSettle
<1>2. PICK s \in {"sent", "skipped", "failed", "pending"} :
          /\ Settle(w, s)
          /\ s = "sent" <=> wpc[w] = "stored"
          /\ s = "pending" => attempts[m] <= Len(RetryDelays)
  BY OutcomeIsSettle
<1>3. m \in Messages /\ status[m] = "processing" BY <1>1, InHand
<1>4. ~Working(w)' /\ OthersKeep(w)
  <2>1. s \in Statuses BY DEF Statuses
  <2> QED BY <1>1, <1>2, <2>1, SettleEffect
<1>5. /\ UNCHANGED <<kind, attempts, replies, answers, charged, unheard>>
      /\ status' = [status EXCEPT ![m] = s]
  BY <1>2 DEF Settle, messageVars, replyVars
<1> HIDE DEF m
<1>6. status'[m] = s /\ \A n \in Messages \ {m} : status'[n] = status[n]
  BY <1>0, <1>3, <1>5 DEF TypeOK, JobTypes
<1>7. \A v \in Workers : Working(v)' =>
          Working(v) /\ cur'[v] = cur[v] /\ cur[v] # m /\ wpc'[v] = wpc[v]
  BY <1>1, <1>4 DEF OthersKeep, Working, Inv, ClaimsExclude, m
<1>8. ClaimsExclude'
  <2>1. \A v \in Workers : Working(v)' =>
            cur'[v] \in Messages /\ status'[cur'[v]] = "processing"
    BY <1>6, <1>7, InHand
  <2>2. \A u, v \in Workers :
            Working(u)' /\ Working(v)' /\ cur'[u] = cur'[v] => u = v
    BY <1>7 DEF Inv, ClaimsExclude
  <2> QED BY <2>1, <2>2 DEF ClaimsExclude
<1>9. UsageLocked'
  <2>1. \A v \in Workers : wpc'[v] = "storing" =>
            wpc[v] = "storing" /\ used'[v] = used[v] /\ date'[v] = date[v]
    BY <1>4 DEF OthersKeep, Working
  <2> QED BY <1>5, <2>1 DEF Inv, UsageLocked
<1>10. JobsStand'
  <2>1. kind[m] # "none" BY <1>3 DEF Inv, JobsStand
  <2>2. s = "pending" => attempts[m] <= Len(RetryDelays) BY <1>2
  <2> QED BY <1>5, <1>6, <1>7, <2>1, <2>2 DEF Inv, JobsStand
<1>11. AnswersAccounted'
  <2>1. /\ s # "sent" => answers[m] = unheard[m]
        /\ answers[m] <= unheard[m] + 1
    BY <1>1, <1>2, <1>3 DEF Inv, AnswersAccounted, m
  <2>2. s = "sent" => answers[m] = unheard[m] + 1
    BY <1>1, <1>2, <1>3 DEF Inv, AnswersAccounted, m
  <2>3. ASSUME NEW n \in Messages
        PROVE  /\ answers'[n] <= unheard'[n] + 1
               /\ status'[n] \in {"none", "pending", "cancelled", "superseded"}
                     => answers'[n] = unheard'[n]
               /\ status'[n] = "sent" => answers'[n] = unheard'[n] + 1
    <3>1. CASE n = m BY <1>5, <1>6, <2>1, <2>2, <3>1
    <3>2. CASE n # m BY <1>5, <1>6, <3>2 DEF Inv, AnswersAccounted
    <3> QED BY <3>1, <3>2
  <2>4. ASSUME NEW n \in Messages, NEW v \in Workers, Working(v)', cur'[v] = n
        PROVE  answers'[n] = IF wpc'[v] = "stored" THEN unheard'[n] + 1
                                                   ELSE unheard'[n]
    <3>1. Working(v) /\ cur[v] = n /\ wpc'[v] = wpc[v] BY <1>7, <2>4
    <3> QED BY <1>5, <3>1 DEF Inv, AnswersAccounted
  <2> QED BY <2>3, <2>4 DEF AnswersAccounted
<1> QED BY <1>8, <1>9, <1>10, <1>11 DEF Inv

LEMMA InvStep == Inv /\ [Next]_vars => Inv'
<1> SUFFICES ASSUME Inv, [Next]_vars PROVE Inv'
  OBVIOUS
<1>1. TypeOK' BY TypesStep
<1>2. CASE OthersStep \/ Tick BY <1>1, <1>2, OthersJobs, OutsideKeepsInv
<1>3. ASSUME NEW w \in Workers, ReadingStep(w) PROVE Inv'
  BY <1>1, <1>3, ReadingKeepsInv
<1>4. ASSUME NEW w \in Workers, Claim(w) PROVE Inv'
  BY <1>1, <1>4, ClaimKeepsInv
<1>5. ASSUME NEW w \in Workers, NEW heard \in BOOLEAN, StoreReply(w, heard)
      PROVE  Inv'
  BY <1>1, <1>5, StoreKeepsInv
<1>6. ASSUME NEW w \in Workers, OutcomeStep(w) PROVE Inv'
  BY <1>1, <1>6, OutcomeKeepsInv
<1>7. CASE UNCHANGED vars
  <2>1. JobsFromOutside
    BY <1>7 DEF vars, JobsFromOutside, messageVars, jobVars
  <2> QED BY <1>1, <2>1, OutsideKeepsInv
<1> QED BY <1>2, <1>3, <1>4, <1>5, <1>6, <1>7
        DEF Next, WorkerStep, ReadingStep, OutcomeStep

-----------------------------------------------------------------------------
(* The claim of _claim_job gives a job to one worker, the transaction of    *)
(* _send_autopilot_reply counts every reply, and a trigger is answered      *)
(* again only after the broadcast of its reply failed.                      *)
THEOREM Invariance == Spec => []Inv
BY InitInv, InvStep, PTL DEF Spec

(* Every value stays within its type, the attempts of a job, the replies    *)
(* and the tasks of a day within their limits (_mark_technical_retry,       *)
(* _send_autopilot_reply, _maybe_create_escalation_task).                   *)
THEOREM TypeCorrectness == Spec => []TypeOK
<1>1. Inv => TypeOK BY DEF Inv
<1> QED BY <1>1, Invariance, PTL

(* No day sees more replies than daily_autopilot_replies, whatever the      *)
(* number of workers that answer at once (_send_autopilot_reply).           *)
THEOREM DailyLimitKept == Spec => []DailyLimit
<1>1. Inv => DailyLimit
  BY DEF Inv, TypeOK, UsageTypes, UsageLocked, DailyLimit
<1> QED BY <1>1, Invariance, PTL

(* A job that a manager's reply or a newer message cancelled is never       *)
(* answered any more (_claim_job).                                          *)
THEOREM CancelledSilent == Spec => CancelledStaysSilent
<1> DEFINE Silent ==
      \A m \in Messages : status[m] \in {"cancelled", "superseded"} =>
          status'[m] = status[m] /\ answers'[m] = answers[m]
<1>1. Inv /\ [Next]_vars => [Silent]_vars
  <2> SUFFICES ASSUME Inv, Next PROVE Silent
    OBVIOUS
  <2>0. TypeOK BY DEF Inv
  <2>1. CASE OthersStep \/ Tick
    BY <2>1, OthersJobs DEF JobsFromOutside, replyVars
  <2>2. ASSUME NEW w \in Workers, ReadingStep(w) PROVE Silent
    BY <2>0, <2>2, ReadingRows DEF RowsKept, jobVars, replyVars
  <2>3. ASSUME NEW w \in Workers, Claim(w) PROVE Silent
    <3>1. UNCHANGED answers BY <2>3 DEF Claim, replyVars
    <3>2. /\ cur'[w] \in Messages /\ status[cur'[w]] = "pending"
          /\ status' = [status EXCEPT ![cur'[w]] = "processing"]
      BY <2>3, ClaimTypes
    <3>3. \A m \in Messages \ {cur'[w]} : status'[m] = status[m]
      BY <2>0, <3>2 DEF TypeOK, JobTypes
    <3> QED BY <3>1, <3>2, <3>3
  <2>4. ASSUME NEW w \in Workers, NEW heard \in BOOLEAN, StoreReply(w, heard)
        PROVE  Silent
    <3>1. cur[w] \in Messages /\ status[cur[w]] = "processing"
      BY <2>4, StoreTypes, InHand
    <3>2. UNCHANGED status /\ answers' = [answers EXCEPT ![cur[w]] = @ + 1]
      BY <2>4 DEF StoreReply, jobVars
    <3> QED BY <2>0, <3>1, <3>2 DEF TypeOK, MessageTypes
  <2>5. ASSUME NEW w \in Workers, OutcomeStep(w) PROVE Silent
    <3>1. cur[w] \in Messages /\ status[cur[w]] = "processing"
      BY <2>5, OutcomeIsSettle, InHand
    <3>2. PICK s \in {"sent", "skipped", "failed", "pending"} : Settle(w, s)
      BY <2>5, OutcomeIsSettle
    <3>3. UNCHANGED answers /\ status' = [status EXCEPT ![cur[w]] = s]
      BY <3>2 DEF Settle, replyVars
    <3> QED BY <2>0, <3>1, <3>3 DEF TypeOK, JobTypes
  <2> QED BY <2>1, <2>2, <2>3, <2>4, <2>5
          DEF Next, WorkerStep, ReadingStep, OutcomeStep
<1>2. CancelledStaysSilent <=> [][Silent]_vars BY DEF CancelledStaysSilent
<1> QED BY <1>1, <1>2, Invariance, PTL DEF Spec

=============================================================================
