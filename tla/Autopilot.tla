------------------------------- MODULE Autopilot -------------------------------
(***************************************************************************)
(* The autopilot (ai_assistant/autopilot.py) that answers customers of one *)
(* workspace: jobs scheduled by the messages of customers, cancelled by    *)
(* the replies of managers, and the workers that process them.             *)
(*                                                                         *)
(* A worker claims a job in one transaction, validates it and asks the AI  *)
(* outside any transaction, stores the reply in a second one and the       *)
(* outcome in a third.  In between managers write, chats are deleted,      *)
(* settings change and other workers answer.                               *)
(*                                                                         *)
(* A job is named by the customer's message that triggered it (the         *)
(* relation is one-to-one), and messages are numbered in the order of      *)
(* created_at.  The transaction that stores a reply locks the chat, its    *)
(* contact and the workspace, so there is one at a time in the workspace;  *)
(* the worker between LockChat and StoreReply holds the rows.  The hook    *)
(* behind its commit broadcasts the message, and when it raises, the       *)
(* exception counts as a technical failure of the job.                     *)
(***************************************************************************)
EXTENDS Naturals, Sequences, FiniteSets

CONSTANTS
    Workers,                \* process_ai_autopilot_jobs processes
    Chats,
    MaxMessages,            \* bound: messages ever created
    Modes,                  \* the modes administrators switch between
    Delays,                 \* the values of autopilot_delay they choose
    BatchingWindow,
    RetryDelays,            \* RETRY_DELAYS
    DailyReplies,           \* the limits of ai_assistant/limits.py
    DailyTasks,
    HourlyReplies,
    ConsecutiveReplies,
    EscalationMessages,     \* ESCALATION_CUSTOMER_MESSAGES
    Hour,                   \* its length in ticks
    Dates, DateAt,          \* the workspace's date at each tick of the clock
    BatchLimit,             \* --limit of the worker command
    MaxTime,                \* bound: the clock
    Faults,                 \* what may go wrong: "crash", "broadcast"
    MaxFaults,              \* bound: how often
    MaxChanges,             \* bound: changes of settings and connections
    NoMessage               \* no job (NoMessage \notin 1..MaxMessages)

Messages == 1 .. MaxMessages
Kinds == {"none", "contact", "manager", "ai"}
Statuses == {"none", "pending", "processing", "sent", "skipped", "failed",
             "cancelled", "superseded"}

ASSUME BoundsAssumption ==
    /\ MaxMessages \in Nat /\ MaxTime \in Nat /\ MaxFaults \in Nat /\ MaxChanges \in Nat
    /\ Modes \subseteq {"always", "fallback"} /\ Modes # {}
    /\ Delays \subseteq Nat /\ Delays # {}
    /\ RetryDelays \in Seq(Nat)
    /\ BatchingWindow \in Nat
    /\ {DailyReplies, DailyTasks, HourlyReplies, ConsecutiveReplies} \subseteq Nat
    /\ EscalationMessages \in Nat /\ Hour \in Nat
    /\ BatchLimit \in Nat \ {0}
    /\ DateAt \in [0 .. MaxTime -> Dates]

ASSUME NamesAssumption == NoMessage \notin Messages /\ Chats # {}

VARIABLES
    now,                    \* timezone.now()
    mode, delay,            \* AISettings
    enabled,                \* the chats with the autopilot on
    connected,              \* the Telegram integration
    changes,                \* number of changes of these so far
    chatDeleted,            \* Chat.is_deleted
    kind, chatOf, at,       \* Message: sender, chat, created_at
    deleted,                \* Message.is_deleted
    status,                 \* AIAutopilotJob.status; CANCELLED with the error
                            \* superseded_by_batch is "superseded" here
    jobMode, available, attempts, batched,
    done,                   \* AIProcessedEvent of the trigger
    replies, tasks,         \* AIUsageDaily by date
    escalated, alerted,     \* triggers with a task, with a notice to managers
    wpc, batch, batchTime, cur, gathered, used, date, verdict,      \* workers
    answers,                \* history: replies stored for each trigger
    charged,                \* history: replies stored on each date
    unheard,                \* history: replies whose broadcast raised
    faults

settingVars == <<mode, delay, enabled, connected, changes>>
messageVars == <<kind, chatOf, at>>
deletionVars == <<chatDeleted, deleted>>
jobVars == <<status, jobMode, available, attempts, batched>>
outcomeVars == <<done, tasks, escalated, alerted>>
replyVars == <<replies, answers, charged>>
workerVars == <<wpc, batch, batchTime, cur, gathered, used, date, verdict>>
vars == <<now, settingVars, messageVars, deletionVars, jobVars, outcomeVars,
          replyVars, workerVars, unheard, faults>>

Init ==
    /\ now = 0
    /\ mode \in Modes /\ delay \in Delays
    /\ enabled = Chats
    /\ connected = TRUE
    /\ changes = 0
    /\ chatDeleted = {}
    /\ kind = [m \in Messages |-> "none"]
    /\ chatOf = [m \in Messages |-> CHOOSE c \in Chats : TRUE]
    /\ at = [m \in Messages |-> 0]
    /\ deleted = {}
    /\ status = [m \in Messages |-> "none"]
    /\ jobMode = [m \in Messages |-> "fallback"]
    /\ available = [m \in Messages |-> 0]
    /\ attempts = [m \in Messages |-> 0]
    /\ batched = [m \in Messages |-> {}]
    /\ done = {}
    /\ replies = [d \in Dates |-> 0]
    /\ tasks = [d \in Dates |-> 0]
    /\ escalated = {} /\ alerted = {}
    /\ wpc = [w \in Workers |-> "idle"]
    /\ batch = [w \in Workers |-> {}]
    /\ batchTime = [w \in Workers |-> 0]
    /\ cur = [w \in Workers |-> NoMessage]
    /\ gathered = [w \in Workers |-> {}]
    /\ used = [w \in Workers |-> 0]
    /\ date = [w \in Workers |-> DateAt[0]]
    /\ verdict = [w \in Workers |-> "none"]
    /\ answers = [m \in Messages |-> 0]
    /\ charged = [d \in Dates |-> 0]
    /\ unheard = [m \in Messages |-> 0]
    /\ faults = 0

-----------------------------------------------------------------------------
(* What the queries see. *)

Created(m) == kind[m] # "none"
Live(c) == {m \in Messages : Created(m) /\ chatOf[m] = c /\ m \notin deleted}
LiveOf(c, k) == {m \in Live(c) : kind[m] = k}
After(S, m) == {n \in S : n > m}

(* The end of a chat that no message of kind k interrupts. *)
Since(c, k, S) == {m \in S : \A n \in LiveOf(c, k) : n < m}

ManagerReplied(m) == After(LiveOf(chatOf[m], "manager"), m) # {}
NewerJob(m) ==
    \E n \in Messages : /\ n > m /\ chatOf[n] = chatOf[m]
                        /\ status[n] \in {"pending", "processing"}

(* _consecutive_autopilot_replies, _hourly_replies_for_chat and            *)
(* _consecutive_customer_messages.                                         *)
AnswersInRow(c) == Cardinality(Since(c, "manager", LiveOf(c, "ai")))
AnswersInHour(c, t) == Cardinality({m \in LiveOf(c, "ai") : at[m] + Hour >= t})
QuestionsInRow(c) ==
    Cardinality({m \in LiveOf(c, "contact") :
                    After(Live(c) \ LiveOf(c, "contact"), m) = {}})

Today == DateAt[now]

(* Mutant: the daily usage is read without locking anything.               *)
WorkspaceFree_NotLocked == TRUE

(* Whoever inserts a message or an audit record refers to the workspace,   *)
(* and waits for the worker that has locked it.                            *)
WorkspaceFree == \A w \in Workers : wpc[w] # "storing"

Fault(f) == f \in Faults /\ faults < MaxFaults /\ faults' = faults + 1
FaultUnless(fine, f) == IF fine THEN UNCHANGED faults ELSE Fault(f)

(* The model's clock stops at MaxTime: what is due later is due then. *)
Due(t) == IF t < MaxTime THEN t ELSE MaxTime

-----------------------------------------------------------------------------
(* Customers, managers and administrators. *)

IsNext(m) == ~Created(m) /\ \A n \in Messages : n < m => Created(n)

Write(m, c, k) ==
    /\ IsNext(m)
    /\ kind' = [kind EXCEPT ![m] = k]
    /\ chatOf' = [chatOf EXCEPT ![m] = c]
    /\ at' = [at EXCEPT ![m] = now]

JobsOf(c, k) ==
    {m \in Messages : status[m] = "pending" /\ chatOf[m] = c /\ jobMode[m] = k}

(* A message of the customer, with the job its signal schedules in the     *)
(* same transaction: at once for a batch, later when managers go first.    *)
ContactWrites(m, c) ==
    /\ c \notin chatDeleted /\ WorkspaceFree
    /\ Write(m, c, "contact")
    /\ IF c \in enabled
       THEN /\ status' = [n \in Messages |->
                  IF n = m THEN "pending"
                  ELSE IF mode = "always" /\ n \in JobsOf(c, "always")
                       THEN "superseded" ELSE status[n]]
            /\ jobMode' = [jobMode EXCEPT ![m] = mode]
            /\ available' = [available EXCEPT ![m] =
                  Due(now + (IF mode = "always" THEN BatchingWindow ELSE delay))]
       ELSE UNCHANGED <<status, jobMode, available>>
    /\ UNCHANGED <<now, settingVars, deletionVars, attempts, batched, outcomeVars,
                   replyVars, workerVars, unheard, faults>>

(* enqueue_outgoing_message stores a reply of a manager; the signal cancels *)
(* the jobs that were waiting for one.                                      *)
ManagerWrites(m, c) ==
    /\ c \notin chatDeleted /\ WorkspaceFree
    /\ connected
    /\ Write(m, c, "manager")
    /\ status' = [n \in Messages |->
           IF n \in JobsOf(c, "fallback") THEN "cancelled" ELSE status[n]]
    /\ UNCHANGED <<now, settingVars, deletionVars, jobMode, available, attempts,
                   batched, outcomeVars, replyVars, workerVars, unheard, faults>>

DeleteChat(c) ==
    /\ c \notin chatDeleted
    /\ WorkspaceFree
    /\ chatDeleted' = chatDeleted \cup {c}
    /\ deleted' = deleted \cup Live(c)
    /\ UNCHANGED <<now, settingVars, messageVars, jobVars, outcomeVars,
                   replyVars, workerVars, unheard, faults>>

Change == changes < MaxChanges /\ changes' = changes + 1

(* update_ai_settings and update_chat_autopilot touch no job. *)
ChangeSettings(k, d) ==
    /\ WorkspaceFree
    /\ <<k, d>> # <<mode, delay>>
    /\ mode' = k /\ delay' = d
    /\ Change
    /\ UNCHANGED <<now, enabled, connected, messageVars, deletionVars, jobVars,
                   outcomeVars, replyVars, workerVars, unheard, faults>>

ToggleChat(c) ==
    /\ c \notin chatDeleted
    /\ WorkspaceFree
    /\ Change
    /\ enabled' = IF c \in enabled THEN enabled \ {c} ELSE enabled \cup {c}
    /\ UNCHANGED <<now, mode, delay, connected, messageVars, deletionVars,
                   jobVars, outcomeVars, replyVars, workerVars, unheard, faults>>

ToggleIntegration ==
    /\ WorkspaceFree
    /\ connected' = ~connected
    /\ Change
    /\ UNCHANGED <<now, mode, delay, enabled, messageVars, deletionVars, jobVars,
                   outcomeVars, replyVars, workerVars, unheard, faults>>

-----------------------------------------------------------------------------
(* Workers. *)

(* Mutant: the query that forgets the jobs to be retried.                  *)
Waiting_FirstAttemptOnly(t) ==
    {m \in Messages : status[m] = "pending" /\ available[m] <= t /\ attempts[m] = 0}

Waiting(t) == {m \in Messages : status[m] = "pending" /\ available[m] <= t}

(* ORDER BY available_at, created_at; jobs are created with their message. *)
Before(p, q) == p.due < q.due \/ (p.due = q.due /\ p.msg < q.msg)
IsFirst(p, S) == p \in S /\ \A q \in S \ {p} : Before(p, q)
Prefix(S, n) == {p \in S : Cardinality({q \in S : Before(q, p)}) < n}

(* process_pending_autopilot_jobs reads the clock once and the jobs of the *)
(* batch without locking them.                                             *)
SelectJobs(w) ==
    /\ wpc[w] = "idle"
    /\ Waiting(now) # {}
    /\ wpc' = [wpc EXCEPT ![w] = "batch"]
    /\ batch' = [batch EXCEPT ![w] =
           Prefix({[due |-> available[m], msg |-> m] : m \in Waiting(now)}, BatchLimit)]
    /\ batchTime' = [batchTime EXCEPT ![w] = now]
    /\ UNCHANGED <<now, settingVars, messageVars, deletionVars, jobVars, outcomeVars,
                   replyVars, cur, gathered, used, date, verdict, unheard, faults>>

(* The job m of the batch is finished for this worker. *)
EndJob(w, m) ==
    LET rest == {p \in batch[w] : p.msg # m}
    IN /\ wpc' = [wpc EXCEPT ![w] = IF rest = {} THEN "idle" ELSE "batch"]
       /\ batch' = [batch EXCEPT ![w] = rest]
       /\ batchTime' = [batchTime EXCEPT ![w] = IF rest = {} THEN 0 ELSE @]
       /\ cur' = [cur EXCEPT ![w] = NoMessage]
       /\ gathered' = [gathered EXCEPT ![w] = {}]
       /\ used' = [used EXCEPT ![w] = 0]
       /\ date' = [date EXCEPT ![w] = DateAt[0]]
       /\ verdict' = [verdict EXCEPT ![w] = "none"]

(* Mutant: the claim trusts the query of the batch.                        *)
Claimable_StatusNotChecked(w, m) == available[m] <= batchTime[w]

Claimable(w, m) == status[m] = "pending" /\ available[m] <= batchTime[w]

(* _claim_job, with the job row locked. *)
Claim(w) ==
    /\ wpc[w] = "batch"
    /\ \E p \in batch[w] :
        /\ IsFirst(p, batch[w])
        /\ Claimable(w, p.msg)
        /\ status' = [status EXCEPT ![p.msg] = "processing"]
        /\ attempts' = [attempts EXCEPT ![p.msg] = @ + 1]
        /\ cur' = [cur EXCEPT ![w] = p.msg]
    /\ wpc' = [wpc EXCEPT ![w] = "claimed"]
    /\ UNCHANGED <<now, settingVars, messageVars, deletionVars, jobMode, available,
                   batched, outcomeVars, replyVars, batch, batchTime, gathered,
                   used, date, verdict, unheard, faults>>

(* cancelled, not_pending and not_ready. *)
SkipJob(w) ==
    /\ wpc[w] = "batch"
    /\ \E p \in batch[w] :
        /\ IsFirst(p, batch[w])
        /\ ~Claimable(w, p.msg)
        /\ EndJob(w, p.msg)
    /\ UNCHANGED <<now, settingVars, messageVars, deletionVars, jobVars, outcomeVars,
                   replyVars, unheard, faults>>

(* _validate_job in the order of its checks, each with the kind of skip    *)
(* it ends in.  Of the chat and the settings one read is modelled: what    *)
(* changes between two of the reads could change after the last one too.   *)
MustNotAnswer(m) ==
    \/ m \in deleted \/ chatOf[m] \in chatDeleted
    \/ chatOf[m] \notin enabled
    \/ ~connected
    \/ m \in done
    \/ jobMode[m] = "fallback" /\ (ManagerReplied(m) \/ NewerJob(m))

OverLimit(m, t) ==
    \/ replies[Today] >= DailyReplies
    \/ AnswersInHour(chatOf[m], t) >= HourlyReplies

TooManyInRow(m) == AnswersInRow(chatOf[m]) >= ConsecutiveReplies

Reject(w, v) ==
    /\ wpc' = [wpc EXCEPT ![w] = "rejected"]
    /\ verdict' = [verdict EXCEPT ![w] = v]

(* _batch_messages: what the customer wrote since the window before the    *)
(* trigger opened; a fallback job answers its trigger only.                *)
Gather(m, t) ==
    IF jobMode[m] = "always"
    THEN {m} \cup {n \in LiveOf(chatOf[m], "contact") :
                      at[n] + BatchingWindow >= at[m] /\ at[n] <= t}
    ELSE {m}

Validate(w) ==
    LET m == cur[w] IN
    /\ wpc[w] = "claimed"
    /\ \/ /\ MustNotAnswer(m) \/ OverLimit(m, batchTime[w])
          /\ Reject(w, "skip")
          /\ UNCHANGED gathered
       \/ /\ ~MustNotAnswer(m) /\ ~OverLimit(m, batchTime[w]) /\ TooManyInRow(m)
          /\ Reject(w, "unable")
          /\ UNCHANGED gathered
       \/ /\ ~MustNotAnswer(m) /\ ~OverLimit(m, batchTime[w]) /\ ~TooManyInRow(m)
          /\ wpc' = [wpc EXCEPT ![w] = "asking"]
          /\ gathered' = [gathered EXCEPT ![w] = Gather(m, batchTime[w])]
          /\ UNCHANGED verdict
    /\ UNCHANGED <<now, settingVars, messageVars, deletionVars, jobVars, outcomeVars,
                   replyVars, batch, batchTime, cur, used, date, unheard, faults>>

(* The knowledge base and the AI provider give a reply, or they do not:    *)
(* unable (no_relevant_knowledge, empty_ai_response), unsure               *)
(* (low_confidence), business (not configured) or technical (a timeout,    *)
(* the rate limit, an error of a service).                                 *)
Generate(w) ==
    /\ wpc[w] = "asking"
    /\ \/ wpc' = [wpc EXCEPT ![w] = "answering"] /\ UNCHANGED verdict
       \/ \E v \in {"unable", "unsure", "business", "technical"} : Reject(w, v)
    /\ UNCHANGED <<now, settingVars, messageVars, deletionVars, jobVars, outcomeVars,
                   replyVars, batch, batchTime, cur, gathered, used, date, unheard,
                   faults>>

(* _send_autopilot_reply locks the chat, deleted or not, with the contact  *)
(* and the workspace, then the usage row of the workspace's date.          *)
LockChat(w) ==
    /\ wpc[w] = "answering"
    /\ WorkspaceFree
    /\ wpc' = [wpc EXCEPT ![w] = "storing"]
    /\ used' = [used EXCEPT ![w] = replies[Today]]
    /\ date' = [date EXCEPT ![w] = Today]
    /\ UNCHANGED <<now, settingVars, messageVars, deletionVars, jobVars, outcomeVars,
                   replyVars, batch, batchTime, cur, gathered, verdict, unheard,
                   faults>>

(* Mutant: the daily limit is checked before the call of the AI only.      *)
DayIsFull_CheckedEarly(w) == FALSE

DayIsFull(w) == used[w] >= DailyReplies

RefuseReply(w) ==
    /\ wpc[w] = "storing"
    /\ DayIsFull(w)
    /\ Reject(w, "skip")
    /\ UNCHANGED <<now, settingVars, messageVars, deletionVars, jobVars, outcomeVars,
                   replyVars, batch, batchTime, cur, gathered, used, date, unheard,
                   faults>>

(* The reply, the usage and the commit, then the broadcast of the message. *)
StoreReply(w, heard) ==
    LET trigger == cur[w] IN
    /\ wpc[w] = "storing"
    /\ ~DayIsFull(w)
    /\ FaultUnless(heard, "broadcast")
    /\ \E m \in Messages : Write(m, chatOf[trigger], "ai")
    /\ replies' = [replies EXCEPT ![date[w]] = used[w] + 1]
    /\ charged' = [charged EXCEPT ![date[w]] = @ + 1]
    /\ answers' = [answers EXCEPT ![trigger] = @ + 1]
    /\ IF heard
       THEN /\ wpc' = [wpc EXCEPT ![w] = "stored"]
            /\ UNCHANGED <<verdict, unheard>>
       ELSE /\ Reject(w, "technical")
            /\ unheard' = [unheard EXCEPT ![trigger] = @ + 1]
    /\ UNCHANGED <<now, settingVars, deletionVars, jobVars, outcomeVars, batch,
                   batchTime, cur, gathered, used, date>>

(* The transaction of the reply fails: an error of the database is one     *)
(* more technical failure.                                                 *)
ReplyFails(w) ==
    /\ wpc[w] = "storing"
    /\ Reject(w, "technical")
    /\ UNCHANGED <<now, settingVars, messageVars, deletionVars, jobVars, outcomeVars,
                   replyVars, batch, batchTime, cur, gathered, used, date, unheard,
                   faults>>

Settle(w, s) ==
    /\ status' = [status EXCEPT ![cur[w]] = s]
    /\ EndJob(w, cur[w])
    /\ UNCHANGED <<now, settingVars, messageVars, deletionVars, jobMode, attempts,
                   replyVars, unheard, faults>>

MarkSent(w) ==
    /\ wpc[w] = "stored"
    /\ WorkspaceFree
    /\ Settle(w, "sent")
    /\ batched' = [batched EXCEPT ![cur[w]] = gathered[w]]
    /\ done' = done \cup {cur[w]}
    /\ UNCHANGED <<available, tasks, escalated, alerted>>

(* A customer who waits with several messages gets a task, within the      *)
(* daily limit of tasks, and the managers get a notice.                    *)
Escalates(w) ==
    /\ verdict[w] = "unable"
    /\ QuestionsInRow(chatOf[cur[w]]) >= EscalationMessages
    /\ tasks[Today] < DailyTasks

MarkSkipped(w) ==
    /\ wpc[w] = "rejected"
    /\ verdict[w] \in {"skip", "unable", "unsure"}
    /\ WorkspaceFree
    /\ Settle(w, "skipped")
    /\ done' = done \cup {cur[w]}
    /\ IF Escalates(w)
       THEN /\ tasks' = [tasks EXCEPT ![Today] = @ + 1]
            /\ escalated' = escalated \cup {cur[w]}
       ELSE UNCHANGED <<tasks, escalated>>
    /\ alerted' = IF verdict[w] = "skip" THEN alerted ELSE alerted \cup {cur[w]}
    /\ UNCHANGED <<available, batched>>

LastAttempt(m) == attempts[m] > Len(RetryDelays)

MarkFailed(w) ==
    /\ wpc[w] = "rejected"
    /\ \/ verdict[w] = "business"
       \/ verdict[w] = "technical" /\ LastAttempt(cur[w])
    /\ WorkspaceFree
    /\ Settle(w, "failed")
    /\ UNCHANGED <<available, batched, outcomeVars>>

Reschedule(w) ==
    LET m == cur[w] IN
    /\ wpc[w] = "rejected"
    /\ verdict[w] = "technical" /\ ~LastAttempt(m)
    /\ available' = [available EXCEPT ![m] =
                        Due(batchTime[w] + RetryDelays[attempts[m]])]
    /\ Settle(w, "pending")
    /\ UNCHANGED <<batched, outcomeVars>>

(* The process dies, by itself or because a transaction outside the try    *)
(* block raises; its transaction is undone, its claim is not.              *)
WorkerDies(w) ==
    /\ wpc[w] # "idle"
    /\ Fault("crash")
    /\ wpc' = [wpc EXCEPT ![w] = "idle"]
    /\ batch' = [batch EXCEPT ![w] = {}]
    /\ batchTime' = [batchTime EXCEPT ![w] = 0]
    /\ cur' = [cur EXCEPT ![w] = NoMessage]
    /\ gathered' = [gathered EXCEPT ![w] = {}]
    /\ used' = [used EXCEPT ![w] = 0]
    /\ date' = [date EXCEPT ![w] = DateAt[0]]
    /\ verdict' = [verdict EXCEPT ![w] = "none"]
    /\ UNCHANGED <<now, settingVars, messageVars, deletionVars, jobVars, outcomeVars,
                   replyVars, unheard>>

Tick ==
    /\ now < MaxTime
    /\ now' = now + 1
    /\ UNCHANGED <<settingVars, messageVars, deletionVars, jobVars, outcomeVars,
                   replyVars, workerVars, unheard, faults>>

OthersStep ==
    \/ \E c \in Chats, m \in Messages : ContactWrites(m, c) \/ ManagerWrites(m, c)
    \/ \E c \in Chats : DeleteChat(c) \/ ToggleChat(c)
    \/ \E k \in Modes, d \in Delays : ChangeSettings(k, d)
    \/ ToggleIntegration

WorkerStep(w) ==
    \/ SelectJobs(w)
    \/ Claim(w)
    \/ SkipJob(w)
    \/ Validate(w)
    \/ Generate(w)
    \/ LockChat(w)
    \/ RefuseReply(w)
    \/ \E heard \in BOOLEAN : StoreReply(w, heard)
    \/ ReplyFails(w)
    \/ MarkSent(w)
    \/ MarkSkipped(w)
    \/ MarkFailed(w)
    \/ Reschedule(w)

Next ==
    \/ OthersStep
    \/ \E w \in Workers : WorkerStep(w) \/ WorkerDies(w)
    \/ Tick

Spec == Init /\ [][Next]_vars

(* The supervisor keeps the workers running, calls of the AI provider have *)
(* a timeout, PostgreSQL grants a lock to its waiters in turn, the clock   *)
(* runs; nothing is assumed of people, verdicts or faults.                 *)
Fairness ==
    /\ WF_vars(Tick)
    /\ \A w \in Workers : SF_vars(WorkerStep(w))

LiveSpec == Spec /\ Fairness

-----------------------------------------------------------------------------
(* Properties. *)

SettingTypes ==
    /\ now \in 0 .. MaxTime
    /\ mode \in Modes /\ delay \in Delays
    /\ enabled \subseteq Chats /\ connected \in BOOLEAN
    /\ changes \in 0 .. MaxChanges
    /\ chatDeleted \subseteq Chats /\ deleted \subseteq Messages
    /\ faults \in 0 .. MaxFaults

MessageTypes ==
    /\ kind \in [Messages -> Kinds]
    /\ chatOf \in [Messages -> Chats]
    /\ at \in [Messages -> 0 .. MaxTime]
    /\ answers \in [Messages -> Nat]
    /\ unheard \in [Messages -> Nat]

JobTypes ==
    /\ status \in [Messages -> Statuses]
    /\ jobMode \in [Messages -> {"always", "fallback"}]
    /\ available \in [Messages -> 0 .. MaxTime]
    /\ attempts \in [Messages -> 0 .. Len(RetryDelays) + 1]
    /\ batched \in [Messages -> SUBSET Messages]
    /\ done \subseteq Messages
    /\ escalated \subseteq Messages /\ alerted \subseteq Messages

UsageTypes ==
    /\ replies \in [Dates -> 0 .. DailyReplies]
    /\ charged \in [Dates -> Nat]
    /\ tasks \in [Dates -> 0 .. DailyTasks]

WorkerTypes ==
    /\ wpc \in [Workers -> {"idle", "batch", "claimed", "asking", "answering",
                            "storing", "stored", "rejected"}]
    /\ batch \in [Workers -> SUBSET [due : Nat, msg : Messages]]
    /\ batchTime \in [Workers -> 0 .. MaxTime]
    /\ cur \in [Workers -> Messages \cup {NoMessage}]
    /\ gathered \in [Workers -> SUBSET Messages]
    /\ used \in [Workers -> Nat]
    /\ date \in [Workers -> Dates]
    /\ verdict \in [Workers -> {"none", "skip", "unable", "unsure", "business",
                                "technical"}]

(* The type invariant.  Among the rest: a job is never attempted more than *)
(* len(RETRY_DELAYS) + 1 times and no day exceeds its limits of replies    *)
(* and tasks.                                                              *)
TypeOK == SettingTypes /\ MessageTypes /\ JobTypes /\ UsageTypes /\ WorkerTypes

Working(w) == wpc[w] \notin {"idle", "batch"}

(* A job that is being processed is in the hands of one worker, or of none *)
(* after a crash, and nobody else writes its row meanwhile.                *)
ClaimsExclude ==
    /\ \A w \in Workers : Working(w) =>
          cur[w] \in Messages /\ status[cur[w]] = "processing"
    /\ \A v, w \in Workers :
          Working(v) /\ Working(w) /\ cur[v] = cur[w] => v = w

(* What a worker that stores a reply has read is still true, and the usage *)
(* of a date is the number of replies stored on it.                        *)
UsageLocked ==
    /\ \A v, w \in Workers : wpc[v] = "storing" /\ wpc[w] = "storing" => v = w
    /\ \A w \in Workers : wpc[w] = "storing" => used[w] = replies[date[w]]
    /\ charged = replies

(* A job that waits has attempts left, one in hand has been attempted, and *)
(* there is no job without its message.                                    *)
JobsStand ==
    /\ \A m \in Messages :
        /\ kind[m] = "none" => status[m] = "none"
        /\ status[m] \in {"none", "pending"} => attempts[m] <= Len(RetryDelays)
    /\ \A w \in Workers : Working(w) => attempts[cur[w]] > 0

(* A second reply to a trigger is stored only after the broadcast of the   *)
(* first one failed: answers are those whose broadcast raised and at most  *)
(* one more, which a worker is about to record or has.                     *)
AnswersAccounted ==
    \A m \in Messages :
        /\ answers[m] <= unheard[m] + 1
        /\ status[m] \in {"none", "pending", "cancelled", "superseded"}
              => answers[m] = unheard[m]
        /\ \A w \in Workers : Working(w) /\ cur[w] = m => answers[m] =
              IF wpc[w] = "stored" THEN unheard[m] + 1 ELSE unheard[m]
        /\ status[m] = "sent" => answers[m] = unheard[m] + 1

Inv == TypeOK /\ ClaimsExclude /\ UsageLocked /\ JobsStand /\ AnswersAccounted

(* The daily limit holds for the replies really stored, not only for the   *)
(* counter, however many workers answer at once: _send_autopilot_reply     *)
(* reads the usage again under the lock.                                   *)
DailyLimit == \A d \in Dates : charged[d] <= DailyReplies

(* When a manager's reply, or a newer message of the batch, cancels a job, *)
(* the job gets no reply any more, also when a worker had selected it      *)
(* before (_claim_job).                                                    *)
CancelledStaysSilent ==
    [][\A m \in Messages : status[m] \in {"cancelled", "superseded"} =>
          status'[m] = status[m] /\ answers'[m] = answers[m]]_vars

(* Every job ends, as long as no worker dies with it: sent, skipped,       *)
(* failed or cancelled, whatever the failures of the services.             *)
EveryJobSettles ==
    \A m \in Messages :
        status[m] \in {"pending", "processing"}
            ~> status[m] \in {"sent", "skipped", "failed", "cancelled", "superseded"}

(* The properties below do not hold. *)

(* "One question, one reply" (test_autopilot.py): a customer's message is  *)
(* answered by the autopilot at most once.                                 *)
OneReplyPerQuestion == \A m \in Messages : answers[m] <= 1

(* "Если менеджер не ответил", the name of the fallback mode: no fallback  *)
(* reply is stored after a manager has replied to the trigger.             *)
FallbackYields ==
    [][\A m \in Messages : answers'[m] # answers[m] /\ jobMode[m] = "fallback"
          => ~ManagerReplied(m)]_vars

(* Deleting a chat deletes its messages (test_delete_chat_soft_deletes_its *)
(* _messages), so a deleted chat has no live message.                      *)
DeletedChatIsSilent == \A c \in chatDeleted : Live(c) = {}

(* A message superseded_by_batch is answered by the batch that superseded  *)
(* it: the first later job of the chat that is sent has gathered it.       *)
SupersededIsBatched ==
    \A m, n \in Messages :
        /\ status[m] = "superseded" /\ status[n] = "sent"
        /\ m < n /\ chatOf[n] = chatOf[m] /\ jobMode[n] = "always"
        /\ \A l \in Messages : m < l /\ l < n /\ chatOf[l] = chatOf[m]
                                 => status[l] \in {"none", "superseded"}
        => m \in batched[n]

=============================================================================
