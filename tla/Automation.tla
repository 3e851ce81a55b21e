------------------------------ MODULE Automation ------------------------------
(***************************************************************************)
(* The AI automation events of one workspace (ai_assistant/automation.py): *)
(* workers claim an event for every message, ask the AI and apply five     *)
(* actions, each in a transaction of its own that also stores the record   *)
(* of the action and counts the usage of the day, while managers edit the  *)
(* same contacts and deals.                                                *)
(*                                                                         *)
(* What the AI wants is a free choice at every action, among those of the  *)
(* menu, which covers the messages of users, whose enrichments are         *)
(* skipped.  A behaviour lasts less than the 24 hours of AIProcessedEvent  *)
(* and of the limits.  Time is the order in which delays end: a waiting    *)
(* event becomes due at any moment, an event processed lately stops        *)
(* throttling its chat at any moment.                                      *)
(***************************************************************************)
EXTENDS Naturals, FiniteSets

CONSTANTS
    Workers,                \* process_ai_automation_events processes
    Chats, ChatOf,          \* the chat of every message
    MaxMessages,            \* bound: messages, numbered in the order of creation
    MaxRetries,             \* length of RETRY_DELAYS
    DailyUpdates, DailyDeals, DailyTasks, TasksPerChat,     \* AI_LIMITS
    InsightStep,            \* INSIGHT_MESSAGE_STEP
    MaxTroubles,            \* bound: failures, dead workers and changes
    MaxChanges,             \* bound: changes by managers
    Menus,                  \* bound: sets of actions that the AI mixes
    None

Messages == 1 .. MaxMessages
Contact(c) == <<"contact", c>>      \* the contact of a chat
Deal(m) == <<"deal", m>>            \* the deal an event creates
Rows == {Contact(c) : c \in Chats} \cup {Deal(m) : m \in Messages}
Actions == {"contact", "deal", "details", "task", "insight"}

ASSUME AutomationAssumption ==
    /\ MaxMessages \in Nat /\ MaxTroubles \in Nat /\ MaxChanges \in Nat
    /\ MaxRetries \in Nat /\ InsightStep \in Nat \ {0}
    /\ {DailyUpdates, DailyDeals, DailyTasks, TasksPerChat} \subseteq Nat
    /\ ChatOf \in [Messages -> Chats]
    /\ Menus \subseteq SUBSET Actions
    /\ None \notin Rows \cup Nat

VARIABLES
    menu,                   \* the actions the AI wants in this behaviour
    erased,                 \* messages with is_deleted
    status, attempts,       \* AIAutomationEvent
    waiting,                \* events whose available_at has not come
    fresh,                  \* chats with an event processed less than 5 s ago
    rec,                    \* AIProcessedEvent: the result of each action
    value, version,         \* the field of a row that enrichment fills; version
    tasks,                  \* events that created a task
    insights, applied,      \* events with an AIChatInsight; applied to the contact
    usage,                  \* AIUsageDaily
    held,                   \* the usage row as the worker that locked it has read it
    enriched,               \* history: enrichments by each event and action
    pc, batch, ev, deal, seen,      \* workers: active_deal, version read
    faults, changes

queueVars == <<status, attempts, waiting, fresh>>
crmVars == <<value, version, tasks>>
insightVars == <<insights, applied>>
usageVars == <<usage, enriched>>
countVars == <<usageVars, held>>
workerVars == <<pc, batch, ev, deal, seen>>
vars == <<menu, erased, queueVars, rec, crmVars, insightVars, countVars, workerVars,
          faults, changes>>

Init ==
    /\ menu \in Menus
    /\ erased = {}
    /\ status = [m \in Messages |-> "none"]
    /\ attempts = [m \in Messages |-> 0]
    /\ waiting = {}
    /\ fresh = {}
    /\ rec = [m \in Messages |-> [a \in Actions |-> "none"]]
    /\ value = [r \in Rows |-> IF r[1] = "contact" THEN "blank" ELSE "none"]
    /\ version = [r \in Rows |-> 0]
    /\ tasks = {}
    /\ insights = {}
    /\ applied = {}
    /\ usage = [updates |-> 0, deals |-> 0, tasks |-> 0]
    /\ held = [w \in Workers |-> None]
    /\ enriched = [m \in Messages |-> [a \in {"contact", "details"} |-> 0]]
    /\ pc = [w \in Workers |-> "idle"]
    /\ batch = [w \in Workers |-> {}]
    /\ ev = [w \in Workers |-> None]
    /\ deal = [w \in Workers |-> None]
    /\ seen = [w \in Workers |-> None]
    /\ faults = 0
    /\ changes = 0

-----------------------------------------------------------------------------
(* Messages, time and managers. *)

(* post_save of Message: enqueue_automation_event. *)
Enqueue(m) ==
    /\ status[m] = "none" /\ \A k \in 1 .. m - 1 : status[k] # "none"
    /\ status' = [status EXCEPT ![m] = "pending"]
    /\ UNCHANGED <<menu, erased, attempts, waiting, fresh, rec, crmVars, insightVars,
                   countVars, workerVars, faults, changes>>

BecomesDue(m) ==
    /\ m \in waiting
    /\ waiting' = waiting \ {m}
    /\ UNCHANGED <<menu, erased, status, attempts, fresh, rec, crmVars, insightVars,
                   countVars, workerVars, faults, changes>>

ThrottleEnds(c) ==
    /\ c \in fresh
    /\ fresh' = fresh \ {c}
    /\ UNCHANGED <<menu, erased, status, attempts, waiting, rec, crmVars, insightVars,
                   countVars, workerVars, faults, changes>>

Change ==
    /\ changes < MaxChanges /\ faults + changes < MaxTroubles
    /\ changes' = changes + 1

(* A manager fills, clears or deletes a contact or a deal. *)
EditRow(r, v) ==
    /\ value[r] \notin {"none", "gone", v}
    /\ Change
    /\ value' = [value EXCEPT ![r] = v]
    /\ version' = [version EXCEPT ![r] = @ + 1]
    /\ UNCHANGED <<menu, erased, queueVars, rec, tasks, insightVars, countVars,
                   workerVars, faults>>

EraseMessages(c) ==
    /\ Change
    /\ erased' = erased \cup {m \in Messages : status[m] # "none" /\ ChatOf[m] = c}
    /\ erased' # erased
    /\ UNCHANGED <<menu, queueVars, rec, crmVars, insightVars, countVars, workerVars,
                   faults>>

-----------------------------------------------------------------------------
(* process_pending_automation_events and _claim_event *)

Pending == {m \in Messages : status[m] = "pending" /\ m \notin waiting}

SelectEvents(w) ==
    /\ pc[w] = "idle" /\ Pending # {}
    /\ pc' = [pc EXCEPT ![w] = "next"]
    /\ batch' = [batch EXCEPT ![w] = Pending]
    /\ UNCHANGED <<menu, erased, queueVars, rec, crmVars, insightVars, countVars, ev,
                   deal, seen, faults, changes>>

(* Back to the loop over the batch, or to the next batch. *)
Proceed(w, rest) ==
    /\ batch' = [batch EXCEPT ![w] = rest]
    /\ pc' = [pc EXCEPT ![w] = IF rest = {} THEN "idle" ELSE "next"]
    /\ ev' = [ev EXCEPT ![w] = None]
    /\ deal' = [deal EXCEPT ![w] = None]
    /\ seen' = [seen EXCEPT ![w] = None]

(* Mutant: the status that the batch was selected by is trusted.           *)
Claimable_StatusNotChecked(m) == m \notin waiting

Claimable(m) == status[m] = "pending" /\ m \notin waiting

Throttled(m) == ChatOf[m] \in fresh

SkipEvent(w, m) ==
    /\ pc[w] = "next" /\ m \in batch[w]
    /\ ~Claimable(m)
    /\ Proceed(w, batch[w] \ {m})
    /\ UNCHANGED <<menu, erased, queueVars, rec, crmVars, insightVars, countVars,
                   faults, changes>>

IgnoreEvent(w, m) ==
    /\ pc[w] = "next" /\ m \in batch[w]
    /\ Claimable(m) /\ m \in erased
    /\ status' = [status EXCEPT ![m] = "ignored"]
    /\ fresh' = fresh \cup {ChatOf[m]}
    /\ Proceed(w, batch[w] \ {m})
    /\ UNCHANGED <<menu, erased, attempts, waiting, rec, crmVars, insightVars,
                   countVars, faults, changes>>

ThrottleEvent(w, m) ==
    /\ pc[w] = "next" /\ m \in batch[w]
    /\ Claimable(m) /\ m \notin erased /\ Throttled(m)
    /\ waiting' = waiting \cup {m}
    /\ Proceed(w, batch[w] \ {m})
    /\ UNCHANGED <<menu, erased, status, attempts, fresh, rec, crmVars, insightVars,
                   countVars, faults, changes>>

ClaimEvent(w, m) ==
    /\ pc[w] = "next" /\ m \in batch[w]
    /\ Claimable(m) /\ m \notin erased /\ ~Throttled(m)
    /\ status' = [status EXCEPT ![m] = "processing"]
    /\ attempts' = [attempts EXCEPT ![m] = @ + 1]
    /\ ev' = [ev EXCEPT ![w] = m]
    /\ pc' = [pc EXCEPT ![w] = "contact"]
    /\ UNCHANGED <<menu, erased, waiting, fresh, rec, crmVars, insightVars, countVars,
                   batch, deal, seen, faults, changes>>

-----------------------------------------------------------------------------
(* The analysis and the actions of event ev[w]. *)

Fault == faults + changes < MaxTroubles /\ faults' = faults + 1
GoTo(w, p) == pc' = [pc EXCEPT ![w] = p]

(* A commit, behind which a broadcast may raise. *)
Committed(w, p) ==
    \/ GoTo(w, p) /\ UNCHANGED faults
    \/ GoTo(w, "failing") /\ Fault

(* The answer is not JSON or the client is not configured, or the request  *)
(* fails, the rate limit included; otherwise the actions begin.            *)
AnalysisFails(w) ==
    /\ pc[w] = "contact"
    /\ \/ GoTo(w, "rejecting") /\ UNCHANGED faults
       \/ GoTo(w, "failing") /\ Fault
    /\ UNCHANGED <<menu, erased, queueVars, rec, crmVars, insightVars, countVars,
                   batch, ev, deal, seen, changes>>

Following(a) ==
    CASE a = "contact" -> "deal"
      [] a = "deal" -> "details"
      [] a = "details" -> "task"
      [] a = "task" -> "insight"
      [] a = "insight" -> "completing"

(* Mutant: a retry does not look for the record of the action.             *)
AlreadyProcessed_NotRead(m, a) == FALSE

AlreadyProcessed(m, a) == rec[m][a] # "none"

(* The AI does not want the action, is not sure enough, or a check outside *)
(* the transaction refuses it: the action is recorded as skipped.          *)
SkipAction(w, m, a) ==
    /\ rec' = IF AlreadyProcessed(m, a) THEN rec ELSE [rec EXCEPT ![m][a] = "skipped"]
    /\ GoTo(w, Following(a))

(* _active_deal_for_contact: one of the deals, None without one.  Only the *)
(* deals of the automation are there; one that a manager has created would *)
(* be found just like them.                                                *)
ActiveDeals(c) ==
    LET live == {m \in Messages : ChatOf[m] = c /\ value[Deal(m)] \notin {"none", "gone"}} IN
    IF live = {} THEN {None} ELSE {Deal(m) : m \in live}

(* _enrich_contact and _enrich_deal read the row and its version without a *)
(* lock; nothing but an empty field is filled.                             *)
Target(w, a) == IF a = "contact" THEN Contact(ChatOf[ev[w]]) ELSE deal[w]

Writing(a) == IF a = "contact" THEN "writing contact" ELSE "writing details"

Fillable(r) == IF r = None THEN FALSE ELSE value[r] = "blank"

(* The deal is the one found at its action, read again here; the code      *)
(* carries the row it has read then, with its version.                     *)
ReadRow(w, a) ==
    LET m == ev[w]
        r == Target(w, a) IN
    /\ pc[w] = a /\ a \in {"contact", "details"}
    /\ \/ SkipAction(w, m, a) /\ UNCHANGED seen
       \/ /\ a \in menu /\ ~AlreadyProcessed(m, a)
          /\ Fillable(r)
          /\ seen' = [seen EXCEPT ![w] = version[r]]
          /\ GoTo(w, Writing(a))
          /\ UNCHANGED rec
    /\ UNCHANGED <<menu, erased, queueVars, crmVars, insightVars, countVars, batch,
                   ev, deal, faults, changes>>

(* Mutant: the usage row of the day is read without a lock.                *)
UsageFree_NotLocked == TRUE

UsageFree == \A w \in Workers : held[w] = None

(* _usage_for_update is the first step of the transaction of an enrichment,*)
(* a deal or a task, which holds the row until it commits or is undone.    *)
LockUsage(w) ==
    /\ pc[w] \in {"writing contact", "writing deal", "writing details", "writing task"}
    /\ held[w] = None
    /\ UsageFree
    /\ held' = [held EXCEPT ![w] = usage]
    /\ UNCHANGED <<menu, erased, queueVars, rec, crmVars, insightVars, usageVars,
                   workerVars, faults, changes>>

Release(w) == held' = [held EXCEPT ![w] = None]

(* Mutant: update_contact and update_deal do not compare versions.         *)
Unchanged_NotCompared(w, r) == value[r] # "gone"

Unchanged(w, r) == value[r] # "gone" /\ version[r] = seen[w]

(* The rest of the transaction, with the limit of the day in the row held. *)
WriteRow(w, a) ==
    LET m == ev[w]
        r == Target(w, a) IN
    /\ pc[w] = Writing(a) /\ held[w] # None
    /\ IF held[w].updates >= DailyUpdates
       THEN /\ SkipAction(w, m, a)
            /\ UNCHANGED <<value, version, usageVars, faults>>
       ELSE IF ~Unchanged(w, r)
       THEN /\ GoTo(w, "rejecting")
            /\ UNCHANGED <<rec, value, version, usageVars, faults>>
       ELSE /\ value' = [value EXCEPT ![r] = "ai"]
            /\ version' = [version EXCEPT ![r] = @ + 1]
            /\ usage' = [usage EXCEPT !.updates = held[w].updates + 1]
            /\ enriched' = [enriched EXCEPT ![m][a] = @ + 1]
            /\ rec' = [rec EXCEPT ![m][a] = "done"]
            /\ Committed(w, Following(a))
    /\ seen' = [seen EXCEPT ![w] = None]
    /\ Release(w)
    /\ UNCHANGED <<menu, erased, queueVars, tasks, insightVars, batch, ev, deal,
                   changes>>

(* No active deal and none by the AI in 24 hours: read without a lock.     *)
DealWelcome(c) ==
    \A m \in Messages : ChatOf[m] = c => value[Deal(m)] = "none"

CheckDeal(w) ==
    LET m == ev[w]
        c == ChatOf[m] IN
    /\ pc[w] = "deal"
    /\ \/ /\ SkipAction(w, m, "deal")
          /\ \E d \in ActiveDeals(c) : deal' = [deal EXCEPT ![w] = d]
       \/ /\ "deal" \in menu /\ ~AlreadyProcessed(m, "deal")
          /\ DealWelcome(c)
          /\ GoTo(w, "writing deal")
          /\ UNCHANGED <<rec, deal>>
    /\ UNCHANGED <<menu, erased, queueVars, crmVars, insightVars, countVars, batch,
                   ev, seen, faults, changes>>

(* create_deal, with the key of the message, in the transaction of the     *)
(* record and of the counter; its contact may have been deleted.           *)
CreateDeal(w) ==
    LET m == ev[w]
        c == ChatOf[m] IN
    /\ pc[w] = "writing deal" /\ held[w] # None
    /\ IF held[w].deals >= DailyDeals
       THEN /\ SkipAction(w, m, "deal")
            /\ \E d \in ActiveDeals(c) : deal' = [deal EXCEPT ![w] = d]
            /\ UNCHANGED <<value, usage, faults>>
       ELSE IF value[Contact(c)] = "gone"
       THEN GoTo(w, "rejecting") /\ UNCHANGED <<rec, value, usage, deal, faults>>
       ELSE /\ value' = [value EXCEPT ![Deal(m)] = "blank"]
            /\ usage' = [usage EXCEPT !.deals = held[w].deals + 1]
            /\ rec' = [rec EXCEPT ![m]["deal"] = "done"]
            /\ deal' = [deal EXCEPT ![w] = Deal(m)]
            /\ Committed(w, "details")
    /\ Release(w)
    /\ UNCHANGED <<menu, erased, queueVars, version, tasks, insightVars, enriched,
                   batch, ev, seen, changes>>

(* A task counts for good, though a user may delete it; the tasks in which *)
(* the autopilot hands a chat over count as well and are not in the model. *)
TasksOf(c) == {m \in tasks : ChatOf[m] = c}

ChatFull(c) == Cardinality(TasksOf(c)) >= TasksPerChat

CheckTask(w) ==
    /\ pc[w] = "task"
    /\ \/ SkipAction(w, ev[w], "task") /\ deal' = [deal EXCEPT ![w] = None]
       \/ /\ "task" \in menu /\ ~AlreadyProcessed(ev[w], "task")
          /\ GoTo(w, "writing task")
          /\ UNCHANGED <<rec, deal>>
    /\ UNCHANGED <<menu, erased, queueVars, crmVars, insightVars, countVars, batch,
                   ev, seen, faults, changes>>

(* create_task refuses a deleted contact or deal. *)
CreateTask(w) ==
    LET m == ev[w]
        c == ChatOf[m] IN
    /\ pc[w] = "writing task" /\ held[w] # None
    /\ IF held[w].tasks >= DailyTasks \/ ChatFull(c)
       THEN SkipAction(w, m, "task") /\ UNCHANGED <<tasks, usage, faults>>
       ELSE IF value[Contact(c)] = "gone" \/ (deal[w] # None /\ value[deal[w]] = "gone")
       THEN GoTo(w, "rejecting") /\ UNCHANGED <<rec, tasks, usage, faults>>
       ELSE /\ tasks' = tasks \cup {m}
            /\ usage' = [usage EXCEPT !.tasks = held[w].tasks + 1]
            /\ rec' = [rec EXCEPT ![m]["task"] = "done"]
            /\ Committed(w, "insight")
    /\ deal' = [deal EXCEPT ![w] = None]
    /\ Release(w)
    /\ UNCHANGED <<menu, erased, queueVars, value, version, insightVars, enriched,
                   batch, ev, seen, changes>>

(* _insight_message_counts: the messages since the last one summarised. *)
Unsummarised(m) ==
    {k \in 1 .. m : /\ ChatOf[k] = ChatOf[m] /\ k \notin erased
                    /\ \A i \in insights : ChatOf[i] = ChatOf[m] => k > i}

(* The insight, its effect on the contact and the record are three commits.*)
StoreInsight(w) ==
    LET m == ev[w] IN
    /\ pc[w] = "insight"
    /\ IF AlreadyProcessed(m, "insight") \/ Cardinality(Unsummarised(m)) < InsightStep
       THEN SkipAction(w, m, "insight") /\ UNCHANGED insights
       ELSE /\ insights' = insights \cup {m}
            /\ GoTo(w, "applying")
            /\ UNCHANGED rec
    /\ UNCHANGED <<menu, erased, queueVars, crmVars, applied, countVars, batch, ev,
                   deal, seen, faults, changes>>

ApplyInsight(w) ==
    /\ pc[w] = "applying"
    /\ applied' = applied \cup {ev[w]}
    /\ GoTo(w, "recording")
    /\ UNCHANGED <<menu, erased, queueVars, rec, crmVars, insights, countVars, batch,
                   ev, deal, seen, faults, changes>>

RecordInsight(w) ==
    /\ pc[w] = "recording"
    /\ rec' = [rec EXCEPT ![ev[w]]["insight"] = "done"]
    /\ GoTo(w, "completing")
    /\ UNCHANGED <<menu, erased, queueVars, crmVars, insightVars, countVars, batch,
                   ev, deal, seen, faults, changes>>

CompleteEvent(w) ==
    /\ pc[w] = "completing"
    /\ status' = [status EXCEPT ![ev[w]] = "completed"]
    /\ fresh' = fresh \cup {ChatOf[ev[w]]}
    /\ Proceed(w, batch[w] \ {ev[w]})
    /\ UNCHANGED <<menu, erased, attempts, waiting, rec, crmVars, insightVars,
                   countVars, faults, changes>>

-----------------------------------------------------------------------------
(* Failures. *)

Applying == {"contact", "writing contact", "deal", "writing deal", "details",
             "writing details", "task", "writing task", "insight", "applying",
             "recording"}

(* Any exception: the transaction in progress is rolled back. *)
ActionFails(w) ==
    /\ pc[w] \in Applying
    /\ Fault
    /\ GoTo(w, "failing")
    /\ Release(w)
    /\ UNCHANGED <<menu, erased, queueVars, rec, crmVars, insightVars, usageVars,
                   batch, ev, deal, seen, changes>>

(* _mark_business_failure *)
RejectEvent(w) ==
    /\ pc[w] = "rejecting"
    /\ status' = [status EXCEPT ![ev[w]] = "failed"]
    /\ fresh' = fresh \cup {ChatOf[ev[w]]}
    /\ Proceed(w, batch[w] \ {ev[w]})
    /\ UNCHANGED <<menu, erased, attempts, waiting, rec, crmVars, insightVars,
                   countVars, faults, changes>>

Retried(m) == attempts[m] <= MaxRetries

(* _mark_technical_failure *)
MarkTechnical(w) ==
    LET m == ev[w] IN
    /\ pc[w] = "failing"
    /\ IF Retried(m)
       THEN /\ status' = [status EXCEPT ![m] = "pending"]
            /\ waiting' = waiting \cup {m}
            /\ UNCHANGED fresh
       ELSE /\ status' = [status EXCEPT ![m] = "failed"]
            /\ fresh' = fresh \cup {ChatOf[m]}
            /\ UNCHANGED waiting
    /\ Proceed(w, batch[w] \ {m})
    /\ UNCHANGED <<menu, erased, attempts, rec, crmVars, insightVars, countVars,
                   faults, changes>>

(* Nothing takes a PROCESSING event back. *)
WorkerDies(w) ==
    /\ pc[w] # "idle"
    /\ Fault
    /\ Proceed(w, {})
    /\ Release(w)
    /\ UNCHANGED <<menu, erased, queueVars, rec, crmVars, insightVars, usageVars,
                   changes>>

-----------------------------------------------------------------------------
Arrival ==
    \/ \E m \in Messages : Enqueue(m) \/ BecomesDue(m)
    \/ \E c \in Chats : ThrottleEnds(c)

Manager ==
    \/ \E r \in Rows, v \in {"manager", "blank", "gone"} : EditRow(r, v)
    \/ \E c \in Chats : EraseMessages(c)

Act(w) ==
    \/ LockUsage(w)
    \/ \E a \in {"contact", "details"} : ReadRow(w, a) \/ WriteRow(w, a)
    \/ CheckDeal(w)
    \/ CreateDeal(w)
    \/ CheckTask(w)
    \/ CreateTask(w)
    \/ StoreInsight(w)
    \/ ApplyInsight(w)
    \/ RecordInsight(w)

Work(w) ==
    \/ SelectEvents(w)
    \/ \E m \in Messages :
           SkipEvent(w, m) \/ IgnoreEvent(w, m) \/ ThrottleEvent(w, m) \/ ClaimEvent(w, m)
    \/ AnalysisFails(w)
    \/ Act(w)
    \/ CompleteEvent(w)
    \/ ActionFails(w)
    \/ RejectEvent(w)
    \/ MarkTechnical(w)
    \/ WorkerDies(w)

Next ==
    \/ Arrival
    \/ Manager
    \/ \E w \in Workers : Work(w)

Spec == Init /\ [][Next]_vars

-----------------------------------------------------------------------------
(* Properties *)

(* The variables have their types; an event is tried once more than there  *)
(* are delays, and only then given up by MarkTechnical.                    *)
TypeOK ==
    /\ menu \in Menus
    /\ erased \subseteq Messages
    /\ status \in [Messages -> {"none", "pending", "processing", "completed", "failed",
                                "ignored"}]
    /\ attempts \in [Messages -> 0 .. MaxRetries + 1]
    /\ \A m \in Messages : status[m] = "pending" => attempts[m] <= MaxRetries
    /\ waiting \subseteq {m \in Messages : status[m] = "pending"}
    /\ fresh \subseteq Chats
    /\ rec \in [Messages -> [Actions -> {"none", "skipped", "done"}]]
    /\ value \in [Rows -> {"none", "blank", "manager", "ai", "gone"}]
    /\ version \in [Rows -> Nat]
    /\ tasks \subseteq Messages
    /\ insights \subseteq Messages
    /\ applied \subseteq insights
    /\ usage \in [updates : Nat, deals : Nat, tasks : Nat]
    /\ held \in [Workers -> [updates : Nat, deals : Nat, tasks : Nat] \cup {None}]
    /\ enriched \in [Messages -> [{"contact", "details"} -> Nat]]
    /\ pc \in [Workers -> Applying \cup {"idle", "next", "completing",
                                         "rejecting", "failing"}]
    /\ batch \in [Workers -> SUBSET Messages]
    /\ ev \in [Workers -> Messages \cup {None}]
    /\ deal \in [Workers -> Rows \cup {None}]
    /\ seen \in [Workers -> Nat \cup {None}]
    /\ faults \in 0 .. MaxTroubles
    /\ changes \in 0 .. MaxChanges

(* An event is worked on by one worker, which finds it PROCESSING until it *)
(* writes the outcome: the claim excludes the worker with the same batch.  *)
OneWorkerPerEvent ==
    \A v, w \in Workers :
        /\ ev[w] # None => status[ev[w]] = "processing"
        /\ ev[v] = ev[w] /\ ev[v] # None => v = w

(* The state of events and workers is sound: types, claims.                *)
Inv == TypeOK /\ OneWorkerPerEvent

(* The record of an action and its effect are one commit: whatever fails,  *)
(* is retried or dies in between, a deal, a task or an enrichment is there *)
(* exactly if the record says so, once, and a completed event has a record *)
(* of every action.                                                        *)
RecordsMatchEffects ==
    \A m \in Messages :
        /\ rec[m]["deal"] = "done" <=> value[Deal(m)] # "none"
        /\ rec[m]["task"] = "done" <=> m \in tasks
        /\ \A a \in {"contact", "details"} :
               enriched[m][a] = IF rec[m][a] = "done" THEN 1 ELSE 0
        /\ rec[m]["insight"] = "done" => m \in applied
        /\ status[m] = "completed" => \A a \in Actions : rec[m][a] # "none"

Enrichments ==
    {x \in Messages \X {"contact", "details"} : enriched[x[1]][x[2]] # 0}

(* AIUsageDaily counts what was done, and the limits of a day and of a     *)
(* chat hold for all workers together: no increment is lost and no limit   *)
(* is passed by two workers that have read the same number                 *)
(* (_usage_for_update).                                                    *)
UsageWithinLimits ==
    /\ usage.updates = Cardinality(Enrichments)
    /\ usage.deals = Cardinality({m \in Messages : value[Deal(m)] # "none"})
    /\ usage.tasks = Cardinality(tasks)
    /\ usage.updates <= DailyUpdates
    /\ usage.deals <= DailyDeals
    /\ usage.tasks <= DailyTasks
    /\ \A c \in Chats : Cardinality(TasksOf(c)) <= TasksPerChat

(* The AI fills empty fields only: what a manager has entered after the    *)
(* row was read is not overwritten.                                        *)
ManagersDataStays ==
    [][\A r \in Rows : value[r] = "manager" => value'[r] # "ai"]_vars

(* The properties below do not hold. *)

(* The AI creates one deal for a contact in 24 hours: two events of one    *)
(* chat pass the check outside the transaction together.                   *)
OneDealPerContact ==
    \A k, m \in Messages :
        ChatOf[k] = ChatOf[m] /\ value[Deal(k)] # "none" /\ value[Deal(m)] # "none" => k = m

(* What an insight says reaches the contact: the insight is committed      *)
(* first, and after a failure in between the retry finds it and skips.     *)
InsightsAreApplied ==
    \A m \in Messages : status[m] = "completed" => (m \in insights => m \in applied)

=============================================================================
