--------------------------- MODULE AutomationProofs ---------------------------
(* Theorems about Automation: claims, records and effects, limits, and what *)
(* a manager has entered, for any number of workers, chats and messages.    *)
EXTENDS Automation, FiniteSetTheorems, TLAPS

USE AutomationAssumption DEF AutomationAssumption, countVars

Statuses == {"none", "pending", "processing", "completed", "failed", "ignored"}
Values == {"none", "blank", "manager", "ai", "gone"}
Results == {"none", "skipped", "done"}
Busy == Applying \cup {"completing", "rejecting", "failing"}

-----------------------------------------------------------------------------
(* The inductive invariant. *)

QueueTypes ==
    /\ erased \subseteq Messages
    /\ status \in [Messages -> Statuses]
    /\ attempts \in [Messages -> 0 .. MaxRetries + 1]
    /\ \A m \in Messages : status[m] = "pending" => attempts[m] <= MaxRetries
    /\ waiting \subseteq {m \in Messages : status[m] = "pending"}
    /\ fresh \subseteq Chats

NewEvents == \A m \in Messages : status[m] = "none" => attempts[m] = 0

RowTypes == value \in [Rows -> Values] /\ version \in [Rows -> Nat]

RecordTypes ==
    /\ rec \in [Messages -> [Actions -> Results]]
    /\ enriched \in [Messages -> [{"contact", "details"} -> Nat]]
    /\ usage \in [updates : Nat, deals : Nat, tasks : Nat]
    /\ tasks \subseteq Messages
    /\ insights \subseteq Messages
    /\ applied \subseteq insights

WorkerTypes ==
    /\ pc \in [Workers -> Busy \cup {"idle", "next"}]
    /\ batch \in [Workers -> SUBSET Messages]
    /\ ev \in [Workers -> Messages \cup {None}]
    /\ deal \in [Workers -> Rows \cup {None}]
    /\ seen \in [Workers -> Nat \cup {None}]

Usages == [updates : Nat, deals : Nat, tasks : Nat]

LockTypes == held \in [Workers -> Usages \cup {None}]

BoundTypes ==
    /\ menu \in Menus
    /\ faults \in 0 .. MaxTroubles /\ changes \in 0 .. MaxChanges

LEMMA TypeParts ==
    TypeOK <=> /\ QueueTypes /\ RowTypes /\ RecordTypes /\ WorkerTypes /\ BoundTypes
               /\ LockTypes
BY DEF TypeOK, QueueTypes, RowTypes, RecordTypes, WorkerTypes, BoundTypes, LockTypes,
       Statuses, Values, Results, Busy, Usages

(* A worker is at an action exactly when it has an event. *)
WorkHasEvent == \A w \in Workers : pc[w] \in Busy <=> ev[w] # None

(* An enrichment is about a row that was blank at the version read. *)
WriteStands(w, a) ==
    LET r == Target(w, a) IN
    /\ r \in Rows /\ seen[w] \in Nat /\ seen[w] <= version[r]
    /\ seen[w] = version[r] => value[r] = "blank"
    /\ rec[ev[w]][a] = "none"

AfterDetails == {"task", "writing task", "insight", "applying", "recording", "completing"}
AfterDeal == AfterDetails \cup {"details", "writing details"}
AfterContact == AfterDeal \cup {"deal", "writing deal"}

(* The actions are recorded in their order. *)
RecordsStand(w) ==
    LET done == rec[ev[w]] IN
    /\ pc[w] \in AfterContact => done["contact"] # "none"
    /\ pc[w] \in AfterDeal => done["deal"] # "none"
    /\ pc[w] \in AfterDetails => done["details"] # "none"
    /\ pc[w] \in AfterDetails \ {"task", "writing task"} => done["task"] # "none"
    /\ pc[w] = "completing" => done["insight"] # "none"

Stands(w) ==
    /\ pc[w] = "writing contact" => WriteStands(w, "contact")
    /\ pc[w] = "writing details" => WriteStands(w, "details")
    /\ pc[w] = "writing deal" => rec[ev[w]]["deal"] = "none"
    /\ pc[w] = "writing task" => rec[ev[w]]["task"] = "none"
    /\ pc[w] = "applying" => ev[w] \in insights
    /\ pc[w] = "recording" => ev[w] \in applied
    /\ RecordsStand(w)

WorkInv ==
    /\ WorkerTypes /\ WorkHasEvent /\ OneWorkerPerEvent
    /\ \A w \in Workers : Stands(w)

EffectInv == RowTypes /\ RecordTypes /\ RecordsMatchEffects /\ UsageWithinLimits

IInv == QueueTypes /\ NewEvents /\ BoundTypes /\ WorkInv /\ EffectInv

(* The usage row is locked by one worker, which has read it as it is.      *)
HeldRight(w) ==
    held[w] # None => held[w] = usage /\ \A v \in Workers \ {w} : held[v] = None

LockInv == LockTypes /\ \A w \in Workers : HeldRight(w)

SafeInv == IInv /\ LockInv

-----------------------------------------------------------------------------
(* Facts about rows and about the sets that are counted. *)

LEMMA RowFacts ==
    /\ \A m \in Messages : Deal(m) \in Rows
    /\ \A c \in Chats : Contact(c) \in Rows
    /\ \A k, m \in Messages : Deal(k) = Deal(m) => k = m
    /\ \A m \in Messages, c \in Chats : Deal(m) # Contact(c)
    /\ \A m \in Messages : m # None
BY DEF Rows, Deal, Contact, Messages

LEMMA CountFinite ==
    ASSUME NEW S, S \subseteq Messages
    PROVE  IsFiniteSet(S) /\ Cardinality(S) \in Nat
<1>1. IsFiniteSet(Messages) BY FS_Interval DEF Messages
<1> QED BY <1>1, FS_Subset, FS_CardinalityType

LEMMA CountOneMore ==
    ASSUME NEW S, S \subseteq Messages, NEW m, m \notin S
    PROVE  Cardinality(S \cup {m}) = Cardinality(S) + 1
BY CountFinite, FS_AddElement

LEMMA EnrichmentsFinite == IsFiniteSet(Enrichments) /\ Cardinality(Enrichments) \in Nat
<1>1. IsFiniteSet(Messages) BY FS_Interval DEF Messages
<1>2. IsFiniteSet({"contact", "details"})
  <2>1. IsFiniteSet({"contact"} \cup {"details"}) BY FS_Singleton, FS_Union
  <2>2. {"contact", "details"} = {"contact"} \cup {"details"} OBVIOUS
  <2> QED BY <2>1, <2>2
<1>3. IsFiniteSet(Messages \X {"contact", "details"}) BY <1>1, <1>2, FS_Product
<1>4. Enrichments \subseteq Messages \X {"contact", "details"} BY DEF Enrichments
<1> QED BY <1>3, <1>4, FS_Subset, FS_CardinalityType

-----------------------------------------------------------------------------
(* The initial state. *)

LEMMA InitInv == Init => SafeInv
<1> SUFFICES ASSUME Init PROVE SafeInv OBVIOUS
<1>1. QueueTypes /\ NewEvents /\ BoundTypes
  BY DEF Init, QueueTypes, NewEvents, BoundTypes, Statuses
<1>2. RowTypes BY DEF Init, RowTypes, Values
<1>3. RecordTypes BY DEF Init, RecordTypes, Results
<1>4. /\ \A m \in Messages : value[Deal(m)] = "none" /\ status[m] = "none"
      /\ \A m \in Messages, a \in Actions : rec[m][a] = "none"
      /\ \A m \in Messages, a \in {"contact", "details"} : enriched[m][a] = 0
      /\ usage.updates = 0 /\ usage.deals = 0 /\ usage.tasks = 0 /\ tasks = {}
  <2>1. \A m \in Messages : Deal(m) \in Rows /\ Deal(m)[1] = "deal"
    BY RowFacts DEF Deal
  <2> QED BY <2>1 DEF Init
<1>5. RecordsMatchEffects
  BY <1>4 DEF RecordsMatchEffects, Actions
<1>6. UsageWithinLimits
  <2>1. Cardinality({}) = 0 BY FS_EmptySet
  <2>2. {m \in Messages : value[Deal(m)] # "none"} = {} BY <1>4
  <2>3. \A c \in Chats : TasksOf(c) = {} BY <1>4 DEF TasksOf
  <2>4. \A n \in {DailyUpdates, DailyDeals, DailyTasks, TasksPerChat} : 0 <= n
    OBVIOUS
  <2>5. usage.updates <= DailyUpdates /\ usage.deals <= DailyDeals
        /\ usage.tasks <= DailyTasks
    BY <1>4, <2>4
  <2>6. Enrichments = {} BY <1>4 DEF Enrichments
  <2> QED BY <1>4, <2>1, <2>2, <2>3, <2>4, <2>5, <2>6 DEF UsageWithinLimits
<1>7. WorkInv
  <2>1. WorkerTypes BY DEF Init, WorkerTypes, Busy, Applying
  <2>2. WorkHasEvent BY DEF Init, WorkHasEvent, Busy, Applying
  <2>3. OneWorkerPerEvent BY DEF Init, OneWorkerPerEvent
  <2>4. \A w \in Workers : Stands(w)
    BY DEF Init, Stands, RecordsStand, AfterContact, AfterDeal, AfterDetails
  <2> QED BY <2>1, <2>2, <2>3, <2>4 DEF WorkInv
<1>8. LockInv BY DEF Init, LockInv, LockTypes, HeldRight
<1> QED BY <1>1, <1>2, <1>3, <1>5, <1>6, <1>7, <1>8 DEF SafeInv, IInv, EffectInv

-----------------------------------------------------------------------------
(* Messages arrive, time passes, chats are erased. *)

LEMMA QuietStep ==
    ASSUME IInv, QueueTypes', NewEvents', BoundTypes',
           UNCHANGED <<rec, crmVars, insightVars, usageVars, workerVars>>,
           \A m \in Messages : /\ status[m] = "processing" => status'[m] = "processing"
                               /\ status'[m] = "completed" => status[m] = "completed"
    PROVE  IInv'
<1> USE DEF crmVars, insightVars, usageVars, workerVars
<1>1. WorkerTypes' /\ WorkHasEvent' BY DEF IInv, WorkInv, WorkerTypes, WorkHasEvent
<1>2. OneWorkerPerEvent'
  BY DEF IInv, WorkInv, WorkerTypes, OneWorkerPerEvent
<1>3. \A w \in Workers : Stands(w)'
  BY DEF IInv, WorkInv, Stands, WriteStands, Target, RecordsStand
<1>4. RowTypes' /\ RecordTypes' BY DEF IInv, EffectInv, RowTypes, RecordTypes
<1>5. RecordsMatchEffects' BY DEF IInv, EffectInv, RecordsMatchEffects
<1>6. UsageWithinLimits' BY DEF IInv, EffectInv, UsageWithinLimits, TasksOf, Enrichments
<1> QED BY <1>1, <1>2, <1>3, <1>4, <1>5, <1>6 DEF IInv, WorkInv, EffectInv

LEMMA ArrivalStep == ASSUME IInv, Arrival PROVE IInv'
<1>0. QueueTypes /\ NewEvents /\ BoundTypes BY DEF IInv
<1>1. ASSUME NEW m \in Messages, Enqueue(m) PROVE IInv'
  <2>1. QueueTypes' /\ NewEvents'
    BY <1>0, <1>1 DEF Enqueue, QueueTypes, NewEvents, Statuses
  <2>2. BoundTypes' BY <1>0, <1>1 DEF Enqueue, BoundTypes
  <2> QED BY <1>0, <1>1, <2>1, <2>2, QuietStep DEF Enqueue, QueueTypes
<1>2. ASSUME NEW m \in Messages, BecomesDue(m) PROVE IInv'
  <2>1. QueueTypes' /\ NewEvents' /\ BoundTypes'
    BY <1>0, <1>2 DEF BecomesDue, QueueTypes, NewEvents, BoundTypes
  <2> QED BY <1>2, <2>1, QuietStep DEF BecomesDue
<1>3. ASSUME NEW c \in Chats, ThrottleEnds(c) PROVE IInv'
  <2>1. QueueTypes' /\ NewEvents' /\ BoundTypes'
    BY <1>0, <1>3 DEF ThrottleEnds, QueueTypes, NewEvents, BoundTypes
  <2> QED BY <1>3, <2>1, QuietStep DEF ThrottleEnds
<1> QED BY <1>1, <1>2, <1>3 DEF Arrival

(* The versions grow with every change, but for a deal that is created.    *)
Age ==
    \A r \in Rows : /\ version[r] <= version'[r]
                    /\ version'[r] = version[r] => value'[r] \in {value[r], "blank"}

LEMMA StandsAged ==
    ASSUME IInv, NEW v \in Workers, RowTypes', Age,
           pc'[v] = pc[v], ev'[v] = ev[v], deal'[v] = deal[v], seen'[v] = seen[v],
           ev[v] # None => rec'[ev[v]] = rec[ev[v]],
           insights \subseteq insights', applied \subseteq applied'
    PROVE  Stands(v)'
<1>0. Stands(v) /\ RowTypes BY DEF IInv, WorkInv, EffectInv
<1>1. pc[v] \in Busy <=> ev[v] # None BY DEF IInv, WorkInv, WorkHasEvent
<1>2. ASSUME NEW a \in {"contact", "details"}, WriteStands(v, a), ev[v] # None
      PROVE  WriteStands(v, a)'
  <2>1. Target(v, a)' = Target(v, a) BY DEF Target
  <2> DEFINE r == Target(v, a)
  <2>2. /\ r \in Rows /\ seen[v] \in Nat /\ seen[v] <= version[r]
        /\ seen[v] = version[r] => value[r] = "blank"
        /\ rec[ev[v]][a] = "none"
    BY <1>2 DEF WriteStands
  <2> HIDE DEF r
  <2>3. /\ version[r] \in Nat /\ version'[r] \in Nat /\ version[r] <= version'[r]
        /\ version'[r] = version[r] => value'[r] \in {value[r], "blank"}
    BY <1>0, <2>2 DEF Age, RowTypes
  <2>4. r' = r BY <2>1 DEF r
  <2>5. /\ seen'[v] <= version'[r]
        /\ seen'[v] = version'[r] => value'[r] = "blank"
    BY <2>2, <2>3
  <2> QED BY <1>2, <2>1, <2>2, <2>5 DEF WriteStands, r
<1>3. CASE ev[v] # None
  BY <1>0, <1>2, <1>3 DEF Stands, RecordsStand
<1>4. CASE ev[v] = None
  BY <1>1, <1>4
  DEF Stands, RecordsStand, Busy, Applying, AfterContact, AfterDeal, AfterDetails
<1> QED BY <1>3, <1>4

LEMMA ManagerStep == ASSUME IInv, Manager PROVE IInv'
<1>0. QueueTypes /\ NewEvents /\ BoundTypes /\ WorkInv /\ EffectInv BY DEF IInv
<1>1. ASSUME NEW r \in Rows, NEW x \in {"manager", "blank", "gone"}, EditRow(r, x)
      PROVE  IInv'
  <2>1. /\ value' = [value EXCEPT ![r] = x] /\ version' = [version EXCEPT ![r] = @ + 1]
        /\ value[r] # "none" /\ changes < MaxChanges /\ changes' = changes + 1
        /\ UNCHANGED <<menu, erased, status, attempts, waiting, fresh, rec, tasks,
                       insights, applied, usage, enriched, pc, batch, ev, deal,
                       seen, faults>>
    BY <1>1 DEF EditRow, Change, queueVars, insightVars, usageVars, workerVars
  <2>2. RowTypes' /\ Age
    <3>1. RowTypes BY <1>0 DEF EffectInv
    <3>2. RowTypes' BY <2>1, <3>1 DEF RowTypes, Values
    <3>3. \A y \in Rows : /\ version[y] \in Nat
                          /\ version'[y] = IF y = r THEN version[y] + 1 ELSE version[y]
                          /\ y # r => value'[y] = value[y]
      BY <2>1, <3>1 DEF RowTypes
    <3> QED BY <3>2, <3>3 DEF Age
  <2>3. \A m \in Messages : value'[Deal(m)] = "none" <=> value[Deal(m)] = "none"
    BY <1>0, <2>1, RowFacts DEF EffectInv, RowTypes
  <2>4. RecordsMatchEffects'
    BY <1>0, <2>1, <2>3 DEF EffectInv, RecordsMatchEffects
  <2>5. {m \in Messages : value'[Deal(m)] # "none"}
            = {m \in Messages : value[Deal(m)] # "none"}
    BY <2>3
  <2>6. UsageWithinLimits'
    BY <1>0, <2>1, <2>5 DEF EffectInv, UsageWithinLimits, TasksOf, Enrichments
  <2>7. RecordTypes' BY <1>0, <2>1 DEF EffectInv, RecordTypes
  <2>8. \A v \in Workers : Stands(v)' BY <2>1, <2>2, StandsAged
  <2>9. WorkInv'
    BY <1>0, <2>1, <2>8 DEF WorkInv, WorkerTypes, WorkHasEvent, OneWorkerPerEvent
  <2>10. QueueTypes' /\ NewEvents' /\ BoundTypes'
    BY <1>0, <2>1 DEF QueueTypes, NewEvents, BoundTypes
  <2> QED BY <2>2, <2>4, <2>6, <2>7, <2>9, <2>10 DEF IInv, EffectInv
<1>2. ASSUME NEW c \in Chats, EraseMessages(c) PROVE IInv'
  <2>1. QueueTypes' /\ NewEvents' /\ BoundTypes'
    BY <1>0, <1>2 DEF EraseMessages, Change, queueVars, QueueTypes, NewEvents, BoundTypes
  <2> QED BY <1>2, <2>1, QuietStep DEF EraseMessages, queueVars
<1> QED BY <1>1, <1>2 DEF Manager

-----------------------------------------------------------------------------
(* A worker takes events and leaves them. *)

(* A worker that leaves its event, or had none. *)
LEMMA LeaveStep ==
    ASSUME IInv, NEW w \in Workers, NEW rest \in SUBSET Messages,
           pc' = [pc EXCEPT ![w] = IF rest = {} THEN "idle" ELSE "next"],
           batch' = [batch EXCEPT ![w] = rest],
           ev' = [ev EXCEPT ![w] = None],
           deal' = [deal EXCEPT ![w] = None],
           seen' = [seen EXCEPT ![w] = None],
           UNCHANGED <<rec, crmVars, insightVars, usageVars>>,
           QueueTypes', NewEvents', BoundTypes',
           \A v \in Workers \ {w} : ev[v] # None => status'[ev[v]] = "processing",
           \A m \in Messages : status'[m] = "completed" =>
               status[m] = "completed" \/ \A a \in Actions : rec[m][a] # "none"
    PROVE  IInv'
<1> USE DEF crmVars, insightVars, usageVars
<1>0. WorkInv /\ EffectInv /\ WorkerTypes BY DEF IInv, WorkInv
<1>1. WorkerTypes' BY <1>0 DEF WorkerTypes
<1>2. /\ pc'[w] \in {"idle", "next"} /\ ev'[w] = None
      /\ \A v \in Workers \ {w} : /\ pc'[v] = pc[v] /\ ev'[v] = ev[v]
                                   /\ deal'[v] = deal[v] /\ seen'[v] = seen[v]
  BY <1>0 DEF WorkerTypes
<1>3. WorkHasEvent' /\ OneWorkerPerEvent'
  <2>1. ASSUME NEW v \in Workers PROVE pc'[v] \in Busy <=> ev'[v] # None
    <3>1. pc[v] \in Busy <=> ev[v] # None BY <1>0 DEF WorkInv, WorkHasEvent
    <3>2. "idle" \notin Busy /\ "next" \notin Busy BY DEF Busy, Applying
    <3>3. CASE v = w BY <1>2, <3>2, <3>3
    <3>4. CASE v # w BY <1>2, <3>1, <3>4
    <3> QED BY <3>3, <3>4
  <2>2. OneWorkerPerEvent' BY <1>0, <1>2 DEF WorkInv, OneWorkerPerEvent
  <2> QED BY <2>1, <2>2 DEF WorkHasEvent
<1>4. Stands(w)'
  BY <1>2 DEF Stands, RecordsStand, AfterContact, AfterDeal, AfterDetails
<1>5. RowTypes' /\ RecordTypes' /\ Age
  <2>1. RowTypes' /\ RecordTypes' BY <1>0 DEF EffectInv, RowTypes, RecordTypes
  <2>2. \A r \in Rows : version[r] \in Nat BY <1>0 DEF EffectInv, RowTypes
  <2> QED BY <2>1, <2>2 DEF Age
<1>6. \A v \in Workers \ {w} : Stands(v)' BY <1>2, <1>5, StandsAged
<1>7. RecordsMatchEffects'
  BY <1>0 DEF EffectInv, RecordsMatchEffects
<1>8. UsageWithinLimits' BY <1>0 DEF EffectInv, UsageWithinLimits, TasksOf, Enrichments
<1> QED BY <1>1, <1>3, <1>4, <1>5, <1>6, <1>7, <1>8 DEF IInv, WorkInv, EffectInv

LEMMA SelectStep == ASSUME IInv, NEW w \in Workers, SelectEvents(w) PROVE IInv'
<1> USE DEF SelectEvents, queueVars, crmVars, insightVars, usageVars
<1>0. QueueTypes /\ NewEvents /\ BoundTypes /\ WorkInv /\ EffectInv /\ WorkerTypes
  BY DEF IInv, WorkInv
<1>1. QueueTypes' /\ NewEvents' /\ BoundTypes'
  BY <1>0 DEF QueueTypes, NewEvents, BoundTypes
<1>2. RowTypes' /\ RecordTypes' /\ Age
  <2>1. RowTypes' /\ RecordTypes' BY <1>0 DEF EffectInv, RowTypes, RecordTypes
  <2>2. \A r \in Rows : version[r] \in Nat BY <1>0 DEF EffectInv, RowTypes
  <2> QED BY <2>1, <2>2 DEF Age
<1>3. RecordsMatchEffects' /\ UsageWithinLimits'
  <2>1. RecordsMatchEffects' BY <1>0 DEF EffectInv, RecordsMatchEffects
  <2>2. UsageWithinLimits' BY <1>0 DEF EffectInv, UsageWithinLimits, TasksOf, Enrichments
  <2> QED BY <2>1, <2>2
<1>4. WorkerTypes' BY <1>0 DEF WorkerTypes, Pending
<1>5. pc'[w] = "next" /\ \A v \in Workers \ {w} : pc'[v] = pc[v]
  BY <1>0 DEF WorkerTypes
<1>6. WorkHasEvent' BY <1>0, <1>5 DEF WorkInv, WorkHasEvent, Busy, Applying
<1>7. OneWorkerPerEvent' BY <1>0 DEF WorkInv, OneWorkerPerEvent
<1>8. Stands(w)'
  BY <1>5 DEF Stands, RecordsStand, AfterContact, AfterDeal, AfterDetails
<1>9. \A v \in Workers \ {w} : Stands(v)' BY <1>2, <1>5, StandsAged
<1> QED BY <1>1, <1>2, <1>3, <1>4, <1>6, <1>7, <1>8, <1>9 DEF IInv, WorkInv, EffectInv

LEMMA SkipEventStep ==
    ASSUME IInv, NEW w \in Workers, NEW m \in Messages, SkipEvent(w, m) PROVE IInv'
<1>0. QueueTypes /\ NewEvents /\ BoundTypes /\ WorkerTypes /\ OneWorkerPerEvent
  BY DEF IInv, WorkInv
<1>1. QueueTypes' /\ NewEvents' /\ BoundTypes'
  BY <1>0 DEF SkipEvent, queueVars, QueueTypes, NewEvents, BoundTypes
<1>2. batch[w] \ {m} \in SUBSET Messages BY <1>0 DEF WorkerTypes
<1>3. \A v \in Workers \ {w} : ev[v] # None => status'[ev[v]] = "processing"
  BY <1>0 DEF SkipEvent, queueVars, OneWorkerPerEvent
<1> QED BY <1>1, <1>2, <1>3, LeaveStep DEF SkipEvent, queueVars, Proceed

LEMMA ThrottleStep ==
    ASSUME IInv, NEW w \in Workers, NEW m \in Messages, ThrottleEvent(w, m) PROVE IInv'
<1>0. QueueTypes /\ NewEvents /\ BoundTypes /\ WorkerTypes /\ OneWorkerPerEvent
  BY DEF IInv, WorkInv
<1>1. QueueTypes' /\ NewEvents' /\ BoundTypes'
  BY <1>0 DEF ThrottleEvent, Claimable, QueueTypes, NewEvents, BoundTypes
<1>2. batch[w] \ {m} \in SUBSET Messages BY <1>0 DEF WorkerTypes
<1>3. \A v \in Workers \ {w} : ev[v] # None => status'[ev[v]] = "processing"
  BY <1>0 DEF ThrottleEvent, OneWorkerPerEvent
<1> QED BY <1>1, <1>2, <1>3, LeaveStep DEF ThrottleEvent, Proceed

LEMMA IgnoreStep ==
    ASSUME IInv, NEW w \in Workers, NEW m \in Messages, IgnoreEvent(w, m) PROVE IInv'
<1>0. QueueTypes /\ NewEvents /\ BoundTypes /\ WorkerTypes /\ OneWorkerPerEvent
  BY DEF IInv, WorkInv
<1>1. QueueTypes' /\ NewEvents' /\ BoundTypes'
  BY <1>0 DEF IgnoreEvent, Claimable, QueueTypes, NewEvents, BoundTypes, Statuses
<1>2. batch[w] \ {m} \in SUBSET Messages BY <1>0 DEF WorkerTypes
<1>3. \A v \in Workers \ {w} : ev[v] # None => status'[ev[v]] = "processing"
  BY <1>0 DEF IgnoreEvent, Claimable, OneWorkerPerEvent, QueueTypes, WorkerTypes
<1>4. \A k \in Messages : status'[k] = "completed" => status[k] = "completed"
  BY <1>0 DEF IgnoreEvent, QueueTypes
<1> QED BY <1>1, <1>2, <1>3, <1>4, LeaveStep DEF IgnoreEvent, Proceed

(* The outcome of an event is written by the worker that holds it alone.   *)
LEMMA HeldAlone ==
    ASSUME IInv, NEW w \in Workers, pc[w] \in Busy
    PROVE  /\ ev[w] \in Messages /\ status[ev[w]] = "processing"
           /\ \A v \in Workers \ {w} : ev[v] # ev[w]
BY DEF IInv, WorkInv, WorkHasEvent, WorkerTypes, OneWorkerPerEvent

LEMMA CompleteStep == ASSUME IInv, NEW w \in Workers, CompleteEvent(w) PROVE IInv'
<1>0. QueueTypes /\ NewEvents /\ BoundTypes /\ WorkerTypes /\ OneWorkerPerEvent
  BY DEF IInv, WorkInv
<1>1. /\ ev[w] \in Messages /\ status[ev[w]] = "processing"
      /\ \A v \in Workers \ {w} : ev[v] # ev[w]
  BY HeldAlone DEF CompleteEvent, Busy
<1>2. QueueTypes' /\ NewEvents' /\ BoundTypes'
  BY <1>0, <1>1 DEF CompleteEvent, QueueTypes, NewEvents, BoundTypes, Statuses
<1>3. batch[w] \ {ev[w]} \in SUBSET Messages BY <1>0 DEF WorkerTypes
<1>4. \A v \in Workers \ {w} : ev[v] # None => status'[ev[v]] = "processing"
  BY <1>0, <1>1 DEF CompleteEvent, OneWorkerPerEvent, QueueTypes, WorkerTypes
<1>5. \A a \in Actions : rec[ev[w]][a] # "none"
  <2>1. RecordsStand(w) BY DEF IInv, WorkInv, Stands
  <2> QED BY <2>1 DEF CompleteEvent, RecordsStand, AfterContact, AfterDeal,
                      AfterDetails, Actions
<1>6. \A k \in Messages : status'[k] = "completed" =>
          status[k] = "completed" \/ \A a \in Actions : rec[k][a] # "none"
  BY <1>0, <1>5 DEF CompleteEvent, QueueTypes
<1> QED BY <1>2, <1>3, <1>4, <1>6, LeaveStep DEF CompleteEvent, Proceed

LEMMA RejectStep == ASSUME IInv, NEW w \in Workers, RejectEvent(w) PROVE IInv'
<1>0. QueueTypes /\ NewEvents /\ BoundTypes /\ WorkerTypes /\ OneWorkerPerEvent
  BY DEF IInv, WorkInv
<1>1. /\ ev[w] \in Messages /\ status[ev[w]] = "processing"
      /\ \A v \in Workers \ {w} : ev[v] # ev[w]
  BY HeldAlone DEF RejectEvent, Busy
<1>2. QueueTypes' /\ NewEvents' /\ BoundTypes'
  BY <1>0, <1>1 DEF RejectEvent, QueueTypes, NewEvents, BoundTypes, Statuses
<1>3. batch[w] \ {ev[w]} \in SUBSET Messages BY <1>0 DEF WorkerTypes
<1>4. \A v \in Workers \ {w} : ev[v] # None => status'[ev[v]] = "processing"
  BY <1>0, <1>1 DEF RejectEvent, OneWorkerPerEvent, QueueTypes, WorkerTypes
<1>5. \A k \in Messages : status'[k] = "completed" => status[k] = "completed"
  BY <1>0 DEF RejectEvent, QueueTypes
<1> QED BY <1>2, <1>3, <1>4, <1>5, LeaveStep DEF RejectEvent, Proceed

LEMMA TechnicalStep == ASSUME IInv, NEW w \in Workers, MarkTechnical(w) PROVE IInv'
<1>0. QueueTypes /\ NewEvents /\ BoundTypes /\ WorkerTypes /\ OneWorkerPerEvent
  BY DEF IInv, WorkInv
<1>1. /\ ev[w] \in Messages /\ status[ev[w]] = "processing"
      /\ \A v \in Workers \ {w} : ev[v] # ev[w]
  BY HeldAlone DEF MarkTechnical, Busy
<1>2. /\ status' \in [Messages -> Statuses]
      /\ status'[ev[w]] \in {"pending", "failed"}
      /\ status'[ev[w]] = "pending" => Retried(ev[w])
      /\ \A k \in Messages \ {ev[w]} : status'[k] = status[k]
      /\ waiting' \subseteq waiting \cup {ev[w]}
      /\ ev[w] \in waiting' => status'[ev[w]] = "pending"
  BY <1>0, <1>1 DEF MarkTechnical, QueueTypes, Statuses
<1>3. QueueTypes' /\ NewEvents' /\ BoundTypes'
  BY <1>0, <1>1, <1>2
  DEF MarkTechnical, Retried, QueueTypes, NewEvents, BoundTypes
<1>4. batch[w] \ {ev[w]} \in SUBSET Messages BY <1>0 DEF WorkerTypes
<1>5. \A v \in Workers \ {w} : ev[v] # None => status'[ev[v]] = "processing"
  BY <1>0, <1>1, <1>2 DEF OneWorkerPerEvent, WorkerTypes
<1>6. \A k \in Messages : status'[k] = "completed" => status[k] = "completed"
  BY <1>0, <1>1, <1>2
<1> QED BY <1>3, <1>4, <1>5, <1>6, LeaveStep DEF MarkTechnical, Proceed

LEMMA DeathStep == ASSUME IInv, NEW w \in Workers, WorkerDies(w) PROVE IInv'
<1>0. QueueTypes /\ NewEvents /\ BoundTypes /\ WorkerTypes /\ OneWorkerPerEvent
  BY DEF IInv, WorkInv
<1>1. QueueTypes' /\ NewEvents' /\ BoundTypes'
  BY <1>0 DEF WorkerDies, Fault, queueVars, QueueTypes, NewEvents, BoundTypes
<1>2. \A v \in Workers \ {w} : ev[v] # None => status'[ev[v]] = "processing"
  BY <1>0 DEF WorkerDies, queueVars, OneWorkerPerEvent
<1>3. /\ {} \in SUBSET Messages
      /\ pc' = [pc EXCEPT ![w] = IF {} = {} THEN "idle" ELSE "next"]
      /\ batch' = [batch EXCEPT ![w] = {}]
      /\ ev' = [ev EXCEPT ![w] = None] /\ deal' = [deal EXCEPT ![w] = None]
      /\ seen' = [seen EXCEPT ![w] = None]
      /\ UNCHANGED <<status, rec, crmVars, insightVars, usageVars>>
  BY DEF WorkerDies, queueVars, Proceed
<1> QED BY <1>1, <1>2, <1>3, LeaveStep

-----------------------------------------------------------------------------
(* What the steps within an event have in common. *)

LEMMA RecordSet ==
    ASSUME RecordTypes, NEW m \in Messages, NEW a \in Actions, NEW x \in Results,
           rec' = [rec EXCEPT ![m][a] = x]
    PROVE  /\ rec' \in [Messages -> [Actions -> Results]]
           /\ rec'[m][a] = x
           /\ \A b \in Actions \ {a} : rec'[m][b] = rec[m][b]
           /\ \A k \in Messages \ {m} : rec'[k] = rec[k]
<1>1. rec \in [Messages -> [Actions -> Results]] BY DEF RecordTypes
<1>2. [rec[m] EXCEPT ![a] = x] \in [Actions -> Results] BY <1>1
<1>3. rec' = [rec EXCEPT ![m] = [rec[m] EXCEPT ![a] = x]] BY <1>1
<1> QED BY <1>1, <1>2, <1>3

(* A worker at an action goes on, or is stopped, with its event in hand.   *)
LEMMA ActStep ==
    ASSUME IInv, NEW w \in Workers, NEW p \in Busy,
           pc[w] \in Busy,
           pc' = [pc EXCEPT ![w] = p],
           UNCHANGED <<menu, erased, queueVars, batch, ev, changes>>,
           faults' \in 0 .. MaxTroubles,
           NEW d \in Rows \cup {None}, deal' = [deal EXCEPT ![w] = d],
           NEW n \in Nat \cup {None}, seen' = [seen EXCEPT ![w] = n],
           insights \subseteq insights', applied \subseteq applied',
           \A k \in Messages \ {ev[w]} : rec'[k] = rec[k],
           Age, EffectInv', Stands(w)'
    PROVE  IInv'
<1>0. QueueTypes /\ NewEvents /\ BoundTypes /\ WorkInv /\ WorkerTypes
  BY DEF IInv, WorkInv
<1>1. QueueTypes' /\ NewEvents' /\ BoundTypes'
  BY <1>0 DEF queueVars, QueueTypes, NewEvents, BoundTypes
<1>2. WorkerTypes' BY <1>0 DEF WorkerTypes
<1>3. /\ pc'[w] = p
      /\ \A v \in Workers \ {w} : /\ pc'[v] = pc[v] /\ ev'[v] = ev[v]
                                   /\ deal'[v] = deal[v] /\ seen'[v] = seen[v]
  BY <1>0 DEF WorkerTypes
<1>4. WorkHasEvent' BY <1>0, <1>3 DEF WorkInv, WorkHasEvent
<1>5. OneWorkerPerEvent' BY <1>0 DEF WorkInv, OneWorkerPerEvent, queueVars
<1>6. ASSUME NEW v \in Workers \ {w} PROVE Stands(v)'
  <2>1. RowTypes' BY DEF EffectInv
  <2>2. ev[v] # None => rec'[ev[v]] = rec[ev[v]]
    BY <1>0, HeldAlone DEF WorkerTypes
  <2> QED BY <1>3, <2>1, <2>2, StandsAged
<1> QED BY <1>1, <1>2, <1>4, <1>5, <1>6 DEF IInv, WorkInv

(* Without a change of a row nothing ages. *)
LEMMA NoAge == ASSUME RowTypes, UNCHANGED <<value, version>> PROVE Age
BY DEF RowTypes, Age

(* Rows and counters as they are, and no record of what was not done.      *)
LEMMA EffectsKept ==
    ASSUME EffectInv, rec' \in [Messages -> [Actions -> Results]],
           UNCHANGED <<crmVars, usageVars, status>>,
           insights' \subseteq Messages, applied' \subseteq insights',
           applied \subseteq applied',
           \A m \in Messages, a \in Actions :
               /\ rec[m][a] # "none" => rec'[m][a] # "none"
               /\ rec[m][a] = "done" => rec'[m][a] = "done"
               /\ rec'[m][a] = "done" =>
                      rec[m][a] = "done" \/ (a = "insight" /\ m \in applied')
    PROVE  EffectInv'
<1> USE DEF crmVars, usageVars
<1>1. RowTypes' /\ RecordTypes' BY DEF EffectInv, RowTypes, RecordTypes
<1>2. UsageWithinLimits' BY DEF EffectInv, UsageWithinLimits, TasksOf, Enrichments
<1>3. ASSUME NEW m \in Messages
      PROVE  /\ rec'[m]["deal"] = "done" <=> value'[Deal(m)] # "none"
             /\ rec'[m]["task"] = "done" <=> m \in tasks'
             /\ rec'[m]["insight"] = "done" => m \in applied'
             /\ status'[m] = "completed" => \A a \in Actions : rec'[m][a] # "none"
  <2>1. /\ rec[m]["deal"] = "done" <=> value[Deal(m)] # "none"
        /\ rec[m]["task"] = "done" <=> m \in tasks
        /\ rec[m]["insight"] = "done" => m \in applied
        /\ status[m] = "completed" => \A a \in Actions : rec[m][a] # "none"
    BY DEF EffectInv, RecordsMatchEffects
  <2>2. "deal" \in Actions /\ "task" \in Actions /\ "insight" \in Actions BY DEF Actions
  <2>3. rec'[m]["deal"] = "done" <=> rec[m]["deal"] = "done" BY <2>2
  <2>4. rec'[m]["task"] = "done" <=> rec[m]["task"] = "done" BY <2>2
  <2>5. rec'[m]["insight"] = "done" => m \in applied' BY <2>1, <2>2
  <2>6. status'[m] = "completed" => \A a \in Actions : rec'[m][a] # "none" BY <2>1
  <2> QED BY <2>1, <2>3, <2>4, <2>5, <2>6
<1>4. ASSUME NEW m \in Messages, NEW a \in {"contact", "details"}
      PROVE  enriched'[m][a] = IF rec'[m][a] = "done" THEN 1 ELSE 0
  <2>1. enriched[m][a] = IF rec[m][a] = "done" THEN 1 ELSE 0
    BY DEF EffectInv, RecordsMatchEffects
  <2>2. a \in Actions /\ a # "insight" BY DEF Actions
  <2>3. rec'[m][a] = "done" <=> rec[m][a] = "done" BY <2>2
  <2> QED BY <2>1, <2>3
<1>5. RecordsMatchEffects' BY <1>3, <1>4 DEF RecordsMatchEffects
<1> QED BY <1>1, <1>2, <1>5 DEF EffectInv

(* An action is skipped, or was recorded by an earlier attempt.            *)
LEMMA SkipEffect ==
    ASSUME IInv, NEW w \in Workers, NEW m \in Messages, NEW a \in Actions,
           SkipAction(w, m, a), UNCHANGED <<crmVars, insightVars, usageVars, status>>
    PROVE  /\ EffectInv'
           /\ rec'[m][a] # "none"
           /\ \A b \in Actions \ {a} : rec'[m][b] = rec[m][b]
           /\ \A k \in Messages \ {m} : rec'[k] = rec[k]
           /\ pc' = [pc EXCEPT ![w] = Following(a)]
<1>0. EffectInv /\ RecordTypes BY DEF IInv, EffectInv
<1>1. pc' = [pc EXCEPT ![w] = Following(a)] BY DEF SkipAction, GoTo
<1>2. CASE AlreadyProcessed(m, a)
  <2>1. rec' = rec BY <1>2 DEF SkipAction
  <2>2. /\ insights' \subseteq Messages /\ applied' = applied
        /\ applied' \subseteq insights' /\ rec' \in [Messages -> [Actions -> Results]]
    BY <1>0, <2>1 DEF RecordTypes, insightVars
  <2>3. EffectInv' BY <1>0, <2>1, <2>2, EffectsKept
  <2> QED BY <1>1, <1>2, <2>1, <2>3 DEF AlreadyProcessed
<1>3. CASE ~AlreadyProcessed(m, a)
  <2>1. rec' = [rec EXCEPT ![m][a] = "skipped"] BY <1>3 DEF SkipAction
  <2>2. /\ rec' \in [Messages -> [Actions -> Results]]
        /\ rec'[m][a] = "skipped"
        /\ \A b \in Actions \ {a} : rec'[m][b] = rec[m][b]
        /\ \A k \in Messages \ {m} : rec'[k] = rec[k]
    BY <1>0, <2>1, RecordSet DEF Results
  <2>3. rec[m][a] = "none" BY <1>3 DEF AlreadyProcessed
  <2>4. \A k \in Messages, b \in Actions :
            /\ rec[k][b] # "none" => rec'[k][b] # "none"
            /\ rec'[k][b] = "done" <=> rec[k][b] = "done"
    BY <2>2, <2>3
  <2>5. insights' \subseteq Messages /\ applied' = applied /\ applied' \subseteq insights'
    BY <1>0 DEF RecordTypes, insightVars
  <2>6. EffectInv' BY <1>0, <2>2, <2>4, <2>5, EffectsKept
  <2> QED BY <1>1, <2>2, <2>6
<1> QED BY <1>2, <1>3

(* Whoever leaves an action for a failure has nothing to answer for.       *)
LEMMA StoppedStands ==
    ASSUME NEW w \in Workers, WorkerTypes, NEW p \in {"rejecting", "failing"},
           pc' = [pc EXCEPT ![w] = p]
    PROVE  Stands(w)'
<1>1. pc'[w] = p BY DEF WorkerTypes
<1> QED BY <1>1 DEF Stands, RecordsStand, AfterContact, AfterDeal, AfterDetails

LEMMA StopStep ==
    ASSUME IInv, NEW w \in Workers, pc[w] \in Applying,
           NEW p \in {"rejecting", "failing"}, pc' = [pc EXCEPT ![w] = p],
           faults' \in 0 .. MaxTroubles,
           NEW d \in Rows \cup {None}, deal' = [deal EXCEPT ![w] = d],
           NEW n \in Nat \cup {None}, seen' = [seen EXCEPT ![w] = n],
           UNCHANGED <<menu, erased, queueVars, rec, crmVars, insightVars, usageVars,
                       batch, ev, changes>>
    PROVE  IInv'
<1>0. WorkerTypes /\ EffectInv /\ RowTypes /\ RecordTypes
  BY DEF IInv, WorkInv, EffectInv
<1>1. EffectInv'
  <2>1. /\ insights' \subseteq Messages /\ applied' = applied
        /\ applied' \subseteq insights' /\ rec' \in [Messages -> [Actions -> Results]]
        /\ rec' = rec /\ status' = status
    BY <1>0 DEF RecordTypes, insightVars, queueVars
  <2> QED BY <1>0, <2>1, EffectsKept
<1>2. Stands(w)' BY <1>0, StoppedStands
<1>3. Age BY <1>0, NoAge DEF crmVars
<1>4. p \in Busy /\ pc[w] \in Busy BY DEF Busy
<1> QED BY <1>1, <1>2, <1>3, <1>4, ActStep DEF insightVars

(* The steps of a worker at action a. *)
At(a) == CASE a = "contact" -> {"contact", "writing contact"}
           [] a = "deal" -> {"deal", "writing deal"}
           [] a = "details" -> {"details", "writing details"}
           [] a = "task" -> {"task", "writing task"}
           [] a = "insight" -> {"insight", "recording"}

LEMMA AtBusy ==
    ASSUME NEW a \in Actions
    PROVE  At(a) \subseteq Applying /\ Applying \subseteq Busy /\ Following(a) \in Busy
BY DEF At, Applying, Busy, Actions, Following

LEMMA Keeps ==
    ASSUME IInv, NEW w \in Workers
    PROVE  /\ deal = [deal EXCEPT ![w] = deal[w]] /\ deal[w] \in Rows \cup {None}
           /\ seen = [seen EXCEPT ![w] = seen[w]] /\ seen[w] \in Nat \cup {None}
           /\ faults \in 0 .. MaxTroubles
           /\ Fault => faults' \in 0 .. MaxTroubles
<1>1. WorkerTypes /\ BoundTypes BY DEF IInv, WorkInv
<1>2. Fault => faults' \in 0 .. MaxTroubles
  BY <1>1 DEF BoundTypes, Fault
<1> QED BY <1>1, <1>2 DEF WorkerTypes, BoundTypes

(* With its record the next action has all the records before it. *)
LEMMA NextStands ==
    ASSUME IInv, NEW w \in Workers, NEW a \in Actions, pc[w] \in At(a), ev' = ev,
           rec'[ev[w]][a] # "none",
           \A b \in Actions \ {a} : rec'[ev[w]][b] = rec[ev[w]][b],
           pc' = [pc EXCEPT ![w] = Following(a)]
    PROVE  Stands(w)'
<1>1. RecordsStand(w) /\ WorkerTypes BY DEF IInv, WorkInv, Stands
<1>2. pc'[w] = Following(a) BY <1>1 DEF WorkerTypes
<1> DEFINE old == rec[ev[w]]
           new == rec'[ev[w]]
<1>3. RecordsStand(w)'
  <2>1. new[a] # "none" /\ \A b \in Actions : old[b] # "none" => new[b] # "none"
    OBVIOUS
  <2>2. ev'[w] = ev[w] OBVIOUS
  <2>3. CASE a = "contact"
    <3>1. pc[w] \in {"contact", "writing contact"} /\ pc'[w] = "deal"
      BY <1>2, <2>3 DEF At, Following
    <3>3. new["contact"] # "none"
      BY <2>1, <2>3 DEF Actions
    <3> HIDE DEF new
    <3> QED BY <2>2, <3>1, <3>3 DEF RecordsStand, AfterContact, AfterDeal, AfterDetails, new
  <2>4. CASE a = "deal"
    <3>1. pc[w] \in {"deal", "writing deal"} /\ pc'[w] = "details"
      BY <1>2, <2>4 DEF At, Following
    <3>2. old["contact"] # "none"
      BY <1>1, <3>1 DEF RecordsStand, AfterContact, AfterDeal, AfterDetails
    <3>3. /\ new["contact"] # "none"
          /\ new["deal"] # "none"
      BY <2>1, <2>4, <3>2 DEF Actions
    <3> HIDE DEF new
    <3> QED BY <2>2, <3>1, <3>3 DEF RecordsStand, AfterContact, AfterDeal, AfterDetails, new
  <2>5. CASE a = "details"
    <3>1. pc[w] \in {"details", "writing details"} /\ pc'[w] = "task"
      BY <1>2, <2>5 DEF At, Following
    <3>2. old["contact"] # "none" /\ old["deal"] # "none"
      BY <1>1, <3>1 DEF RecordsStand, AfterContact, AfterDeal, AfterDetails
    <3>3. /\ new["contact"] # "none"
          /\ new["deal"] # "none"
          /\ new["details"] # "none"
      BY <2>1, <2>5, <3>2 DEF Actions
    <3> HIDE DEF new
    <3> QED BY <2>2, <3>1, <3>3 DEF RecordsStand, AfterContact, AfterDeal, AfterDetails, new
  <2>6. CASE a = "task"
    <3>1. pc[w] \in {"task", "writing task"} /\ pc'[w] = "insight"
      BY <1>2, <2>6 DEF At, Following
    <3>2. old["contact"] # "none" /\ old["deal"] # "none" /\ old["details"] # "none"
      BY <1>1, <3>1 DEF RecordsStand, AfterContact, AfterDeal, AfterDetails
    <3>3. /\ new["contact"] # "none"
          /\ new["deal"] # "none"
          /\ new["details"] # "none"
          /\ new["task"] # "none"
      BY <2>1, <2>6, <3>2 DEF Actions
    <3> HIDE DEF new
    <3> QED BY <2>2, <3>1, <3>3 DEF RecordsStand, AfterContact, AfterDeal, AfterDetails, new
  <2>7. CASE a = "insight"
    <3>1. pc[w] \in {"insight", "recording"} /\ pc'[w] = "completing"
      BY <1>2, <2>7 DEF At, Following
    <3>2. /\ old["contact"] # "none" /\ old["deal"] # "none"
          /\ old["details"] # "none" /\ old["task"] # "none"
      BY <1>1, <3>1 DEF RecordsStand, AfterContact, AfterDeal, AfterDetails
    <3>3. /\ new["contact"] # "none"
          /\ new["deal"] # "none"
          /\ new["details"] # "none"
          /\ new["task"] # "none"
          /\ new["insight"] # "none"
      BY <2>1, <2>7, <3>2 DEF Actions
    <3> HIDE DEF new
    <3> QED BY <2>2, <3>1, <3>3 DEF RecordsStand, AfterContact, AfterDeal, AfterDetails, new
  <2> QED BY <2>3, <2>4, <2>5, <2>6, <2>7 DEF Actions
<1>4. pc'[w] \in {"deal", "details", "task", "insight", "completing"}
  BY <1>2 DEF Following, Actions
<1> QED BY <1>3, <1>4 DEF Stands

(* A commit whose broadcast was heard or was not. *)
LEMMA CommittedStands ==
    ASSUME IInv, NEW w \in Workers, NEW a \in Actions, pc[w] \in At(a), ev' = ev,
           rec'[ev[w]][a] # "none",
           \A b \in Actions \ {a} : rec'[ev[w]][b] = rec[ev[w]][b],
           Committed(w, Following(a))
    PROVE  /\ Stands(w)'
           /\ faults' \in 0 .. MaxTroubles
           /\ \E p \in Busy : pc' = [pc EXCEPT ![w] = p]
<1>1. CASE GoTo(w, Following(a)) /\ UNCHANGED faults
  BY <1>1, NextStands, AtBusy, Keeps DEF GoTo
<1>2. CASE GoTo(w, "failing") /\ Fault
  <2>1. WorkerTypes BY DEF IInv, WorkInv
  <2>2. pc' = [pc EXCEPT ![w] = "failing"] BY <1>2 DEF GoTo
  <2>3. Stands(w)' BY <2>1, <2>2, StoppedStands
  <2> QED BY <1>2, <2>2, <2>3, Keeps DEF Busy
<1> QED BY <1>1, <1>2 DEF Committed

(* A skipped action, whatever it leaves in active_deal and seen. *)
LEMMA SkipStep ==
    ASSUME IInv, NEW w \in Workers, NEW a \in Actions, pc[w] \in At(a),
           SkipAction(w, ev[w], a),
           NEW d \in Rows \cup {None}, deal' = [deal EXCEPT ![w] = d],
           NEW n \in Nat \cup {None}, seen' = [seen EXCEPT ![w] = n],
           UNCHANGED <<menu, erased, queueVars, crmVars, insightVars, usageVars, batch,
                       ev, faults, changes>>
    PROVE  IInv'
<1>1. pc[w] \in Busy /\ Following(a) \in Busy BY AtBusy
<1>2. ev[w] \in Messages BY <1>1, HeldAlone
<1>3. status' = status BY DEF queueVars
<1>4. /\ EffectInv'
      /\ rec'[ev[w]][a] # "none"
      /\ \A b \in Actions \ {a} : rec'[ev[w]][b] = rec[ev[w]][b]
      /\ \A k \in Messages \ {ev[w]} : rec'[k] = rec[k]
      /\ pc' = [pc EXCEPT ![w] = Following(a)]
  BY <1>2, <1>3, SkipEffect
<1>5. Stands(w)' BY <1>4, NextStands
<1>6. Age
  <2>1. RowTypes BY DEF IInv, EffectInv
  <2> QED BY <2>1, NoAge DEF crmVars
<1>7. insights \subseteq insights' /\ applied \subseteq applied' BY DEF insightVars
<1>8. faults' \in 0 .. MaxTroubles BY Keeps
<1> QED BY <1>1, <1>4, <1>5, <1>6, <1>7, <1>8, ActStep

-----------------------------------------------------------------------------
(* The steps within an event. *)

LEMMA FailStep ==
    ASSUME IInv, NEW w \in Workers, AnalysisFails(w) \/ ActionFails(w) PROVE IInv'
<1>1. /\ pc[w] \in Applying
      /\ \E p \in {"rejecting", "failing"} : pc' = [pc EXCEPT ![w] = p]
      /\ UNCHANGED faults \/ Fault
      /\ UNCHANGED <<menu, erased, queueVars, rec, crmVars, insightVars, usageVars,
                     batch, ev, deal, seen, changes>>
  BY DEF AnalysisFails, ActionFails, GoTo, Applying
<1>2. PICK p \in {"rejecting", "failing"} : pc' = [pc EXCEPT ![w] = p] BY <1>1
<1>3. /\ deal' = [deal EXCEPT ![w] = deal[w]] /\ deal[w] \in Rows \cup {None}
      /\ seen' = [seen EXCEPT ![w] = seen[w]] /\ seen[w] \in Nat \cup {None}
      /\ faults' \in 0 .. MaxTroubles
  BY <1>1, Keeps
<1> QED BY <1>1, <1>2, <1>3, StopStep

LEMMA ReadStep ==
    ASSUME IInv, NEW w \in Workers, NEW a \in {"contact", "details"}, ReadRow(w, a)
    PROVE  IInv'
<1> DEFINE r == Target(w, a)
<1>0. /\ pc[w] = a /\ a \in Actions /\ pc[w] \in At(a)
      /\ UNCHANGED <<menu, erased, queueVars, crmVars, insightVars, usageVars, batch,
                     ev, deal, faults, changes>>
  BY DEF ReadRow, Actions, At
<1>1. pc[w] \in Busy BY <1>0, AtBusy
<1>2. ev[w] \in Messages BY <1>1, HeldAlone
<1>3. CASE SkipAction(w, ev[w], a) /\ UNCHANGED seen
  BY <1>0, <1>3, Keeps, SkipStep
<1>4. CASE /\ ~AlreadyProcessed(ev[w], a) /\ Fillable(r)
           /\ seen' = [seen EXCEPT ![w] = version[r]]
           /\ GoTo(w, Writing(a)) /\ UNCHANGED rec
  <2>0. WorkerTypes /\ RowTypes /\ EffectInv BY DEF IInv, WorkInv, EffectInv
  <2>1. r \in Rows /\ value[r] = "blank"
    BY <1>2, <1>4, <2>0, RowFacts DEF Fillable, Target, WorkerTypes
  <2>2. version[r] \in Nat BY <2>0, <2>1 DEF RowTypes
  <2>3. pc' = [pc EXCEPT ![w] = Writing(a)] /\ Writing(a) \in Busy
    BY <1>4 DEF GoTo, Writing, Busy, Applying
  <2>4. r' = r BY <1>0 DEF Target
  <2>5. /\ pc'[w] = Writing(a) /\ seen'[w] = version[r]
        /\ value' = value /\ version' = version
    BY <1>0, <1>4, <2>0, <2>3 DEF WorkerTypes, crmVars
  <2>6. rec'[ev'[w]][a] = "none" BY <1>0, <1>4 DEF AlreadyProcessed
  <2> HIDE DEF r
  <2>7. WriteStands(w, a)'
    <3>1. r' \in Rows /\ seen'[w] \in Nat /\ seen'[w] <= version'[r']
          /\ value'[r'] = "blank"
      BY <2>1, <2>2, <2>4, <2>5
    <3> QED BY <2>6, <3>1 DEF WriteStands, r
  <2>8. RecordsStand(w)'
    <3>1. RecordsStand(w) BY DEF IInv, WorkInv, Stands
    <3> QED BY <1>0, <1>4, <2>5, <3>1
        DEF RecordsStand, Writing, AfterContact, AfterDeal, AfterDetails
  <2>9. Stands(w)' BY <2>5, <2>7, <2>8 DEF Stands, Writing
  <2>10. Age BY <2>0, <2>5, NoAge
  <2>11. EffectInv'
    <3>1. /\ insights' \subseteq Messages /\ applied' = applied
          /\ applied' \subseteq insights' /\ rec' = rec /\ status' = status
          /\ rec' \in [Messages -> [Actions -> Results]]
      BY <1>0, <1>4, <2>0 DEF EffectInv, RecordTypes, insightVars, queueVars
    <3> QED BY <1>0, <2>0, <3>1, EffectsKept
  <2> QED BY <1>0, <1>1, <1>4, <2>2, <2>3, <2>9, <2>10, <2>11, Keeps, ActStep
      DEF insightVars
<1> QED BY <1>3, <1>4 DEF ReadRow

(* The write of an enrichment: the row was blank and is still as it was    *)
(* read, and the usage row of the day was below the limit.                 *)
LEMMA WriteStep ==
    ASSUME SafeInv, NEW w \in Workers, NEW a \in {"contact", "details"},
           WriteRow(w, a)
    PROVE  IInv'
<1> DEFINE m == ev[w]
           r == Target(w, a)
<1> IInv BY DEF SafeInv
<1>8. held[w] = usage BY DEF SafeInv, LockInv, HeldRight, WriteRow
<1>0. /\ pc[w] = Writing(a) /\ a \in Actions /\ pc[w] \in At(a)
      /\ seen' = [seen EXCEPT ![w] = None]
      /\ UNCHANGED <<menu, erased, queueVars, tasks, insightVars, batch, ev, deal,
                     changes>>
  BY DEF WriteRow, Writing, Actions, At
<1>1. pc[w] \in Busy /\ pc[w] \in Applying BY <1>0, AtBusy
<1>2. m \in Messages BY <1>1, HeldAlone
<1>3. WriteStands(w, a)
  <2>1. Stands(w) BY DEF IInv, WorkInv
  <2> QED BY <1>0, <2>1 DEF Stands, Writing
<1>4. CASE /\ SkipAction(w, m, a)
           /\ UNCHANGED <<value, version, usageVars, faults>>
  BY <1>0, <1>4, Keeps, SkipStep DEF crmVars
<1>5. CASE /\ GoTo(w, "rejecting")
           /\ UNCHANGED <<rec, value, version, usageVars, faults>>
  BY <1>0, <1>1, <1>5, Keeps, StopStep DEF GoTo, crmVars
<1>6. CASE /\ usage.updates < DailyUpdates /\ Unchanged(w, r)
           /\ value' = [value EXCEPT ![r] = "ai"]
           /\ version' = [version EXCEPT ![r] = @ + 1]
           /\ usage' = [usage EXCEPT !.updates = @ + 1]
           /\ enriched' = [enriched EXCEPT ![m][a] = @ + 1]
           /\ rec' = [rec EXCEPT ![m][a] = "done"]
           /\ Committed(w, Following(a))
  <2>0. WorkerTypes /\ RowTypes /\ RecordTypes /\ EffectInv BY DEF IInv, WorkInv, EffectInv
  <2>1. r \in Rows /\ value[r] = "blank" /\ version[r] \in Nat /\ rec[m][a] = "none"
    BY <1>3, <1>6, <2>0 DEF WriteStands, Unchanged, RowTypes
  <2>2. /\ rec' \in [Messages -> [Actions -> Results]]
        /\ rec'[m][a] = "done"
        /\ \A b \in Actions \ {a} : rec'[m][b] = rec[m][b]
        /\ \A k \in Messages \ {m} : rec'[k] = rec[k]
    BY <1>0, <1>2, <1>6, <2>0, RecordSet DEF Results
  <2> HIDE DEF r
  <2>3. RowTypes' /\ Age
    <3>1. RowTypes' BY <1>6, <2>0, <2>1 DEF RowTypes, Values
    <3>2. \A y \in Rows : /\ version[y] \in Nat
                          /\ version'[y] = IF y = r THEN version[y] + 1 ELSE version[y]
                          /\ y # r => value'[y] = value[y]
      BY <1>6, <2>0 DEF RowTypes
    <3> QED BY <3>1, <3>2 DEF Age
  <2>4. \A k \in Messages : value'[Deal(k)] = "none" <=> value[Deal(k)] = "none"
    BY <1>6, <2>0, <2>1, RowFacts DEF RowTypes
  <2>5. /\ enriched' \in [Messages -> [{"contact", "details"} -> Nat]]
        /\ enriched'[m][a] = enriched[m][a] + 1
        /\ \A b \in {"contact", "details"} \ {a} : enriched'[m][b] = enriched[m][b]
        /\ \A k \in Messages \ {m} : enriched'[k] = enriched[k]
    <3>1. enriched \in [Messages -> [{"contact", "details"} -> Nat]]
      BY <2>0 DEF RecordTypes
    <3>2. enriched[m] \in [{"contact", "details"} -> Nat] BY <1>2, <3>1
    <3>3. [enriched[m] EXCEPT ![a] = @ + 1] \in [{"contact", "details"} -> Nat]
      BY <3>2
    <3>4. enriched' = [enriched EXCEPT ![m] = [enriched[m] EXCEPT ![a] = @ + 1]]
      BY <1>6, <3>1
    <3> QED BY <1>2, <3>1, <3>2, <3>3, <3>4
  <2>6. /\ usage' \in [updates : Nat, deals : Nat, tasks : Nat]
        /\ usage'.updates = usage.updates + 1 /\ usage'.updates <= DailyUpdates
        /\ usage'.deals = usage.deals /\ usage'.tasks = usage.tasks
    BY <1>6, <2>0 DEF RecordTypes
  <2>7. RecordTypes' BY <1>0, <2>0, <2>2, <2>5, <2>6 DEF RecordTypes, insightVars
  <2>8. RecordsMatchEffects'
    <3>1. RecordsMatchEffects BY <2>0 DEF EffectInv
    <3>2. status' = status /\ tasks' = tasks /\ applied' = applied
      BY <1>0 DEF queueVars, insightVars
    <3>3. ASSUME NEW k \in Messages
          PROVE  /\ rec'[k]["deal"] = "done" <=> value'[Deal(k)] # "none"
                 /\ rec'[k]["task"] = "done" <=> k \in tasks'
                 /\ rec'[k]["insight"] = "done" => k \in applied'
                 /\ status'[k] = "completed" => \A b \in Actions : rec'[k][b] # "none"
      <4>1. \A b \in {"deal", "task", "insight"} : rec'[k][b] = rec[k][b]
        BY <2>2 DEF Actions
      <4>2. \A b \in Actions : rec[k][b] # "none" => rec'[k][b] # "none"
        BY <2>2
      <4> QED BY <2>4, <3>1, <3>2, <4>1, <4>2 DEF RecordsMatchEffects
    <3>4. ASSUME NEW k \in Messages, NEW b \in {"contact", "details"}
          PROVE  enriched'[k][b] = IF rec'[k][b] = "done" THEN 1 ELSE 0
      <4>1. enriched[k][b] = IF rec[k][b] = "done" THEN 1 ELSE 0
        BY <3>1 DEF RecordsMatchEffects
      <4>2. CASE k = m /\ b = a BY <2>1, <2>2, <2>5, <4>1, <4>2
      <4>3. CASE k = m /\ b # a BY <2>2, <2>5, <4>1, <4>3 DEF Actions
      <4>4. CASE k # m BY <2>2, <2>5, <4>1, <4>4
      <4> QED BY <4>2, <4>3, <4>4
    <3> QED BY <3>3, <3>4 DEF RecordsMatchEffects
  <2>9. UsageWithinLimits'
    <3>1. {k \in Messages : value'[Deal(k)] # "none"}
            = {k \in Messages : value[Deal(k)] # "none"}
      BY <2>4
    <3>2. /\ UsageWithinLimits /\ RecordsMatchEffects
          /\ tasks' = tasks
      BY <1>0, <2>0 DEF EffectInv
    <3>3. enriched[m][a] = 0 BY <1>2, <2>1, <3>2 DEF RecordsMatchEffects
    <3>4. <<m, a>> \notin Enrichments BY <3>3 DEF Enrichments
    <3>5. Enrichments' = Enrichments \cup {<<m, a>>}
      <4>1. \A k \in Messages, b \in {"contact", "details"} :
                enriched'[k][b] # 0 <=> enriched[k][b] # 0 \/ (k = m /\ b = a)
        BY <2>5, <3>3
      <4> QED BY <1>2, <4>1 DEF Enrichments
    <3>6. Cardinality(Enrichments') = Cardinality(Enrichments) + 1
      BY <3>4, <3>5, EnrichmentsFinite, FS_AddElement
    <3>7. usage'.updates = Cardinality(Enrichments')
      BY <2>6, <3>2, <3>6 DEF UsageWithinLimits
    <3> QED BY <2>6, <3>1, <3>2, <3>7 DEF UsageWithinLimits, TasksOf
  <2>10. EffectInv' BY <2>3, <2>7, <2>8, <2>9 DEF EffectInv
  <2>11. /\ Stands(w)' /\ faults' \in 0 .. MaxTroubles
         /\ \E p \in Busy : pc' = [pc EXCEPT ![w] = p]
    BY <1>0, <1>6, <2>2, CommittedStands
  <2>12. PICK p \in Busy : pc' = [pc EXCEPT ![w] = p] BY <2>11
  <2>13. deal' = [deal EXCEPT ![w] = deal[w]] /\ deal[w] \in Rows \cup {None}
    BY <1>0, Keeps
  <2>14. insights \subseteq insights' /\ applied \subseteq applied'
    BY <1>0 DEF insightVars
  <2> QED BY <1>0, <1>1, <2>2, <2>3, <2>10, <2>11, <2>12, <2>13, <2>14, ActStep
<1>7. \/ usage.updates < DailyUpdates
      \/ usage.updates >= DailyUpdates
  <2>1. RecordTypes BY DEF IInv, EffectInv
  <2>2. usage.updates \in Nat /\ DailyUpdates \in Nat BY <2>1 DEF RecordTypes
  <2> QED BY <2>2
<1> QED BY <1>4, <1>5, <1>6, <1>7, <1>8 DEF WriteRow

LEMMA ActiveDealType ==
    ASSUME NEW c \in Chats, NEW d \in ActiveDeals(c) PROVE d \in Rows \cup {None}
BY RowFacts DEF ActiveDeals

LEMMA CheckDealStep == ASSUME IInv, NEW w \in Workers, CheckDeal(w) PROVE IInv'
<1>0. /\ pc[w] = "deal" /\ "deal" \in Actions /\ pc[w] \in At("deal")
      /\ UNCHANGED <<menu, erased, queueVars, crmVars, insightVars, usageVars, batch,
                     ev, seen, faults, changes>>
  BY DEF CheckDeal, Actions, At
<1>1. pc[w] \in Busy BY <1>0, AtBusy
<1>2. ev[w] \in Messages /\ ChatOf[ev[w]] \in Chats BY <1>1, HeldAlone
<1>3. CASE /\ SkipAction(w, ev[w], "deal")
           /\ \E d \in ActiveDeals(ChatOf[ev[w]]) : deal' = [deal EXCEPT ![w] = d]
  <2>1. PICK d \in ActiveDeals(ChatOf[ev[w]]) : deal' = [deal EXCEPT ![w] = d] BY <1>3
  <2>2. d \in Rows \cup {None} BY <1>2, ActiveDealType
  <2> QED BY <1>0, <1>3, <2>1, <2>2, Keeps, SkipStep
<1>4. CASE /\ ~AlreadyProcessed(ev[w], "deal")
           /\ GoTo(w, "writing deal") /\ UNCHANGED <<rec, deal>>
  <2>0. WorkerTypes /\ RowTypes /\ EffectInv /\ RecordTypes /\ RecordsStand(w)
    BY DEF IInv, WorkInv, EffectInv, Stands
  <2>1. pc' = [pc EXCEPT ![w] = "writing deal"] /\ "writing deal" \in Busy
    BY <1>4 DEF GoTo, Busy, Applying
  <2>2. pc'[w] = "writing deal" BY <2>0, <2>1 DEF WorkerTypes
  <2>3. RecordsStand(w)'
    BY <1>0, <1>4, <2>0, <2>2 DEF RecordsStand, AfterContact, AfterDeal, AfterDetails
  <2>4. Stands(w)' BY <1>0, <1>4, <2>2, <2>3 DEF Stands, AlreadyProcessed
  <2>5. Age BY <1>0, <2>0, NoAge DEF crmVars
  <2>6. EffectInv'
    <3>1. /\ insights' \subseteq Messages /\ applied' = applied
          /\ applied' \subseteq insights' /\ rec' = rec /\ status' = status
          /\ rec' \in [Messages -> [Actions -> Results]]
      BY <1>0, <1>4, <2>0 DEF RecordTypes, insightVars, queueVars
    <3> QED BY <1>0, <2>0, <3>1, EffectsKept
  <2> QED BY <1>0, <1>1, <1>4, <2>1, <2>4, <2>5, <2>6, Keeps, ActStep DEF insightVars
<1> QED BY <1>3, <1>4 DEF CheckDeal

(* A deal is created with its record: there was neither before.            *)
LEMMA CreateDealStep == ASSUME SafeInv, NEW w \in Workers, CreateDeal(w) PROVE IInv'
<1> DEFINE m == ev[w]
           c == ChatOf[m]
<1> IInv BY DEF SafeInv
<1>7. held[w] = usage BY DEF SafeInv, LockInv, HeldRight, CreateDeal
<1>0. /\ pc[w] = "writing deal" /\ "deal" \in Actions /\ pc[w] \in At("deal")
      /\ UNCHANGED <<menu, erased, queueVars, version, tasks, insightVars, enriched,
                     batch, ev, seen, changes>>
  BY DEF CreateDeal, Actions, At
<1>1. pc[w] \in Busy /\ pc[w] \in Applying BY <1>0, AtBusy
<1>2. m \in Messages /\ c \in Chats BY <1>1, HeldAlone
<1>3. CASE /\ SkipAction(w, m, "deal")
           /\ \E d \in ActiveDeals(c) : deal' = [deal EXCEPT ![w] = d]
           /\ UNCHANGED <<value, usage, faults>>
  <2>1. PICK d \in ActiveDeals(c) : deal' = [deal EXCEPT ![w] = d] BY <1>3
  <2>2. d \in Rows \cup {None} BY <1>2, ActiveDealType
  <2> QED BY <1>0, <1>3, <2>1, <2>2, Keeps, SkipStep DEF crmVars, usageVars
<1>4. CASE GoTo(w, "rejecting") /\ UNCHANGED <<rec, value, usage, deal, faults>>
  BY <1>0, <1>1, <1>4, Keeps, StopStep DEF GoTo, crmVars, usageVars
<1>5. CASE /\ usage.deals < DailyDeals
           /\ value' = [value EXCEPT ![Deal(m)] = "blank"]
           /\ usage' = [usage EXCEPT !.deals = @ + 1]
           /\ rec' = [rec EXCEPT ![m]["deal"] = "done"]
           /\ deal' = [deal EXCEPT ![w] = Deal(m)]
           /\ Committed(w, "details")
  <2>0. /\ WorkerTypes /\ RowTypes /\ RecordTypes /\ EffectInv /\ Stands(w)
        /\ RecordsMatchEffects /\ UsageWithinLimits
    BY DEF IInv, WorkInv, EffectInv
  <2>1. Deal(m) \in Rows /\ rec[m]["deal"] = "none" /\ value[Deal(m)] = "none"
    BY <1>0, <1>2, <2>0, RowFacts DEF Stands, RecordsMatchEffects
  <2>2. /\ rec' \in [Messages -> [Actions -> Results]]
        /\ rec'[m]["deal"] = "done"
        /\ \A b \in Actions \ {"deal"} : rec'[m][b] = rec[m][b]
        /\ \A k \in Messages \ {m} : rec'[k] = rec[k]
    BY <1>0, <1>2, <1>5, <2>0, RecordSet DEF Results
  <2>3. /\ value'[Deal(m)] = "blank"
        /\ \A y \in Rows \ {Deal(m)} : value'[y] = value[y]
        /\ version' = version
    BY <1>0, <1>5, <2>0, <2>1 DEF RowTypes
  <2>4. RowTypes' /\ Age
    <3>1. RowTypes' BY <1>0, <1>5, <2>0, <2>1 DEF RowTypes, Values
    <3> QED BY <2>0, <2>3, <3>1 DEF Age, RowTypes
  <2>5. \A k \in Messages \ {m} : value'[Deal(k)] = value[Deal(k)]
    BY <1>2, <2>3, RowFacts
  <2>6. /\ usage' \in [updates : Nat, deals : Nat, tasks : Nat]
        /\ usage'.deals = usage.deals + 1 /\ usage'.deals <= DailyDeals
        /\ usage'.updates = usage.updates /\ usage'.tasks = usage.tasks
    <3>1. usage \in [updates : Nat, deals : Nat, tasks : Nat] BY <2>0 DEF RecordTypes
    <3>2. DailyDeals \in Nat OBVIOUS
    <3> QED BY <1>5, <3>1, <3>2
  <2>7. RecordTypes' BY <1>0, <2>0, <2>2, <2>6 DEF RecordTypes, insightVars
  <2>8. RecordsMatchEffects'
    <3>1. status' = status /\ tasks' = tasks /\ applied' = applied /\ enriched' = enriched
      BY <1>0 DEF queueVars, insightVars
    <3>2. ASSUME NEW k \in Messages
          PROVE  /\ rec'[k]["deal"] = "done" <=> value'[Deal(k)] # "none"
                 /\ rec'[k]["task"] = "done" <=> k \in tasks'
                 /\ rec'[k]["insight"] = "done" => k \in applied'
                 /\ status'[k] = "completed" => \A b \in Actions : rec'[k][b] # "none"
      <4>1. \A b \in {"task", "insight"} : rec'[k][b] = rec[k][b]
        BY <2>2 DEF Actions
      <4>2. \A b \in Actions : rec[k][b] # "none" => rec'[k][b] # "none"
        BY <2>2
      <4>3. rec'[k]["deal"] = "done" <=> value'[Deal(k)] # "none"
        <5>1. CASE k = m BY <2>2, <2>3, <5>1
        <5>2. CASE k # m BY <2>0, <2>2, <2>5, <5>2 DEF RecordsMatchEffects
        <5> QED BY <5>1, <5>2
      <4> QED BY <2>0, <3>1, <4>1, <4>2, <4>3 DEF RecordsMatchEffects
    <3>3. ASSUME NEW k \in Messages, NEW b \in {"contact", "details"}
          PROVE  enriched'[k][b] = IF rec'[k][b] = "done" THEN 1 ELSE 0
      <4>1. rec'[k][b] = rec[k][b] BY <2>2 DEF Actions
      <4> QED BY <2>0, <3>1, <4>1 DEF RecordsMatchEffects
    <3> QED BY <3>2, <3>3 DEF RecordsMatchEffects
  <2>9. UsageWithinLimits'
    <3> DEFINE S == {k \in Messages : value[Deal(k)] # "none"}
    <3>1. {k \in Messages : value'[Deal(k)] # "none"} = S \cup {m}
      BY <1>2, <2>3, <2>5
    <3>2. m \notin S /\ S \subseteq Messages BY <2>1
    <3>3. usage.deals = Cardinality(S) BY <2>0 DEF UsageWithinLimits
    <3> HIDE DEF S
    <3>4. Cardinality(S \cup {m}) = Cardinality(S) + 1 BY <3>2, CountOneMore
    <3>5. usage'.deals = Cardinality({k \in Messages : value'[Deal(k)] # "none"})
      BY <2>6, <3>1, <3>3, <3>4
    <3> QED BY <1>0, <2>0, <2>6, <3>5 DEF UsageWithinLimits, TasksOf, Enrichments
  <2>10. EffectInv' BY <2>4, <2>7, <2>8, <2>9 DEF EffectInv
  <2>11. /\ Stands(w)' /\ faults' \in 0 .. MaxTroubles
         /\ \E p \in Busy : pc' = [pc EXCEPT ![w] = p]
    <3>1. Committed(w, Following("deal")) BY <1>5 DEF Following
    <3>2. rec'[ev[w]]["deal"] # "none" BY <2>2
    <3>3. \A b \in Actions \ {"deal"} : rec'[ev[w]][b] = rec[ev[w]][b] BY <2>2
    <3> QED BY <1>0, <3>1, <3>2, <3>3, CommittedStands
  <2>12. PICK p \in Busy : pc' = [pc EXCEPT ![w] = p] BY <2>11
  <2>13. seen' = [seen EXCEPT ![w] = seen[w]] /\ seen[w] \in Nat \cup {None}
    BY <1>0, Keeps
  <2>14. insights \subseteq insights' /\ applied \subseteq applied'
    BY <1>0 DEF insightVars
  <2> QED BY <1>0, <1>1, <1>5, <2>1, <2>2, <2>4, <2>10, <2>11, <2>12, <2>13, <2>14,
             ActStep
<1>6. usage.deals < DailyDeals \/ usage.deals >= DailyDeals
  <2>1. RecordTypes BY DEF IInv, EffectInv
  <2>2. usage.deals \in Nat /\ DailyDeals \in Nat BY <2>1 DEF RecordTypes
  <2> QED BY <2>2
<1> QED BY <1>3, <1>4, <1>5, <1>6, <1>7 DEF CreateDeal

LEMMA CheckTaskStep == ASSUME IInv, NEW w \in Workers, CheckTask(w) PROVE IInv'
<1>0. /\ pc[w] = "task" /\ "task" \in Actions /\ pc[w] \in At("task")
      /\ UNCHANGED <<menu, erased, queueVars, crmVars, insightVars, usageVars, batch,
                     ev, seen, faults, changes>>
  BY DEF CheckTask, Actions, At
<1>1. pc[w] \in Busy BY <1>0, AtBusy
<1>2. CASE SkipAction(w, ev[w], "task") /\ deal' = [deal EXCEPT ![w] = None]
  BY <1>0, <1>2, Keeps, SkipStep
<1>3. CASE /\ ~AlreadyProcessed(ev[w], "task")
           /\ GoTo(w, "writing task") /\ UNCHANGED <<rec, deal>>
  <2>0. WorkerTypes /\ RowTypes /\ EffectInv /\ RecordTypes /\ RecordsStand(w)
    BY DEF IInv, WorkInv, EffectInv, Stands
  <2>1. pc' = [pc EXCEPT ![w] = "writing task"] /\ "writing task" \in Busy
    BY <1>3 DEF GoTo, Busy, Applying
  <2>2. pc'[w] = "writing task" BY <2>0, <2>1 DEF WorkerTypes
  <2>3. RecordsStand(w)'
    BY <1>0, <1>3, <2>0, <2>2 DEF RecordsStand, AfterContact, AfterDeal, AfterDetails
  <2>4. Stands(w)' BY <1>0, <1>3, <2>2, <2>3 DEF Stands, AlreadyProcessed
  <2>5. Age BY <1>0, <2>0, NoAge DEF crmVars
  <2>6. EffectInv'
    <3>1. /\ insights' \subseteq Messages /\ applied' = applied
          /\ applied' \subseteq insights' /\ rec' = rec /\ status' = status
          /\ rec' \in [Messages -> [Actions -> Results]]
      BY <1>0, <1>3, <2>0 DEF EffectInv, RecordTypes, insightVars, queueVars
    <3> QED BY <1>0, <2>0, <3>1, EffectsKept
  <2> QED BY <1>0, <1>1, <1>3, <2>1, <2>4, <2>5, <2>6, Keeps, ActStep DEF insightVars
<1> QED BY <1>2, <1>3 DEF CheckTask

(* A task is created below both limits, with its record.                   *)
LEMMA CreateTaskStep == ASSUME SafeInv, NEW w \in Workers, CreateTask(w) PROVE IInv'
<1> DEFINE m == ev[w]
           c == ChatOf[m]
<1> IInv BY DEF SafeInv
<1>7. held[w] = usage BY DEF SafeInv, LockInv, HeldRight, CreateTask
<1>0. /\ pc[w] = "writing task" /\ "task" \in Actions /\ pc[w] \in At("task")
      /\ deal' = [deal EXCEPT ![w] = None]
      /\ UNCHANGED <<menu, erased, queueVars, value, version, insightVars, enriched,
                     batch, ev, seen, changes>>
  BY DEF CreateTask, Actions, At
<1>1. pc[w] \in Busy /\ pc[w] \in Applying BY <1>0, AtBusy
<1>2. m \in Messages /\ c \in Chats BY <1>1, HeldAlone
<1>3. CASE SkipAction(w, m, "task") /\ UNCHANGED <<tasks, usage, faults>>
  BY <1>0, <1>3, Keeps, SkipStep DEF crmVars, usageVars
<1>4. CASE GoTo(w, "rejecting") /\ UNCHANGED <<rec, tasks, usage, faults>>
  BY <1>0, <1>1, <1>4, Keeps, StopStep DEF GoTo, crmVars, usageVars
<1>5. CASE /\ usage.tasks < DailyTasks /\ ~ChatFull(c)
           /\ tasks' = tasks \cup {m}
           /\ usage' = [usage EXCEPT !.tasks = @ + 1]
           /\ rec' = [rec EXCEPT ![m]["task"] = "done"]
           /\ Committed(w, "insight")
  <2>0. /\ WorkerTypes /\ RowTypes /\ RecordTypes /\ EffectInv /\ Stands(w)
        /\ RecordsMatchEffects /\ UsageWithinLimits
    BY DEF IInv, WorkInv, EffectInv
  <2>1. rec[m]["task"] = "none" /\ m \notin tasks
    BY <1>0, <1>2, <2>0 DEF Stands, RecordsMatchEffects
  <2>2. /\ rec' \in [Messages -> [Actions -> Results]]
        /\ rec'[m]["task"] = "done"
        /\ \A b \in Actions \ {"task"} : rec'[m][b] = rec[m][b]
        /\ \A k \in Messages \ {m} : rec'[k] = rec[k]
    BY <1>0, <1>2, <1>5, <2>0, RecordSet DEF Results
  <2>3. RowTypes' /\ Age BY <1>0, <2>0, NoAge DEF RowTypes
  <2>4. /\ usage' \in [updates : Nat, deals : Nat, tasks : Nat]
        /\ usage'.tasks = usage.tasks + 1 /\ usage'.tasks <= DailyTasks
        /\ usage'.updates = usage.updates /\ usage'.deals = usage.deals
    <3>1. usage \in [updates : Nat, deals : Nat, tasks : Nat] BY <2>0 DEF RecordTypes
    <3>2. DailyTasks \in Nat OBVIOUS
    <3> QED BY <1>5, <3>1, <3>2
  <2>5. RecordTypes'
    BY <1>0, <1>2, <1>5, <2>0, <2>2, <2>4 DEF RecordTypes, insightVars
  <2>6. RecordsMatchEffects'
    <3>1. status' = status /\ value' = value /\ applied' = applied /\ enriched' = enriched
      BY <1>0 DEF queueVars, insightVars
    <3>2. ASSUME NEW k \in Messages
          PROVE  /\ rec'[k]["deal"] = "done" <=> value'[Deal(k)] # "none"
                 /\ rec'[k]["task"] = "done" <=> k \in tasks'
                 /\ rec'[k]["insight"] = "done" => k \in applied'
                 /\ status'[k] = "completed" => \A b \in Actions : rec'[k][b] # "none"
      <4>1. \A b \in {"deal", "insight"} : rec'[k][b] = rec[k][b]
        BY <2>2 DEF Actions
      <4>2. \A b \in Actions : rec[k][b] # "none" => rec'[k][b] # "none"
        BY <2>2
      <4>3. rec'[k]["task"] = "done" <=> k \in tasks'
        <5>1. CASE k = m BY <1>5, <2>2, <5>1
        <5>2. CASE k # m BY <1>5, <2>0, <2>2, <5>2 DEF RecordsMatchEffects
        <5> QED BY <5>1, <5>2
      <4> QED BY <2>0, <3>1, <4>1, <4>2, <4>3 DEF RecordsMatchEffects
    <3>3. ASSUME NEW k \in Messages, NEW b \in {"contact", "details"}
          PROVE  enriched'[k][b] = IF rec'[k][b] = "done" THEN 1 ELSE 0
      <4>1. rec'[k][b] = rec[k][b] BY <2>2 DEF Actions
      <4> QED BY <2>0, <3>1, <4>1 DEF RecordsMatchEffects
    <3> QED BY <3>2, <3>3 DEF RecordsMatchEffects
  <2>7. UsageWithinLimits'
    <3>1. tasks \subseteq Messages /\ usage.tasks = Cardinality(tasks)
      BY <2>0 DEF RecordTypes, UsageWithinLimits
    <3>2. Cardinality(tasks \cup {m}) = Cardinality(tasks) + 1
      BY <2>1, <3>1, CountOneMore
    <3>3. usage'.tasks = Cardinality(tasks') BY <1>5, <2>4, <3>1, <3>2
    <3>4. ASSUME NEW x \in Chats PROVE Cardinality(TasksOf(x)') <= TasksPerChat
      <4> DEFINE S == TasksOf(x)
      <4>1. S \subseteq Messages /\ m \notin S /\ Cardinality(S) <= TasksPerChat
        BY <2>0, <2>1, <3>1 DEF TasksOf, UsageWithinLimits
      <4>2. CASE x # c
        <5>1. TasksOf(x)' = S BY <1>5, <4>2 DEF TasksOf
        <5> QED BY <4>1, <5>1
      <4>3. CASE x = c
        <5>1. TasksOf(x)' = S \cup {m} BY <1>5, <4>3 DEF TasksOf
        <5>2. ~(Cardinality(S) >= TasksPerChat) BY <1>5, <4>3 DEF ChatFull
        <5> HIDE DEF S
        <5>3. /\ Cardinality(S \cup {m}) = Cardinality(S) + 1
              /\ Cardinality(S) \in Nat /\ TasksPerChat \in Nat
          BY <4>1, CountOneMore, CountFinite
        <5> QED BY <5>1, <5>2, <5>3
      <4> QED BY <4>2, <4>3
    <3>5. \A x \in Chats : (Cardinality(TasksOf(x)) <= TasksPerChat)' BY <3>4
    <3> QED BY <1>0, <2>0, <2>4, <3>3, <3>5 DEF UsageWithinLimits, Enrichments
  <2>8. EffectInv' BY <2>3, <2>5, <2>6, <2>7 DEF EffectInv
  <2>9. /\ Stands(w)' /\ faults' \in 0 .. MaxTroubles
        /\ \E p \in Busy : pc' = [pc EXCEPT ![w] = p]
    <3>1. Committed(w, Following("task")) BY <1>5 DEF Following
    <3>2. rec'[ev[w]]["task"] # "none" BY <2>2
    <3>3. \A b \in Actions \ {"task"} : rec'[ev[w]][b] = rec[ev[w]][b] BY <2>2
    <3> QED BY <1>0, <3>1, <3>2, <3>3, CommittedStands
  <2>10. PICK p \in Busy : pc' = [pc EXCEPT ![w] = p] BY <2>9
  <2>11. seen' = [seen EXCEPT ![w] = seen[w]] /\ seen[w] \in Nat \cup {None}
    BY <1>0, Keeps
  <2>12. insights \subseteq insights' /\ applied \subseteq applied'
    BY <1>0 DEF insightVars
  <2> QED BY <1>0, <1>1, <2>2, <2>3, <2>8, <2>9, <2>10, <2>11, <2>12, ActStep
<1>6. usage.tasks < DailyTasks \/ usage.tasks >= DailyTasks
  <2>1. RecordTypes BY DEF IInv, EffectInv
  <2>2. usage.tasks \in Nat /\ DailyTasks \in Nat BY <2>1 DEF RecordTypes
  <2> QED BY <2>2
<1> QED BY <1>3, <1>4, <1>5, <1>6, <1>7 DEF CreateTask

(* The claim: a pending event is held by nobody.                           *)
LEMMA ClaimStep ==
    ASSUME IInv, NEW w \in Workers, NEW m \in Messages, ClaimEvent(w, m) PROVE IInv'
<1> USE DEF crmVars, insightVars, usageVars
<1>0. /\ QueueTypes /\ NewEvents /\ BoundTypes /\ WorkInv /\ WorkerTypes
      /\ WorkHasEvent /\ OneWorkerPerEvent /\ EffectInv /\ RowTypes
  BY DEF IInv, WorkInv, EffectInv
<1>1. /\ pc[w] = "next" /\ status[m] = "pending" /\ m \notin waiting
      /\ status' = [status EXCEPT ![m] = "processing"]
      /\ attempts' = [attempts EXCEPT ![m] = @ + 1]
      /\ ev' = [ev EXCEPT ![w] = m] /\ pc' = [pc EXCEPT ![w] = "contact"]
      /\ UNCHANGED <<menu, erased, waiting, fresh, rec, crmVars, insightVars, usageVars,
                     batch, deal, seen, faults, changes>>
  BY DEF ClaimEvent, Claimable
<1>2. QueueTypes' /\ NewEvents' /\ BoundTypes'
  <2>1. /\ status' \in [Messages -> Statuses]
        /\ status'[m] = "processing" /\ \A k \in Messages \ {m} : status'[k] = status[k]
    BY <1>0, <1>1 DEF QueueTypes, Statuses
  <2>2. /\ attempts' \in [Messages -> 0 .. MaxRetries + 1]
        /\ \A k \in Messages \ {m} : attempts'[k] = attempts[k]
    BY <1>0, <1>1 DEF QueueTypes
  <2>3. QueueTypes' BY <1>0, <1>1, <2>1, <2>2 DEF QueueTypes
  <2>4. NewEvents' BY <1>0, <2>1, <2>2 DEF NewEvents
  <2> QED BY <1>0, <1>1, <2>3, <2>4 DEF BoundTypes
<1>3. /\ pc'[w] = "contact" /\ ev'[w] = m /\ m # None
      /\ \A v \in Workers \ {w} : pc'[v] = pc[v] /\ ev'[v] = ev[v]
  BY <1>0, <1>1, RowFacts DEF WorkerTypes
<1>4. WorkerTypes' BY <1>0, <1>1 DEF WorkerTypes, Busy, Applying
<1>5. WorkHasEvent' BY <1>0, <1>3 DEF WorkHasEvent, Busy, Applying
<1>6. OneWorkerPerEvent'
  <2>1. \A v \in Workers \ {w} :
            ev[v] # None => ev[v] # m /\ status'[ev[v]] = "processing"
    BY <1>0, <1>1 DEF OneWorkerPerEvent, WorkerTypes, QueueTypes
  <2>2. status'[m] = "processing" BY <1>0, <1>1 DEF QueueTypes
  <2> QED BY <1>0, <1>3, <2>1, <2>2 DEF OneWorkerPerEvent
<1>7. Stands(w)'
  BY <1>3 DEF Stands, RecordsStand, AfterContact, AfterDeal, AfterDetails
<1>8. Age BY <1>0, <1>1, NoAge
<1>9. RowTypes' BY <1>0, <1>1 DEF RowTypes
<1>10. \A v \in Workers \ {w} : Stands(v)' BY <1>1, <1>3, <1>8, <1>9, StandsAged
<1>11. EffectInv'
  <2>1. RecordTypes' BY <1>0, <1>1 DEF EffectInv, RecordTypes
  <2>2. \A k \in Messages : status'[k] = "completed" => status[k] = "completed"
    BY <1>0, <1>1 DEF QueueTypes
  <2>3. RecordsMatchEffects' BY <1>0, <1>1, <2>2 DEF EffectInv, RecordsMatchEffects
  <2>4. UsageWithinLimits' BY <1>0, <1>1 DEF EffectInv, UsageWithinLimits, TasksOf, Enrichments
  <2> QED BY <1>9, <2>1, <2>3, <2>4 DEF EffectInv
<1> QED BY <1>2, <1>4, <1>5, <1>6, <1>7, <1>10, <1>11 DEF IInv, WorkInv

(* An insight, its effect on the contact, and the record of both.          *)
LEMMA StoreStep == ASSUME IInv, NEW w \in Workers, StoreInsight(w) PROVE IInv'
<1>0. /\ pc[w] = "insight" /\ "insight" \in Actions /\ pc[w] \in At("insight")
      /\ UNCHANGED <<menu, erased, queueVars, crmVars, applied, usageVars, batch, ev,
                     deal, seen, faults, changes>>
  BY DEF StoreInsight, Actions, At
<1>1. pc[w] \in Busy BY <1>0, AtBusy
<1>2. ev[w] \in Messages BY <1>1, HeldAlone
<1>3. CASE SkipAction(w, ev[w], "insight") /\ UNCHANGED insights
  BY <1>0, <1>3, Keeps, SkipStep DEF insightVars
<1>4. CASE /\ insights' = insights \cup {ev[w]}
           /\ GoTo(w, "applying") /\ UNCHANGED rec
  <2>0. WorkerTypes /\ RowTypes /\ EffectInv /\ RecordTypes /\ RecordsStand(w)
    BY DEF IInv, WorkInv, EffectInv, Stands
  <2>1. pc' = [pc EXCEPT ![w] = "applying"] /\ "applying" \in Busy
    BY <1>4 DEF GoTo, Busy, Applying
  <2>2. pc'[w] = "applying" BY <2>0, <2>1 DEF WorkerTypes
  <2>3. RecordsStand(w)'
    BY <1>0, <1>4, <2>0, <2>2 DEF RecordsStand, AfterContact, AfterDeal, AfterDetails
  <2>4. Stands(w)' BY <1>0, <1>4, <2>2, <2>3 DEF Stands
  <2>5. Age BY <1>0, <2>0, NoAge DEF crmVars
  <2>6. EffectInv'
    <3>1. /\ insights' \subseteq Messages /\ applied' = applied
          /\ applied' \subseteq insights' /\ rec' = rec /\ status' = status
          /\ rec' \in [Messages -> [Actions -> Results]]
      BY <1>0, <1>2, <1>4, <2>0 DEF RecordTypes, queueVars
    <3> QED BY <1>0, <2>0, <3>1, EffectsKept
  <2>7. insights \subseteq insights' BY <1>4
  <2> QED BY <1>0, <1>1, <1>4, <2>1, <2>4, <2>5, <2>6, <2>7, Keeps, ActStep
<1> QED BY <1>3, <1>4 DEF StoreInsight

LEMMA ApplyStep == ASSUME IInv, NEW w \in Workers, ApplyInsight(w) PROVE IInv'
<1>0. /\ pc[w] = "applying" /\ pc' = [pc EXCEPT ![w] = "recording"]
      /\ applied' = applied \cup {ev[w]}
      /\ UNCHANGED <<menu, erased, queueVars, rec, crmVars, insights, usageVars, batch,
                     ev, deal, seen, faults, changes>>
  BY DEF ApplyInsight, GoTo
<1>1. pc[w] \in Busy /\ "recording" \in Busy BY <1>0 DEF Busy, Applying
<1>2. /\ WorkerTypes /\ RowTypes /\ EffectInv /\ RecordTypes
      /\ RecordsStand(w) /\ ev[w] \in insights
  BY <1>0 DEF IInv, WorkInv, EffectInv, Stands
<1>3. pc'[w] = "recording" BY <1>0, <1>2 DEF WorkerTypes
<1>4. RecordsStand(w)'
  BY <1>0, <1>2, <1>3 DEF RecordsStand, AfterContact, AfterDeal, AfterDetails
<1>5. Stands(w)' BY <1>0, <1>3, <1>4 DEF Stands
<1>6. Age BY <1>0, <1>2, NoAge DEF crmVars
<1>7. EffectInv'
  <2>1. /\ insights' \subseteq Messages /\ applied \subseteq applied'
        /\ applied' \subseteq insights' /\ rec' = rec /\ status' = status
        /\ rec' \in [Messages -> [Actions -> Results]]
    BY <1>0, <1>2 DEF RecordTypes, queueVars
  <2> QED BY <1>0, <1>2, <2>1, EffectsKept
<1>8. applied \subseteq applied' BY <1>0
<1> QED BY <1>0, <1>1, <1>5, <1>6, <1>7, <1>8, Keeps, ActStep

LEMMA RecordStep == ASSUME IInv, NEW w \in Workers, RecordInsight(w) PROVE IInv'
<1>0. /\ pc[w] = "recording" /\ pc' = [pc EXCEPT ![w] = "completing"]
      /\ rec' = [rec EXCEPT ![ev[w]]["insight"] = "done"]
      /\ "insight" \in Actions /\ pc[w] \in At("insight")
      /\ UNCHANGED <<menu, erased, queueVars, crmVars, insightVars, usageVars, batch,
                     ev, deal, seen, faults, changes>>
  BY DEF RecordInsight, GoTo, Actions, At
<1>1. pc[w] \in Busy /\ "completing" \in Busy BY <1>0 DEF Busy, Applying
<1>2. ev[w] \in Messages BY <1>1, HeldAlone
<1>3. /\ WorkerTypes /\ RowTypes /\ EffectInv /\ RecordTypes /\ ev[w] \in applied
  BY <1>0 DEF IInv, WorkInv, EffectInv, Stands
<1>4. /\ rec' \in [Messages -> [Actions -> Results]]
      /\ rec'[ev[w]]["insight"] = "done"
      /\ \A b \in Actions \ {"insight"} : rec'[ev[w]][b] = rec[ev[w]][b]
      /\ \A k \in Messages \ {ev[w]} : rec'[k] = rec[k]
  BY <1>0, <1>2, <1>3, RecordSet DEF Results
<1>5. Stands(w)'
  <2>1. Following("insight") = "completing" BY DEF Following
  <2>2. rec'[ev[w]]["insight"] # "none" BY <1>4
  <2> QED BY <1>0, <1>4, <2>1, <2>2, NextStands
<1>6. Age BY <1>0, <1>3, NoAge DEF crmVars
<1>7. EffectInv'
  <2>1. /\ insights' \subseteq Messages /\ applied' = applied
        /\ applied' \subseteq insights' /\ status' = status
    BY <1>0, <1>3 DEF RecordTypes, insightVars, queueVars
  <2>2. ASSUME NEW k \in Messages, NEW a \in Actions
        PROVE  /\ rec[k][a] # "none" => rec'[k][a] # "none"
               /\ rec[k][a] = "done" => rec'[k][a] = "done"
               /\ rec'[k][a] = "done" =>
                      rec[k][a] = "done" \/ (a = "insight" /\ k \in applied')
    <3>1. CASE k = ev[w] /\ a = "insight" BY <1>3, <1>4, <2>1, <3>1
    <3>2. CASE k # ev[w] \/ a # "insight" BY <1>4, <3>2
    <3> QED BY <3>1, <3>2
  <2> QED BY <1>0, <1>3, <1>4, <2>1, <2>2, EffectsKept
<1>8. insights \subseteq insights' /\ applied \subseteq applied'
  BY <1>0 DEF insightVars
<1> QED BY <1>0, <1>1, <1>4, <1>5, <1>6, <1>7, <1>8, Keeps, ActStep

-----------------------------------------------------------------------------
(* The lock of the usage row. *)

(* The row is locked, released, written by the worker that holds it, or    *)
(* left alone.                                                             *)
LockMoves ==
    \/ UNCHANGED <<usage, held>>
    \/ \E w \in Workers :
           \/ LockUsage(w)
           \/ Release(w) /\ (UNCHANGED usage \/ held[w] # None)

LEMMA StepsMoveLock == ASSUME [Next]_vars PROVE LockMoves
<1> USE DEF LockMoves, usageVars
<1>1. CASE Arrival BY <1>1 DEF Arrival, Enqueue, BecomesDue, ThrottleEnds
<1>2. CASE Manager BY <1>2 DEF Manager, EditRow, EraseMessages
<1>3. ASSUME NEW w \in Workers, Act(w) PROVE LockMoves
  <2>1. ASSUME NEW a \in {"contact", "details"}, ReadRow(w, a) PROVE LockMoves
    BY <2>1 DEF ReadRow
  <2>2. ASSUME NEW a \in {"contact", "details"}, WriteRow(w, a) PROVE LockMoves
    BY <2>2 DEF WriteRow
  <2>3. CASE CheckDeal(w) \/ CheckTask(w) BY <2>3 DEF CheckDeal, CheckTask
  <2>4. CASE CreateDeal(w) BY <2>4 DEF CreateDeal
  <2>5. CASE CreateTask(w) BY <2>5 DEF CreateTask
  <2>6. CASE StoreInsight(w) \/ ApplyInsight(w) \/ RecordInsight(w)
    BY <2>6 DEF StoreInsight, ApplyInsight, RecordInsight
  <2> QED BY <1>3, <2>1, <2>2, <2>3, <2>4, <2>5, <2>6 DEF Act
<1>4. ASSUME NEW w \in Workers, Work(w) PROVE LockMoves
  <2>1. ASSUME NEW m \in Messages,
               SkipEvent(w, m) \/ IgnoreEvent(w, m) \/ ThrottleEvent(w, m)
                   \/ ClaimEvent(w, m)
        PROVE  LockMoves
    BY <2>1 DEF SkipEvent, IgnoreEvent, ThrottleEvent, ClaimEvent
  <2>2. CASE SelectEvents(w) \/ AnalysisFails(w) \/ CompleteEvent(w)
             \/ RejectEvent(w) \/ MarkTechnical(w)
    BY <2>2 DEF SelectEvents, AnalysisFails, CompleteEvent, RejectEvent, MarkTechnical
  <2>3. CASE ActionFails(w) \/ WorkerDies(w) BY <2>3 DEF ActionFails, WorkerDies
  <2> QED BY <1>3, <1>4, <2>1, <2>2, <2>3 DEF Work
<1>5. CASE UNCHANGED vars BY <1>5 DEF vars
<1> QED BY <1>1, <1>2, <1>4, <1>5 DEF Next

LEMMA LockStep == ASSUME SafeInv, [Next]_vars PROVE LockInv'
<1>0. LockInv /\ LockTypes /\ usage \in Usages
  BY DEF SafeInv, LockInv, IInv, EffectInv, RecordTypes, Usages
<1>1. CASE UNCHANGED <<usage, held>>
  BY <1>0, <1>1 DEF LockInv, LockTypes, HeldRight
<1>2. ASSUME NEW w \in Workers, LockUsage(w) PROVE LockInv'
  <2>1. /\ \A v \in Workers : held[v] = None
        /\ held' = [held EXCEPT ![w] = usage] /\ usage' = usage
    BY <1>2 DEF LockUsage, UsageFree, usageVars
  <2>2. LockTypes' BY <1>0, <2>1 DEF LockTypes
  <2>3. \A v \in Workers : held'[v] = IF v = w THEN usage ELSE None
    BY <1>0, <2>1 DEF LockTypes
  <2> QED BY <2>1, <2>2, <2>3 DEF LockInv, HeldRight
<1>3. ASSUME NEW w \in Workers, Release(w), UNCHANGED usage \/ held[w] # None
      PROVE  LockInv'
  <2>1. LockTypes' BY <1>0, <1>3 DEF LockTypes, Release
  <2>2. \A v \in Workers : held'[v] = IF v = w THEN None ELSE held[v]
    BY <1>0, <1>3 DEF LockTypes, Release
  <2>3. ASSUME NEW v \in Workers, held'[v] # None
        PROVE  held'[v] = usage' /\ \A u \in Workers \ {v} : held'[u] = None
    <3>1. v # w /\ held[v] # None BY <2>2, <2>3
    <3>2. held[v] = usage /\ \A u \in Workers \ {v} : held[u] = None
      BY <1>0, <3>1 DEF LockInv, HeldRight
    <3>3. usage' = usage BY <1>3, <3>1, <3>2
    <3> QED BY <2>2, <3>1, <3>2, <3>3
  <2> QED BY <2>1, <2>3 DEF LockInv, HeldRight
<1> QED BY <1>1, <1>2, <1>3, StepsMoveLock DEF LockMoves

LEMMA LockUsageStep == ASSUME IInv, NEW w \in Workers, LockUsage(w) PROVE IInv'
<1>1. QueueTypes' /\ NewEvents' /\ BoundTypes'
  BY DEF IInv, LockUsage, queueVars, QueueTypes, NewEvents, BoundTypes
<1> QED BY <1>1, QuietStep DEF LockUsage, queueVars

-----------------------------------------------------------------------------
(* The theorems. *)

LEMMA InductiveStep == SafeInv /\ [Next]_vars => SafeInv'
<1> SUFFICES ASSUME SafeInv, [Next]_vars PROVE SafeInv' OBVIOUS
<1> IInv BY DEF SafeInv
<1> SUFFICES IInv' BY LockStep DEF SafeInv
<1>1. CASE Arrival BY <1>1, ArrivalStep
<1>2. CASE Manager BY <1>2, ManagerStep
<1>3. ASSUME NEW w \in Workers, Act(w) PROVE IInv'
  BY <1>3, LockUsageStep, ReadStep, WriteStep, CheckDealStep, CreateDealStep,
     CheckTaskStep, CreateTaskStep, StoreStep, ApplyStep, RecordStep DEF Act
<1>4. ASSUME NEW w \in Workers, Work(w) PROVE IInv'
  BY <1>3, <1>4, SelectStep, SkipEventStep, IgnoreStep, ThrottleStep, ClaimStep,
     FailStep, CompleteStep, RejectStep, TechnicalStep, DeathStep DEF Work
<1>5. CASE UNCHANGED vars
  <2>1. QueueTypes' /\ NewEvents' /\ BoundTypes'
    BY <1>5 DEF IInv, QueueTypes, NewEvents, BoundTypes, vars, queueVars
  <2> QED BY <1>5, <2>1, QuietStep DEF vars, queueVars
<1> QED BY <1>1, <1>2, <1>4, <1>5 DEF Next

(* Events and workers are sound: an event has one worker, which finds it   *)
(* PROCESSING, is tried once more than there are delays, and the types of  *)
(* rows, records and counters hold.                                        *)
THEOREM Invariance == Spec => []Inv
<1>1. SafeInv => Inv BY TypeParts DEF SafeInv, LockInv, IInv, WorkInv, EffectInv, Inv
<1> QED BY <1>1, InitInv, InductiveStep, PTL DEF Spec

(* What an event did is what its records say, once, through failures,      *)
(* retries and deaths.                                                     *)
THEOREM RecordsAgree == Spec => []RecordsMatchEffects
<1>1. SafeInv => RecordsMatchEffects BY DEF SafeInv, IInv, EffectInv
<1> QED BY <1>1, InitInv, InductiveStep, PTL DEF Spec

(* AIUsageDaily counts every enrichment, deal and task, though workers read *)
(* and write it in steps of their own, and the limits of the day and of a  *)
(* chat hold for all of them together: the row is read under its lock.     *)
THEOREM LimitsHold == Spec => []UsageWithinLimits
<1>1. SafeInv => UsageWithinLimits BY DEF SafeInv, IInv, EffectInv
<1> QED BY <1>1, InitInv, InductiveStep, PTL DEF Spec

(* A row becomes "ai" in the write of an enrichment only, which finds it   *)
(* at the version at which it was blank.                                   *)
LEMMA OnlyWriteFills ==
    ASSUME IInv, [Next]_vars, NEW r \in Rows, value[r] = "manager"
    PROVE  value'[r] # "ai"
<1>0. RowTypes /\ WorkerTypes BY DEF IInv, WorkInv, EffectInv
<1>1. ASSUME UNCHANGED value PROVE value'[r] # "ai" BY <1>1
<1>2. CASE Arrival
  BY <1>1, <1>2 DEF Arrival, Enqueue, BecomesDue, ThrottleEnds, crmVars
<1>3. CASE Manager
  BY <1>0, <1>1, <1>3 DEF Manager, EditRow, EraseMessages, crmVars, RowTypes
<1>4. ASSUME NEW w \in Workers, NEW a \in {"contact", "details"}, WriteRow(w, a)
      PROVE  value'[r] # "ai"
  <2>1. CASE UNCHANGED value BY <1>1, <2>1
  <2>2. CASE Unchanged(w, Target(w, a)) /\ value' = [value EXCEPT ![Target(w, a)] = "ai"]
    <3>1. Stands(w) /\ pc[w] = Writing(a) BY <1>4 DEF IInv, WorkInv, WriteRow
    <3>2. WriteStands(w, a) BY <3>1 DEF Stands, Writing
    <3>3. value[Target(w, a)] = "blank" BY <2>2, <3>2 DEF WriteStands, Unchanged
    <3> QED BY <1>0, <2>2, <3>3 DEF RowTypes
  <2> QED BY <1>4, <2>1, <2>2 DEF WriteRow
<1>5. ASSUME NEW w \in Workers, CreateDeal(w) PROVE value'[r] # "ai"
  BY <1>0, <1>1, <1>5 DEF CreateDeal, RowTypes
<1>6. ASSUME NEW w \in Workers, Act(w) PROVE value'[r] # "ai"
  <2>1. ASSUME NEW a \in {"contact", "details"}, ReadRow(w, a) PROVE UNCHANGED value
    BY <2>1 DEF ReadRow, crmVars
  <2>2. CASE LockUsage(w) \/ CheckDeal(w) \/ CheckTask(w) \/ CreateTask(w)
    BY <1>1, <2>2 DEF LockUsage, CheckDeal, CheckTask, CreateTask, crmVars
  <2>3. CASE StoreInsight(w) \/ ApplyInsight(w) \/ RecordInsight(w)
    BY <1>1, <2>3 DEF StoreInsight, ApplyInsight, RecordInsight, crmVars
  <2> QED BY <1>1, <1>4, <1>5, <1>6, <2>1, <2>2, <2>3 DEF Act
<1>7. ASSUME NEW w \in Workers, Work(w) PROVE value'[r] # "ai"
  <2>1. ASSUME NEW m \in Messages,
               SkipEvent(w, m) \/ IgnoreEvent(w, m) \/ ThrottleEvent(w, m)
                   \/ ClaimEvent(w, m)
        PROVE  UNCHANGED value
    BY <2>1 DEF SkipEvent, IgnoreEvent, ThrottleEvent, ClaimEvent, crmVars
  <2>2. CASE SelectEvents(w) \/ AnalysisFails(w) \/ CompleteEvent(w) \/ ActionFails(w)
             \/ RejectEvent(w) \/ MarkTechnical(w) \/ WorkerDies(w)
    BY <1>1, <2>2 DEF SelectEvents, AnalysisFails, CompleteEvent, ActionFails,
                      RejectEvent, MarkTechnical, WorkerDies, crmVars
  <2> QED BY <1>1, <1>6, <1>7, <2>1, <2>2 DEF Work
<1>8. CASE UNCHANGED vars BY <1>1, <1>8 DEF vars, crmVars
<1> QED BY <1>2, <1>3, <1>7, <1>8 DEF Next

(* What a manager has entered stays: the AI writes only what is as it was  *)
(* when it read an empty field.                                            *)
THEOREM ManagersKeepData == Spec => ManagersDataStays
<1>1. SafeInv /\ [Next]_vars
          => [\A r \in Rows : value[r] = "manager" => value'[r] # "ai"]_vars
  BY OnlyWriteFills DEF SafeInv
<1> QED BY <1>1, InitInv, InductiveStep, PTL DEF Spec, ManagersDataStays
=============================================================================
