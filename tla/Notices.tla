------------------------------- MODULE Notices -------------------------------
(***************************************************************************)
(* The notices of one user (notifications/services.py): events and the     *)
(* scans of management commands create them, the user reads and deletes    *)
(* them, and a counter of unread notices is sent behind each commit.       *)
(*                                                                         *)
(* create_notification looks for a notice of the last minute and locks it; *)
(* when there is none, nothing is locked before the insert.  A scan lists  *)
(* its subjects first and looks for an earlier notice of each before it    *)
(* creates one.  Users share tasks and chats only, so one is enough.       *)
(***************************************************************************)
EXTENDS Naturals, FiniteSets

CONSTANTS
    Handlers,               \* requests and events that run at a time
    Scanners,               \* runs of the check_* commands
    Tasks, Chats,           \* what is watched once a day, and what is missed
    Menus,                  \* bound: the tasks and chats a behaviour uses
    MaxNotices, MaxTime,    \* bounds
    MaxStops,               \* bound: processes that stop
    Window,                 \* AGGREGATION_WINDOW
    MissedAfter,            \* CHAT_MISSED_AFTER_MINUTES
    DayStart,               \* local_day_bounds of a time
    None

Times == 0 .. MaxTime
Ids == 1 .. MaxNotices      \* in the order of created_at
Processes == Handlers \cup Scanners

(* What a scan may say of a task: TASK_DUE_SOON or TASK_OVERDUE, which it   *)
(* may be on one day; of a deal it is DEAL_ATTENTION only.                 *)
DailyKinds == {"due soon", "overdue"}

(* A notice to create. *)
Items == [kind : {"event", "missed"} \cup DailyKinds, about : Tasks \cup Chats,
          since : Times, clock : Times]

ASSUME NoticesAssumption ==
    /\ MaxNotices \in Nat /\ MaxTime \in Nat /\ MaxStops \in Nat
    /\ Window \in Nat /\ MissedAfter \in Nat
    /\ DayStart \in [Times -> Times] /\ \A t \in Times : DayStart[t] <= t
    /\ \A t, u \in Times : t <= u => DayStart[t] <= DayStart[u]
    /\ Handlers \cap Scanners = {} /\ Tasks \cap Chats = {}
    /\ Menus \subseteq SUBSET (Tasks \cup Chats)
    /\ None \notin Items

VARIABLES
    menu, time,
    due,                    \* what a scan would say of a task now
    unread,                 \* created_at of the unread messages of a chat
    notices,                \* Notification rows
    counted,                \* the unread_count that was sent last
    pc, item,               \* processes: step, notice to create
    listed,                 \* the subjects a scan has listed
    stopped                 \* processes that have stopped so far

worldVars == <<menu, time, due, unread>>
processVars == <<pc, item, listed>>
noticesVars == <<worldVars, notices, counted, processVars, stopped>>

NoNotice == [kind |-> "none", about |-> None, at |-> 0, read |-> FALSE, deleted |-> FALSE]

NoticesInit ==
    /\ menu \in Menus
    /\ time = 0
    /\ due = [t \in Tasks |-> "none"]
    /\ unread = [c \in Chats |-> {}]
    /\ notices = [i \in Ids |-> NoNotice]
    /\ counted = 0
    /\ pc = [p \in Processes |-> "idle"]
    /\ item = [p \in Processes |-> None]
    /\ listed = [p \in Processes |-> {}]
    /\ stopped = 0

-----------------------------------------------------------------------------
Created == {i \in Ids : notices[i].kind # "none"}
Live == {i \in Created : ~notices[i].deleted}
Unread == {i \in Live : ~notices[i].read}
About(x) == {i \in Created : notices[i].kind = x.kind /\ notices[i].about = x.about}
Latest(S) == CHOOSE i \in S : \A j \in S : j <= i
First(S) == CHOOSE t \in S : \A u \in S : t <= u

Go(p, step) == pc' = [pc EXCEPT ![p] = step]
Free(p) == pc[p] = "idle" /\ listed[p] = {}

(* Bound: a process that may create a notice will find a row for it.       *)
Room == Cardinality(Created) + Cardinality({p \in Processes : item[p] # None}) < MaxNotices

-----------------------------------------------------------------------------
(* create_notification *)

Recent(x) == {i \in About(x) \cap Live : notices[i].at + Window >= x.clock}

(* Mutant: a notice that is shown already is taken to be counted.          *)
AfterUpdate_NotCounted == "idle"

AfterUpdate == "count"

(* The message of an event is committed with its notice.                   *)
CommitEvent(x) ==
    unread' = IF x.kind = "event" THEN [unread EXCEPT ![x.about] = @ \cup {x.clock}]
                                  ELSE unread

UpdateRecent(p) ==
    LET x == item[p] IN
    /\ pc[p] = "create"
    /\ Recent(x) # {}
    /\ notices' = [notices EXCEPT ![Latest(Recent(x))].read = FALSE]
    /\ CommitEvent(x)
    /\ item' = [item EXCEPT ![p] = None]
    /\ Go(p, AfterUpdate)
    /\ UNCHANGED <<menu, time, due, counted, listed, stopped>>

FindNone(p) ==
    /\ pc[p] = "create"
    /\ Recent(item[p]) = {}
    /\ Go(p, "insert")
    /\ UNCHANGED <<worldVars, notices, counted, item, listed, stopped>>

Insert(p) ==
    LET x == item[p] IN
    /\ pc[p] = "insert"
    /\ notices' = [notices EXCEPT ![First(Ids \ Created)] =
                [kind |-> x.kind, about |-> x.about, at |-> time,
                 read |-> FALSE, deleted |-> FALSE]]
    /\ CommitEvent(x)
    /\ item' = [item EXCEPT ![p] = None]
    /\ Go(p, "count")
    /\ UNCHANGED <<menu, time, due, counted, listed, stopped>>

(* The hook behind a commit reads the number of unread notices and sends   *)
(* it.  Both are one step: that two processes send their counts in another *)
(* order than they have read them is left out.                             *)
Count(p) ==
    /\ pc[p] = "count"
    /\ counted' = Cardinality(Unread)
    /\ Go(p, "idle")
    /\ UNCHANGED <<worldVars, notices, item, listed, stopped>>

(* The row of the contact is locked, before the message gets its time,     *)
(* until the message is committed.                                         *)
Writing(c) ==
    \E q \in Processes :
        item[q] # None /\ item[q].kind = "event" /\ item[q].about = c

(* A customer writes.  The notice belongs to the transaction of the        *)
(* message.                                                                *)
Arrive(p, c) ==
    /\ Free(p) /\ c \in menu /\ Room
    /\ ~Writing(c)
    /\ item' = [item EXCEPT ![p] = [kind |-> "event", about |-> c, since |-> time, clock |-> time]]
    /\ Go(p, "create")
    /\ UNCHANGED <<worldVars, notices, counted, listed, stopped>>

-----------------------------------------------------------------------------
(* The scans *)

Since == DayStart[time]

Due == {t \in Tasks : due[t] # "none"}

(* create_task_deadline_notifications, create_deal_attention_notifications *)
StartDailyScan(p) ==
    /\ Free(p)
    /\ Due # {}
    /\ listed' = [listed EXCEPT ![p] =
            {[kind |-> due[t], about |-> t, since |-> Since, clock |-> time] : t \in Due}]
    /\ UNCHANGED <<worldVars, notices, counted, pc, item, stopped>>

Missed == {c \in Chats : \E t \in unread[c] : t + MissedAfter <= time}

(* create_missed_chat_notifications *)
StartMissedScan(p) ==
    /\ Free(p)
    /\ Missed # {}
    /\ listed' = [listed EXCEPT ![p] =
            {[kind |-> "missed", about |-> c, since |-> First(unread[c]), clock |-> time] :
                c \in Missed}]
    /\ UNCHANGED <<worldVars, notices, counted, pc, item, stopped>>

(* Mutant: a notice that has been read is not looked at.                   *)
NotifiedToday_UnreadOnly(x) == \E i \in About(x) \cap Unread : notices[i].at >= x.since

(* _already_notified_today: a notice of another type is not looked at, and *)
(* one that the user deleted is forgotten.                                 *)
NotifiedToday(x) == \E i \in About(x) \cap Live : notices[i].at >= x.since

(* Mutant: a notice that the user deleted is forgotten.                    *)
NotifiedForPeriod_LiveOnly(x) == \E i \in About(x) \cap Live : notices[i].at >= x.since

(* _already_notified_for_unread_period: it is not.                         *)
NotifiedForPeriod(x) == \E i \in About(x) : notices[i].at >= x.since

Notified(x) == IF x.kind \in DailyKinds THEN NotifiedToday(x) ELSE NotifiedForPeriod(x)

TakeItem(p, x) ==
    /\ pc[p] = "idle"
    /\ listed' = [listed EXCEPT ![p] = @ \ {x}]
    /\ UNCHANGED <<worldVars, notices, counted, stopped>>

SkipItem(p, x) ==
    /\ Notified(x)
    /\ TakeItem(p, x)
    /\ UNCHANGED <<pc, item>>

NotifyItem(p, x) ==
    /\ ~Notified(x) /\ Room
    /\ TakeItem(p, x)
    /\ item' = [item EXCEPT ![p] = x]
    /\ Go(p, "create")

(* An exception of a broadcast, or the death of the process: a transaction *)
(* is undone, the hooks and the subjects that are left are lost.           *)
Stop(p) ==
    /\ ~Free(p)
    /\ stopped < MaxStops
    /\ stopped' = stopped + 1
    /\ Go(p, "idle")
    /\ item' = [item EXCEPT ![p] = None]
    /\ listed' = [listed EXCEPT ![p] = {}]
    /\ UNCHANGED <<worldVars, notices, counted>>

-----------------------------------------------------------------------------
(* The user *)

MarkRead(p, i) ==
    /\ Free(p)
    /\ i \in Unread
    /\ notices' = [notices EXCEPT ![i].read = TRUE]
    /\ Go(p, "count")
    /\ UNCHANGED <<worldVars, counted, item, listed, stopped>>

MarkAllRead(p) ==
    /\ Free(p)
    /\ Unread # {}
    /\ notices' = [i \in Ids |-> IF i \in Unread THEN [notices[i] EXCEPT !.read = TRUE]
                                                 ELSE notices[i]]
    /\ Go(p, "count")
    /\ UNCHANGED <<worldVars, counted, item, listed, stopped>>

Delete(p, i) ==
    /\ Free(p)
    /\ i \in Live
    /\ notices' = [notices EXCEPT ![i].deleted = TRUE]
    /\ Go(p, IF i \in Unread THEN "count" ELSE "idle")
    /\ UNCHANGED <<worldVars, counted, item, listed, stopped>>

(* delete_all_notifications asks for unread notices before its update.     *)
StartDeleteAll(p) ==
    /\ Free(p)
    /\ Go(p, IF Unread # {} THEN "delete unread" ELSE "delete read")
    /\ UNCHANGED <<worldVars, notices, counted, item, listed, stopped>>

DeleteAll(p) ==
    /\ pc[p] \in {"delete unread", "delete read"}
    /\ notices' = [i \in Ids |-> IF i \in Live THEN [notices[i] EXCEPT !.deleted = TRUE]
                                               ELSE notices[i]]
    /\ Go(p, IF Live # {} /\ pc[p] = "delete unread" THEN "count" ELSE "idle")
    /\ UNCHANGED <<worldVars, counted, item, listed, stopped>>

-----------------------------------------------------------------------------
(* Tasks, chats and the clock *)

(* Its time comes, or it is edited or done.                                *)
ChangeTask(t) ==
    /\ t \in menu
    /\ \E k \in (DailyKinds \cup {"none"}) \ {due[t]} : due' = [due EXCEPT ![t] = k]
    /\ UNCHANGED <<menu, time, unread, notices, counted, processVars, stopped>>

(* mark_chat_read, or delete_chat, of which the scan sees as little.       *)
ReadChat(c) ==
    /\ unread[c] # {}
    /\ unread' = [unread EXCEPT ![c] = {}]
    /\ UNCHANGED <<menu, time, due, notices, counted, processVars, stopped>>

TimePasses ==
    /\ time < MaxTime
    /\ time' = time + 1
    /\ UNCHANGED <<menu, due, unread, notices, counted, processVars, stopped>>

Hooks(p) == UpdateRecent(p) \/ FindNone(p) \/ Insert(p) \/ Count(p) \/ Stop(p)

Request(h) ==
    \/ \E c \in Chats : Arrive(h, c)
    \/ \E i \in Ids : MarkRead(h, i) \/ Delete(h, i)
    \/ MarkAllRead(h) \/ StartDeleteAll(h) \/ DeleteAll(h)

Scan(s) ==
    \/ StartDailyScan(s) \/ StartMissedScan(s)
    \/ \E x \in listed[s] : SkipItem(s, x) \/ NotifyItem(s, x)

NoticesNext ==
    \/ \E p \in Processes : Hooks(p)
    \/ \E h \in Handlers : Request(h)
    \/ \E s \in Scanners : Scan(s)
    \/ \E t \in Tasks : ChangeTask(t)
    \/ \E c \in Chats : ReadChat(c)
    \/ TimePasses

NoticesSpec == NoticesInit /\ [][NoticesNext]_noticesVars

-----------------------------------------------------------------------------
(* Properties. *)

(* The type invariant.  The rows are numbered as they were created.        *)
NoticesTypeOK ==
    /\ menu \in Menus /\ time \in Times
    /\ due \in [Tasks -> DailyKinds \cup {"none"}]
    /\ unread \in [Chats -> SUBSET Times]
    /\ \A i \in Created : 1 .. i \subseteq Created
    /\ \A i \in Created : notices[i].at \in Times
    /\ counted \in 0 .. MaxNotices
    /\ pc \in [Processes -> {"idle", "create", "insert", "count",
                             "delete unread", "delete read"}]
    /\ \A p \in Processes : item[p] = None \/ item[p] \in Items
    /\ \A p \in Processes : listed[p] \subseteq Items
    /\ stopped \in 0 .. MaxStops

(* Nothing the user has not read goes uncounted: when no process is about  *)
(* to count, and none has stopped, the last count read is not too small    *)
(* (the unread_count_updated hooks of notifications/services.py).          *)
NothingUncounted ==
    stopped = 0 /\ (\A p \in Processes : pc[p] # "count") => counted >= Cardinality(Unread)

(* The state of the notices is sound: types, the counter.                  *)
NoticesInv == NoticesTypeOK /\ NothingUncounted

(* A task or a deal has one notice of each type a day that the user has    *)
(* not deleted, as long as the scans do not overlap: also when the task    *)
(* changes from one type to the other and back, when a scan runs past      *)
(* midnight, stops half-way and is started again                           *)
(* (_already_notified_today).                                              *)
OncePerDay ==
    \A i, j \in Live :
        /\ notices[i].kind \in DailyKinds /\ notices[i].kind = notices[j].kind
        /\ notices[i].about = notices[j].about
        /\ DayStart[notices[i].at] = DayStart[notices[j].at]
        => i = j

(* A chat has one notice of missed messages since its oldest unread one,   *)
(* deleted or not, as long as the scans do not overlap                     *)
(* (_already_notified_for_unread_period).                                  *)
OncePerPeriod ==
    \A c \in Chats : \A i, j \in About([kind |-> "missed", about |-> c]) :
        unread[c] # {} /\ notices[i].at >= First(unread[c])
                       /\ notices[j].at >= First(unread[c]) => i = j

(* The properties below do not hold. *)

(* When nothing is under way, the count that was sent last is the number   *)
(* of unread notices: delete_all_notifications may delete a notice that    *)
(* was not there when it looked for unread ones, and then sends no count.  *)
CountIsUnread ==
    stopped = 0 /\ (\A p \in Processes : Free(p)) => counted = Cardinality(Unread)

(* A task has one notice a day, of whichever type: one that is due soon in *)
(* the morning and overdue in the evening has both.                        *)
OneNoticePerDay ==
    \A i, j \in Live :
        /\ {notices[i].kind, notices[j].kind} \subseteq DailyKinds
        /\ notices[i].about = notices[j].about
        /\ DayStart[notices[i].at] = DayStart[notices[j].at]
        => i = j

(* A notice says what the task is when it is created: the scan does not    *)
(* read the task again.                                                    *)
NoticesAreCurrent ==
    [][\A i \in Ids : notices[i].kind = "none" /\ notices'[i].kind \in DailyKinds
          => due[notices'[i].about] = notices'[i].kind]_noticesVars
=============================================================================
