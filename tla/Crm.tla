--------------------------------- MODULE Crm ---------------------------------
(***************************************************************************)
(* Crm: the stages and the deals of the board (deals/services.py), tasks   *)
(* (tasks/services.py), contacts (contacts/services.py) and the settings   *)
(* of the workspace (workspaces/services.py).                              *)
(*                                                                         *)
(* A request opens a row, which gives it the version it will submit, locks *)
(* the rows it works on, reads others without a lock, and writes when it   *)
(* commits.  A statement takes its locks at once.  A reference that is     *)
(* written waits for a row that is locked, and never asks whether the row  *)
(* is deleted: a deletion here is a flag.  A request that is refused       *)
(* changes nothing.  What a row says of itself (a name, an amount, a       *)
(* status) is its version; `records' counts the rows of DealHistory,       *)
(* TaskHistory and of the audit logs that tell of a version.               *)
(***************************************************************************)
EXTENDS Naturals, FiniteSets

CONSTANTS
    Requests,               \* handlers of the API that run at a time
    Deals, Tasks, Contacts, Workspace, Keys,
    Menus,                  \* bound: sets of operations that are mixed
    MaxStages,              \* bound: stages that there ever are
    StageLimit,             \* live stages of a workspace, 20 in create_stage
    Gap,                    \* what _reorder adds, 100
    MaxVersion,             \* bound
    None

Stages == 1 .. MaxStages
System == 1                 \* the stage with is_system

Rows == Stages \cup Deals \cup Tasks \cup Contacts \cup {Workspace}

ASSUME CrmAssumption ==
    /\ MaxStages \in Nat \ {0, 1} /\ StageLimit \in Nat \ {0} /\ MaxVersion \in Nat \ {0}
    /\ Gap \in Nat /\ Gap > StageLimit
    /\ None \notin Rows \cup Keys
    /\ Stages \cap (Deals \cup Tasks \cup Contacts \cup {Workspace}) = {}
    /\ Deals \cap (Tasks \cup Contacts \cup {Workspace}) = {}
    /\ Tasks \cap (Contacts \cup {Workspace}) = {} /\ Workspace \notin Contacts

VARIABLES
    menu,                   \* the operations of this behaviour
    born, gone,             \* rows that were created, rows with is_deleted
    version, records,
    order,                  \* SalesStage.order
    at,                     \* Deal.stage
    contact,                \* Deal.contact and Task.contact
    deal,                   \* Task.deal
    recorded,               \* idempotency records
    effects,                \* what was done under a key
    pc, call                \* requests

rowVars == <<born, gone, version, records>>
boardVars == <<order, at>>
linkVars == <<contact, deal>>
keyVars == <<recorded, effects>>
requestVars == <<pc, call>>
vars == <<menu, rowVars, boardVars, linkVars, keyVars, requestVars>>

Live == born \ gone
Keyed == {"create_deal", "move_deal", "create_task", "settings"}

(* The system stage and another one; a deal that may have a contact, and a *)
(* task that belongs to it.                                                *)
Init ==
    /\ menu \in Menus
    /\ \E d \in Deals, t \in Tasks, s \in {1, 2}, B \in {{}, Contacts} : \E c \in B \cup {None} :
           /\ born = {1, 2, d, t, Workspace} \cup B
           /\ at = [x \in Deals |-> IF x = d THEN s ELSE None]
           /\ contact = [x \in Deals \cup Tasks |-> IF x = d THEN c ELSE None]
           /\ deal = [x \in Tasks |-> IF x = t THEN d ELSE None]
    /\ gone = {}
    /\ version = [x \in Rows |-> IF x \in born THEN 1 ELSE 0]
    /\ records = version
    /\ order = [s \in Stages |-> IF s \in {1, 2} THEN s ELSE 0]
    /\ recorded = {}
    /\ effects = [e \in Keyed \X Keys |-> 0]
    /\ pc = [r \in Requests |-> "idle"]
    /\ call = [r \in Requests |-> None]

-----------------------------------------------------------------------------
(* Requests and locks *)

Begin(r, op) == pc[r] = "idle" /\ op \in menu
Go(r, step, c) == pc' = [pc EXCEPT ![r] = step] /\ call' = [call EXCEPT ![r] = c]
End(r) == Go(r, "idle", None)
Locked(r, op) == pc[r] = "locked" /\ call[r].op = op

(* Mutant: the rows are read without select_for_update.                    *)
Free_NotLocked(X) == TRUE

Free(X) == \A r \in Requests : pc[r] = "locked" => call[r].rows \cap X = {}

(* A written reference waits for those who have locked its row.            *)
Referable(old, new) == new = old \/ new = None \/ Free({new})

Known(op, k) == <<op, k>> \in recorded

(* Mutant: the unique index of the idempotency records is missing.         *)
Fits_NotUnique(op, k) == TRUE

(* The record of the key goes in with the effect: a second one is refused  *)
(* by the unique index and takes the effect back with it.                  *)
Fits(op, k) == <<op, k>> \notin recorded

Record(op, k) ==
    IF k = None THEN UNCHANGED keyVars
    ELSE /\ recorded' = recorded \cup {<<op, k>>}
         /\ effects' = [effects EXCEPT ![<<op, k>>] = @ + 1]

Room(X) == \A x \in X : version[x] < MaxVersion
Raised(f, X) == [x \in Rows |-> IF x \in X THEN f[x] + 1 ELSE f[x]]

(* One more record and one more version for each of the rows X. *)
Renew(X) == version' = Raised(version, X) /\ records' = Raised(records, X)

(* The row of r gets the version after the one that r has read. *)
Save(r) ==
    LET x == call[r].row IN
    /\ version' = [version EXCEPT ![x] = call[r].read + 1]
    /\ records' = Raised(records, {x})

-----------------------------------------------------------------------------
(* Editing under a version *)

(* A client has read the row; a key it sends is looked for first.          *)
Open(r, op, x, k) ==
    /\ Begin(r, op)
    /\ x \in Live /\ Room({x})
    /\ k # None => op = "settings" \/ ~Known(op, k)
    /\ Go(r, "open", [op |-> op, row |-> x, rows |-> {}, version |-> version[x],
                      key |-> k])
    /\ UNCHANGED <<menu, rowVars, boardVars, linkVars, keyVars>>

(* Mutant: the submitted version is not compared.                          *)
Agrees_NotCompared(r) == TRUE

Agrees(r) == version[call[r].row] = call[r].version

ContactsFor(x) == (Live \cap Contacts) \cup (IF x \in Tasks THEN {None, contact[x]} ELSE {})

(* What the edit will write, checked against rows that are not locked:     *)
(* _active_contact, _resolve_contact, _resolve_deal, _validate_relations.  *)
Proposals(op, x) ==
    CASE op = "edit_deal" -> [contact : ContactsFor(x)]
      [] op = "move_deal" -> [stage : (Live \cap Stages) \ {at[x]}]
      [] op = "edit_task" ->
             {p \in [contact : ContactsFor(x), deal : (Live \cap Deals) \cup {None, deal[x]}] :
                  p.contact # None /\ p.deal # None => contact[p.deal] = p.contact}
      [] OTHER -> {None}

LockOpened(r) ==
    LET x == call[r].row
        c == call[r] IN
    /\ pc[r] = "open" /\ Free({x})
    /\ IF x \in Live /\ Agrees(r) /\ (c.op = "settings" /\ c.key # None => ~Known(c.op, c.key))
       THEN \E p \in Proposals(c.op, x) :
                Go(r, "locked", [op |-> c.op, row |-> x, rows |-> {x}, version |-> c.version,
                                 read |-> version[x], key |-> c.key, new |-> p])
       ELSE End(r)
    /\ UNCHANGED <<menu, rowVars, boardVars, linkVars, keyVars>>

SaveDeal(r) ==
    LET d == call[r].row
        new == call[r].new.contact IN
    /\ Locked(r, "edit_deal")
    /\ Referable(contact[d], new)
    /\ contact' = [contact EXCEPT ![d] = new]
    /\ Save(r) /\ End(r)
    /\ UNCHANGED <<menu, born, gone, boardVars, deal, keyVars>>

(* The target was live when it was read; the reference asks no more.       *)
MoveDeal(r) ==
    LET d == call[r].row
        new == call[r].new.stage
        k == call[r].key IN
    /\ Locked(r, "move_deal")
    /\ Free({new})
    /\ End(r)
    /\ IF k # None /\ ~Fits("move_deal", k)
       THEN UNCHANGED <<version, records, at, keyVars>>
       ELSE /\ at' = [at EXCEPT ![d] = new]
            /\ Save(r)
            /\ Record("move_deal", k)
    /\ UNCHANGED <<menu, born, gone, order, linkVars>>

(* update_task and update_task_status; the latter changes no reference.    *)
SaveTask(r) ==
    LET t == call[r].row
        new == call[r].new IN
    /\ Locked(r, "edit_task")
    /\ Referable(contact[t], new.contact) /\ Referable(deal[t], new.deal)
    /\ contact' = [contact EXCEPT ![t] = new.contact]
    /\ deal' = [deal EXCEPT ![t] = new.deal]
    /\ Save(r) /\ End(r)
    /\ UNCHANGED <<menu, born, gone, boardVars, keyVars>>

SaveContact(r) ==
    /\ Locked(r, "edit_contact")
    /\ Save(r) /\ End(r)
    /\ UNCHANGED <<menu, born, gone, boardVars, linkVars, keyVars>>

(* The key was looked for under the lock of the workspace.                 *)
SaveSettings(r) ==
    /\ Locked(r, "settings")
    /\ Save(r) /\ End(r)
    /\ Record("settings", call[r].key)
    /\ UNCHANGED <<menu, born, gone, boardVars, linkVars>>

-----------------------------------------------------------------------------
(* Creation *)

Insert(x) ==
    /\ born' = born \cup {x}
    /\ version' = [version EXCEPT ![x] = 1]
    /\ records' = Raised(records, {x})

CreateContact(r) ==
    /\ Begin(r, "create_contact")
    /\ \E c \in Contacts \ born : Insert(c)
    /\ UNCHANGED <<menu, gone, boardVars, linkVars, keyVars, requestVars>>

(* The key is looked for before the transaction; create_task has read the  *)
(* deal and the contact by then.                                           *)
FindKey(r, op, k) ==
    /\ Begin(r, op) /\ ~Known(op, k)
    /\ \E c \in (Live \cap Contacts) \cup {None}, d \in (Live \cap Deals) \cup {None} :
           /\ IF op = "create_deal" THEN d = None
              ELSE c # None /\ d # None => contact[d] = c
           /\ Go(r, "insert", [op |-> op, key |-> k, contact |-> c, deal |-> d])
    /\ UNCHANGED <<menu, rowVars, boardVars, linkVars, keyVars>>

(* The system stage is locked, the contact is read after it, without a     *)
(* lock: here the insert follows at once.  In the code it may wait behind  *)
(* a deletion of the contact and refer to it all the same.                 *)
CreateDeal(r) ==
    LET c == call[r] IN
    /\ pc[r] = "insert" /\ c.op = "create_deal"
    /\ Free({System}) /\ (c.contact # None => Free({c.contact}))
    /\ End(r)
    /\ IF Fits("create_deal", c.key) /\ (c.contact # None => c.contact \in Live)
       THEN \E d \in Deals \ born :
                /\ Insert(d)
                /\ at' = [at EXCEPT ![d] = System]
                /\ contact' = [contact EXCEPT ![d] = c.contact]
                /\ Record("create_deal", c.key)
       ELSE UNCHANGED <<born, version, records, at, contact, keyVars>>
    /\ UNCHANGED <<menu, gone, order, deal>>

CreateTask(r) ==
    LET c == call[r] IN
    /\ pc[r] = "insert" /\ c.op = "create_task"
    /\ Referable(None, c.contact) /\ Referable(None, c.deal)
    /\ End(r)
    /\ IF Fits("create_task", c.key)
       THEN \E t \in Tasks \ born :
                /\ Insert(t)
                /\ contact' = [contact EXCEPT ![t] = c.contact]
                /\ deal' = [deal EXCEPT ![t] = c.deal]
                /\ Record("create_task", c.key)
       ELSE UNCHANGED <<born, version, records, linkVars, keyVars>>
    /\ UNCHANGED <<menu, gone, boardVars>>

-----------------------------------------------------------------------------
(* Deletion *)

(* _detach_related_tasks: the tasks that are detached from X.              *)
TasksOf(f, X) == {t \in Tasks \cap Live : f[t] \in X}

(* delete_deal and the deletions of one or many contacts lock their rows.  *)
LockToDelete(r, op, X) ==
    /\ Begin(r, op)
    /\ X # {} /\ X \subseteq Live /\ Free(X)
    /\ Go(r, "locked", [op |-> op, rows |-> X])
    /\ UNCHANGED <<menu, rowVars, boardVars, linkVars, keyVars>>

DeleteDeal(r) ==
    LET X == call[r].rows
        T == TasksOf(deal, X) IN
    /\ Locked(r, "delete_deal")
    /\ Free(T) /\ Room(X \cup T)
    /\ gone' = gone \cup X
    /\ deal' = [t \in Tasks |-> IF t \in T THEN None ELSE deal[t]]
    /\ Renew(X \cup T)
    /\ End(r)
    /\ UNCHANGED <<menu, born, boardVars, contact, keyVars>>

(* The record of a deleted contact tells of no version. *)
DeleteContacts(r) ==
    LET X == call[r].rows
        T == TasksOf(contact, X) IN
    /\ Locked(r, "delete_contact")
    /\ Free(T) /\ Room(T)
    /\ gone' = gone \cup X
    /\ contact' = [x \in Deals \cup Tasks |-> IF x \in T THEN None ELSE contact[x]]
    /\ Renew(T)
    /\ End(r)
    /\ UNCHANGED <<menu, born, boardVars, deal, keyVars>>

(* delete_task and bulk_delete_tasks do all of it at once. *)
DeleteTasks(r, T) ==
    /\ Begin(r, "delete_task")
    /\ T # {} /\ T \subseteq Live /\ Free(T) /\ Room(T)
    /\ gone' = gone \cup T
    /\ Renew(T)
    /\ UNCHANGED <<menu, born, boardVars, linkVars, keyVars, requestVars>>

-----------------------------------------------------------------------------
(* Stages *)

Board == Live \cap Stages

(* The places of the stages S in the order f, from 1 on. *)
Places(f, S) == [s \in S |-> Cardinality({u \in S : f[u] <= f[s]})]

(* The list with these places and s inserted at place i. *)
Put(places, s, i) ==
    [u \in DOMAIN places \cup {s} |->
        IF u = s THEN i ELSE IF places[u] < i THEN places[u] ELSE places[u] + 1]

(* _reorder: the live stages S are moved out of the way, then the listed   *)
(* ones are numbered.  One that is not in the list stays out of the way.   *)
Reordered(places, S) ==
    [s \in Stages |->
        IF s \in DOMAIN places THEN places[s]
        ELSE IF s \in S THEN order[s] + Gap ELSE order[s]]

(* max(order, 2) *)
Positions(n) == 2 .. n

(* The live stages are listed; some may have to be waited for.             *)
ListStages(r) ==
    /\ Begin(r, "create_stage")
    /\ Go(r, "listed", [op |-> "create_stage", seen |-> [s \in Board |-> order[s]]])
    /\ UNCHANGED <<menu, rowVars, boardVars, linkVars, keyVars>>

(* The locked list has lost those that were deleted since, and has not the *)
(* new ones; it is in the order of the statement that read it.             *)
CreateStage(r) ==
    LET kept == DOMAIN call[r].seen \cap Live
        n == Cardinality(kept) IN
    /\ pc[r] = "listed"
    /\ Free(Board)
    /\ End(r)
    /\ IF n >= StageLimit \/ \E s \in Board : order[s] = Gap + n + 1
       THEN UNCHANGED <<born, version, records, order>>
       ELSE LET s == CHOOSE x \in Stages \ born : \A y \in Stages \ born : x <= y IN
            /\ Stages \ born # {}
            /\ Insert(s)
            /\ \E i \in Positions(n + 1) :
                   order' = Reordered(Put(Places(call[r].seen, kept), s, i), Board)
    /\ UNCHANGED <<menu, gone, at, linkVars, keyVars>>

(* update_stage holds one stage; to reorder it waits for the others.       *)
UpdateStage(r) ==
    LET s == call[r].row IN
    /\ Locked(r, "update_stage")
    /\ \/ UNCHANGED order
       \/ /\ Free(Board \ {s})
          /\ \E i \in Positions(Cardinality(Board)) :
                 /\ i # order[s]
                 /\ order' = Reordered(Put(Places(order, Board \ {s}), s, i), Board)
    /\ Save(r) /\ End(r)
    /\ UNCHANGED <<menu, born, gone, at, linkVars, keyVars>>

(* Mutant: the deals are taken without is_deleted=False.                   *)
DealsOn_EvenDeleted(s) == {d \in Deals : at[d] = s}

DealsOn(s) == {d \in Deals \cap Live : at[d] = s}

(* The stage is locked; the system stage and the deals follow, the deals   *)
(* are moved, the stage is deleted and the rest is numbered again.         *)
DeleteStage(r) ==
    LET s == call[r].row
        D == DealsOn(s) IN
    /\ Locked(r, "delete_stage")
    /\ Free(D \cup (Board \ {s})) /\ Room(D)
    /\ at' = [d \in Deals |-> IF d \in D THEN System ELSE at[d]]
    /\ Renew(D)
    /\ gone' = gone \cup {s}
    /\ order' = Reordered(Places(order, Board \ {s}), Board \ {s})
    /\ End(r)
    /\ UNCHANGED <<menu, born, linkVars, keyVars>>

-----------------------------------------------------------------------------
(* The rows that a request with locks still waits for. *)
Awaited(r) ==
    LET c == call[r] IN
    CASE c.op = "edit_deal" -> {c.new.contact}
      [] c.op = "move_deal" -> {c.new.stage}
      [] c.op = "edit_task" -> {c.new.contact, c.new.deal}
      [] c.op = "delete_deal" -> TasksOf(deal, c.rows)
      [] c.op = "delete_contact" -> TasksOf(contact, c.rows)
      [] c.op = "update_stage" -> Board \ c.rows
      [] c.op = "delete_stage" -> DealsOn(c.row) \cup (Board \ c.rows)
      [] OTHER -> {}

(* Two requests that wait for each other: the database takes one of them   *)
(* back, and its client gets an error.                                     *)
BreakDeadlock(r, q) ==
    /\ r # q /\ pc[r] = "locked" /\ pc[q] = "locked"
    /\ Awaited(r) \cap call[q].rows # {} /\ Awaited(q) \cap call[r].rows # {}
    /\ End(r)
    /\ UNCHANGED <<menu, rowVars, boardVars, linkVars, keyVars>>

Opened(op) ==
    CASE op \in {"edit_deal", "move_deal"} -> Deals
      [] op = "edit_task" -> Tasks
      [] op = "edit_contact" -> Contacts
      [] op = "settings" -> {Workspace}
      [] OTHER -> Stages \ {System}

Edit(r) ==
    \/ \E op \in {"edit_deal", "edit_task", "edit_contact", "update_stage", "delete_stage"} :
           \E x \in Opened(op) : Open(r, op, x, None)
    \/ \E op \in {"move_deal", "settings"}, k \in Keys \cup {None} :
           \E x \in Opened(op) : Open(r, op, x, k)
    \/ LockOpened(r)
    \/ SaveDeal(r) \/ MoveDeal(r) \/ SaveTask(r) \/ SaveContact(r) \/ SaveSettings(r)

Create(r) ==
    \/ CreateContact(r)
    \/ \E op \in {"create_deal", "create_task"}, k \in Keys : FindKey(r, op, k)
    \/ CreateDeal(r) \/ CreateTask(r)

Delete(r) ==
    \/ \E d \in Deals : LockToDelete(r, "delete_deal", {d})
    \/ \E X \in SUBSET Contacts : LockToDelete(r, "delete_contact", X)
    \/ DeleteDeal(r) \/ DeleteContacts(r)
    \/ \E T \in SUBSET Tasks : DeleteTasks(r, T)

Arrange(r) == ListStages(r) \/ CreateStage(r) \/ UpdateStage(r) \/ DeleteStage(r)

Next ==
    \/ \E r \in Requests : Edit(r) \/ Create(r) \/ Delete(r) \/ Arrange(r)
    \/ \E r, q \in Requests : BreakDeadlock(r, q)

Spec == Init /\ [][Next]_vars

-----------------------------------------------------------------------------
(* Properties *)

(* The variables have their types, live stages have different orders and a *)
(* deal is always on some stage (SalesStage, Deal.stage).                  *)
TypeOK ==
    /\ menu \in Menus
    /\ born \subseteq Rows /\ gone \subseteq born
    /\ version \in [Rows -> 0 .. MaxVersion] /\ records \in [Rows -> Nat]
    /\ order \in [Stages -> Nat]
    /\ \A s, u \in Board : order[s] = order[u] => s = u
    /\ \A d \in Deals : at[d] \in (IF d \in born THEN Stages ELSE {None})
    /\ contact \in [Deals \cup Tasks -> Contacts \cup {None}]
    /\ deal \in [Tasks -> Deals \cup {None}]
    /\ recorded \subseteq Keyed \X Keys
    /\ effects \in [Keyed \X Keys -> Nat]
    /\ pc \in [Requests -> {"idle", "open", "locked", "insert", "listed"}]

(* The system stage, where new deals and those of deleted stages go, is    *)
(* live and the first of the board whatever create_stage, update_stage and *)
(* delete_stage do at the same time.                                       *)
SystemStageFirst ==
    /\ System \in Board /\ order[System] = 1
    /\ \A s \in Board \ {System} : order[s] > 1

(* A deal, a task, a contact and the settings have one record for each of  *)
(* their versions: no change overwrites another one that it has not read   *)
(* (_record_history, _record_event, _audit, WorkspaceAuditLog).            *)
HistoryMatchesVersion == \A x \in Rows \ Stages : records[x] = version[x]

(* The state of the tables is sound: types, the board, the history.        *)
Inv == TypeOK /\ SystemStageFirst /\ HistoryMatchesVersion

(* What an edit is about to overwrite is the version its client has seen,  *)
(* until it commits (VERSION_CONFLICT, version_conflict).                  *)
NoLostUpdate ==
    \A r \in Requests :
        pc[r] = "locked" /\ call[r].op \notin {"delete_deal", "delete_contact"} =>
            version[call[r].row] = call[r].version

(* A key has one effect, however many requests bring it at the same time   *)
(* (DealIdempotencyRecord, TaskIdempotencyRecord, the lock of the          *)
(* workspace).                                                             *)
OneResultPerKey == \A o \in Keyed, k \in Keys : effects[<<o, k>>] <= 1

(* A deleted deal, task or contact is not changed by a request that was    *)
(* under way: not moved with its stage, not detached, not edited.          *)
NothingAfterDeletion ==
    [][/\ gone \subseteq gone'
       /\ \A x \in gone : version'[x] = version[x] /\ records'[x] = records[x]
       /\ \A d \in gone \cap Deals : at'[d] = at[d] /\ contact'[d] = contact[d]
       /\ \A t \in gone \cap Tasks : deal'[t] = deal[t] /\ contact'[t] = contact[t]]_vars

(* The properties below do not hold. *)

(* A live deal is on a live stage: move_deal reads its target without a    *)
(* lock, and delete_stage empties it meanwhile.                            *)
DealsOnLiveStages == \A d \in Deals \cap Live : at[d] \in Live

(* A live task belongs to live deals and contacts: create_task and         *)
(* update_task read them without a lock before a deletion commits.         *)
TasksHaveLiveRelations ==
    \A t \in Tasks \cap Live : {deal[t], contact[t]} \subseteq Live \cup {None}

(* A workspace has at most StageLimit live stages: two create_stage count  *)
(* the stages of their own snapshots.                                      *)
WithinStageLimit == Cardinality(Board) <= StageLimit

(* The board is numbered without gaps: the stage of the other create_stage *)
(* is left out of the way.                                                 *)
DenseOrders == \A s \in Board : order[s] <= Cardinality(Board)

(* No two requests wait for each other: update_task refers to a deal that  *)
(* delete_deal holds while it waits for the task, update_stage waits for   *)
(* another one.                                                            *)
NoDeadlock == [][\A r, q \in Requests : ~BreakDeadlock(r, q)]_vars

=============================================================================
