------------------------------- MODULE CrmProofs -------------------------------
(* Theorems about Crm, for any number of requests, stages and rows. *)
EXTENDS Crm, FiniteSetTheorems, WellFoundedInduction, TLAPS

USE CrmAssumption DEF CrmAssumption

-----------------------------------------------------------------------------
(* The inductive invariant. *)

(* Each version of a row has its record, and a row not there has none. *)
RowInv ==
    /\ born \subseteq Rows /\ gone \subseteq born
    /\ version \in [Rows -> 0 .. MaxVersion] /\ records \in [Rows -> Nat]
    /\ \A x \in Rows \ born : version[x] = 0 /\ records[x] = 0
    /\ HistoryMatchesVersion

BoardInv ==
    /\ order \in [Stages -> Nat]
    /\ \A s, u \in Board : order[s] = order[u] => s = u
    /\ SystemStageFirst

LinkInv ==
    /\ at \in [Deals -> Stages \cup {None}]
    /\ \A d \in Deals : at[d] \in (IF d \in born THEN Stages ELSE {None})
    /\ contact \in [Deals \cup Tasks -> Contacts \cup {None}]
    /\ deal \in [Tasks -> Deals \cup {None}]

(* An effect and the record of its key are one commit. *)
KeyInv ==
    /\ recorded \subseteq Keyed \X Keys
    /\ effects \in [Keyed \X Keys -> Nat]
    /\ \A o \in Keyed, k \in Keys : effects[<<o, k>>] = IF Known(o, k) THEN 1 ELSE 0

EditOps == {"edit_deal", "move_deal", "edit_task", "edit_contact", "settings",
            "update_stage", "delete_stage"}

Edits(c) ==
    /\ c.op \in EditOps /\ c.row \in Opened(c.op)
    /\ c.key \in Keys \cup {None}
    /\ c.version \in 0 .. MaxVersion /\ c.version < MaxVersion

(* What a request read of the row it locked still stands. *)
EditStands(c) ==
    /\ Edits(c)
    /\ c.rows = {c.row} /\ c.row \in Live
    /\ c.read = version[c.row] /\ c.version = version[c.row]
    /\ c.op = "settings" /\ c.key # None => ~Known(c.op, c.key)
    /\ c.op = "edit_deal" => c.new.contact \in Contacts
    /\ c.op = "move_deal" => c.new.stage \in Stages
    /\ c.op = "edit_task" => /\ c.new.contact \in Contacts \cup {None}
                             /\ c.new.deal \in Deals \cup {None}

DeletionStands(c) ==
    \/ c.op = "delete_deal" /\ c.rows \subseteq Deals \cap Live
    \/ c.op = "delete_contact" /\ c.rows \subseteq Contacts \cap Live

(* A list of stages begins with the system stage, whatever has happened to *)
(* the others since.                                                       *)
Lists(f, S) ==
    /\ S \subseteq Stages /\ System \in S
    /\ f[System] = 1
    /\ \A s \in S \ {System} : f[s] \in Nat /\ f[s] > 1
    /\ \A s, u \in S : f[s] = f[u] => s = u

CallStands(step, c) ==
    /\ step = "open" => Edits(c)
    /\ step = "locked" => EditStands(c) \/ DeletionStands(c)
    /\ step = "insert" => /\ c.op \in {"create_deal", "create_task"} /\ c.key \in Keys
                          /\ c.contact \in Contacts \cup {None} /\ c.deal \in Deals \cup {None}
    /\ step = "listed" => Lists(c.seen, DOMAIN c.seen)

CallsStand == \A r \in Requests : CallStands(pc[r], call[r])

LocksExclude ==
    \A r, q \in Requests :
        r # q /\ pc[r] = "locked" /\ pc[q] = "locked" => call[r].rows \cap call[q].rows = {}

RequestInv ==
    /\ pc \in [Requests -> {"idle", "open", "locked", "insert", "listed"}]
    /\ DOMAIN call = Requests
    /\ CallsStand /\ LocksExclude

IInv == menu \in Menus /\ RowInv /\ BoardInv /\ LinkInv /\ KeyInv /\ RequestInv
-----------------------------------------------------------------------------
(* Stages in order. *)

LEMMA BoardIsFinite ==
    ASSUME NEW S \in SUBSET Stages
    PROVE  IsFiniteSet(S) /\ Cardinality(S) \in Nat
<1>1. IsFiniteSet(1 .. MaxStages) BY FS_Interval
<1> QED BY <1>1, FS_Subset, FS_CardinalityType DEF Stages

(* The places are in the order of f. *)
LEMMA PlacesAreOrdered ==
    ASSUME NEW S \in SUBSET Stages, NEW f, \A s \in S : f[s] \in Nat
    PROVE  /\ \A s \in S : Places(f, S)[s] \in 1 .. Cardinality(S)
           /\ \A s, u \in S : f[s] < f[u] => Places(f, S)[s] < Places(f, S)[u]
<1> DEFINE A(s) == {u \in S : f[u] <= f[s]}
<1>1. \A s \in S : Places(f, S)[s] = Cardinality(A(s)) BY DEF Places
<1>2. ASSUME NEW s \in S
      PROVE  Cardinality(A(s)) \in 1 .. Cardinality(S)
  <2>1. A(s) \subseteq S /\ s \in A(s) OBVIOUS
  <2>2. IsFiniteSet(A(s)) /\ Cardinality(A(s)) <= Cardinality(S)
    BY <2>1, BoardIsFinite, FS_Subset
  <2>3. Cardinality(A(s)) \in Nat /\ Cardinality(A(s)) # 0
    BY <2>1, <2>2, FS_EmptySet, FS_CardinalityType
  <2> QED BY <2>2, <2>3, BoardIsFinite
<1>3. ASSUME NEW s \in S, NEW u \in S, f[s] < f[u]
      PROVE  Cardinality(A(s)) < Cardinality(A(u))
  <2>1. A(s) \subseteq A(u) /\ u \in A(u) /\ u \notin A(s) BY <1>3
  <2>2. IsFiniteSet(A(u)) BY BoardIsFinite
  <2>3. Cardinality(A(s)) <= Cardinality(A(u)) /\ Cardinality(A(s)) # Cardinality(A(u))
    BY <2>1, <2>2, FS_Subset
  <2> QED BY <1>2, <2>3
<1> HIDE DEF A
<1> QED BY <1>1, <1>2, <1>3

(* P gives each of the stages S a number of its own, up to n. *)
Numbers(P, S, n) ==
    /\ DOMAIN P = S /\ S \subseteq Stages
    /\ System \in S /\ P[System] = 1
    /\ \A s \in S : P[s] \in 1 .. n
    /\ \A s, u \in S : P[s] = P[u] => s = u

LEMMA PlacesOfList ==
    ASSUME NEW S, NEW f, Lists(f, S)
    PROVE  Numbers(Places(f, S), S, Cardinality(S))
<1>1. S \in SUBSET Stages /\ \A s \in S : f[s] \in Nat BY DEF Lists
<1>2. /\ \A s \in S : Places(f, S)[s] \in 1 .. Cardinality(S)
      /\ \A s, u \in S : f[s] < f[u] => Places(f, S)[s] < Places(f, S)[u]
  BY <1>1, PlacesAreOrdered
<1>3. Cardinality(S) \in Nat BY <1>1, BoardIsFinite
<1>4. Places(f, S)[System] = 1
  <2>1. {u \in S : f[u] <= f[System]} = {System}
    BY <1>1 DEF Lists
  <2>2. Cardinality({System}) = 1 BY FS_Singleton
  <2> QED BY <2>1, <2>2 DEF Places, Lists
<1>5. ASSUME NEW s \in S, NEW u \in S, Places(f, S)[s] = Places(f, S)[u], s # u
      PROVE  FALSE
  <2>1. f[s] < f[u] \/ f[u] < f[s] BY <1>1, <1>5 DEF Lists
  <2>2. Places(f, S)[s] \in Nat /\ Places(f, S)[u] \in Nat BY <1>2, <1>3
  <2> QED BY <1>2, <1>5, <2>1, <2>2
<1>6. DOMAIN Places(f, S) = S BY DEF Places
<1>7. S \subseteq Stages /\ System \in S BY DEF Lists
<1> QED BY <1>2, <1>4, <1>5, <1>6, <1>7 DEF Numbers

(* A list in which a stage is inserted behind the system stage. *)
LEMMA PutInList ==
    ASSUME NEW S, NEW P, NEW n \in Nat, Numbers(P, S, n),
           NEW s \in Stages \ S, NEW i \in 2 .. n + 1
    PROVE  Numbers(Put(P, s, i), S \cup {s}, n + 1)
<1> DEFINE Q == Put(P, s, i)
<1>0. /\ DOMAIN P = S /\ System \in S /\ P[System] = 1
      /\ \A u \in S : P[u] \in 1 .. n
      /\ \A u, v \in S : P[u] = P[v] => u = v
  BY DEF Numbers
<1>1. DOMAIN Q = S \cup {s} BY <1>0 DEF Put
<1>2. Q[s] = i BY <1>0 DEF Put
<1>3. \A u \in S : Q[u] = IF P[u] < i THEN P[u] ELSE P[u] + 1 BY <1>0 DEF Put
<1> HIDE DEF Q
<1>4. Q[System] = 1 BY <1>0, <1>3
<1>5. \A u \in S \cup {s} : Q[u] \in 1 .. n + 1 BY <1>0, <1>2, <1>3
<1>6. \A u \in S : Q[u] # i BY <1>0, <1>3
<1>7. \A u, v \in S : Q[u] = Q[v] => P[u] = P[v] BY <1>0, <1>3
<1>8. \A u, v \in S \cup {s} : Q[u] = Q[v] => u = v BY <1>0, <1>2, <1>6, <1>7
<1>9. S \cup {s} \subseteq Stages /\ System \in S BY DEF Numbers
<1> QED BY <1>1, <1>4, <1>5, <1>8, <1>9 DEF Q, Numbers

(* A stage that is not in the list stays behind those that are. *)
LEMMA Renumbering ==
    ASSUME BoardInv, NEW P, NEW S, NEW n \in Nat, Numbers(P, S, n),
           NEW B \in SUBSET Board, order' = Reordered(P, B),
           n <= Gap \/ B \subseteq S,
           System \in Board', Board' \subseteq S \cup B
    PROVE  BoardInv'
<1>0. /\ DOMAIN P = S /\ S \subseteq Stages /\ System \in S /\ P[System] = 1
      /\ \A u \in DOMAIN P : P[u] \in 1 .. n
      /\ \A u, v \in DOMAIN P : P[u] = P[v] => u = v
  BY DEF Numbers
<1>1. \A u \in DOMAIN P : order'[u] = P[u] BY <1>0 DEF Reordered
<1>2. \A u \in B \ DOMAIN P : order'[u] = order[u] + Gap BY <1>0 DEF Reordered, Board
<1>3. \A u \in B : order[u] \in Nat /\ (u # System => order[u] > 1)
  BY <1>0 DEF BoardInv, SystemStageFirst, Board
<1>4. order' \in [Stages -> Nat] BY <1>0 DEF Reordered, BoardInv
<1>5. \A s, u \in B : order[s] = order[u] => s = u BY <1>0 DEF BoardInv
<1>6. \A s \in B \ DOMAIN P, u \in DOMAIN P : order'[s] # order'[u]
  BY <1>0, <1>1, <1>2, <1>3
<1>7. \A s, u \in B \ DOMAIN P : order'[s] = order'[u] => s = u
  BY <1>0, <1>2, <1>3, <1>5
<1>8. \A s, u \in Board' : order'[s] = order'[u] => s = u
  BY <1>0, <1>1, <1>6, <1>7
<1>9. \A u \in DOMAIN P \ {System} : order'[u] > 1 BY <1>0, <1>1
<1>10. \A u \in B \ DOMAIN P : order'[u] > 1 BY <1>0, <1>2, <1>3
<1> QED BY <1>0, <1>1, <1>4, <1>8, <1>9, <1>10 DEF BoardInv, SystemStageFirst
-----------------------------------------------------------------------------
(* Rows and keys. *)

(* The rows X get their next version with its record, and Y are deleted. *)
Renewal(X, Y) ==
    /\ X \subseteq Live /\ Y \subseteq Live
    /\ Room(X) /\ Renew(X)
    /\ born' = born /\ gone' = gone \cup Y

Arrival(x) ==
    /\ x \in Rows \ born
    /\ Insert(x) /\ gone' = gone

LEMMA RenewalKeepsRows ==
    ASSUME RowInv, NEW X, NEW Y, Renewal(X, Y)
    PROVE  RowInv'
<1>1. X \subseteq born /\ born \subseteq Rows /\ Y \subseteq born
  BY DEF Renewal, Live, RowInv
<1>2. /\ version' = [x \in Rows |-> IF x \in X THEN version[x] + 1 ELSE version[x]]
      /\ records' = [x \in Rows |-> IF x \in X THEN records[x] + 1 ELSE records[x]]
  BY DEF Renewal, Renew, Raised
<1>3. \A x \in X : version[x] < MaxVersion BY DEF Renewal, Room
<1>4. version' \in [Rows -> 0 .. MaxVersion]
  BY <1>2, <1>3 DEF RowInv
<1>5. records' \in [Rows -> Nat] BY <1>2 DEF RowInv
<1>6. \A x \in Rows \ born : version'[x] = 0 /\ records'[x] = 0
  BY <1>1, <1>2 DEF RowInv
<1>7. HistoryMatchesVersion' BY <1>2 DEF RowInv, HistoryMatchesVersion
<1> QED BY <1>1, <1>4, <1>5, <1>6, <1>7 DEF Renewal, RowInv

LEMMA ArrivalKeepsRows ==
    ASSUME RowInv, NEW x, Arrival(x)
    PROVE  RowInv'
<1>1. x \in Rows \ born /\ version[x] = 0 /\ records[x] = 0 BY DEF Arrival, RowInv
<1>2. /\ version' = [version EXCEPT ![x] = 1]
      /\ records' = [y \in Rows |-> IF y = x THEN records[y] + 1 ELSE records[y]]
      /\ born' = born \cup {x} /\ gone' = gone
  BY DEF Arrival, Insert, Raised
<1>3. version' \in [Rows -> 0 .. MaxVersion] /\ records' \in [Rows -> Nat]
  BY <1>1, <1>2 DEF RowInv
<1>4. HistoryMatchesVersion'
  <2>1. \A y \in Rows : records'[y] = (IF y = x THEN 1 ELSE records[y])
                        /\ version'[y] = (IF y = x THEN 1 ELSE version[y])
    BY <1>1, <1>2 DEF RowInv
  <2> QED BY <2>1 DEF RowInv, HistoryMatchesVersion
<1> QED BY <1>1, <1>2, <1>3, <1>4 DEF RowInv

(* A step that changes no row renews none. *)
LEMMA NothingRenewed ==
    ASSUME RowInv, UNCHANGED rowVars
    PROVE  Renewal({}, {})
BY DEF RowInv, rowVars, Renewal, Room, Renew, Raised

LEMMA RecordKeepsKeys ==
    ASSUME KeyInv, NEW op \in Keyed, NEW k \in Keys \cup {None}, Record(op, k),
           k # None => ~Known(op, k)
    PROVE  KeyInv' /\ recorded' \subseteq recorded \cup {<<op, k>>}
<1>1. CASE k = None
  BY <1>1 DEF Record, keyVars, KeyInv, Known
<1>2. CASE k # None
  <2>1. k \in Keys /\ <<op, k>> \notin recorded BY <1>2 DEF Known
  <2>2. /\ recorded' = recorded \cup {<<op, k>>}
        /\ effects' = [effects EXCEPT ![<<op, k>>] = @ + 1]
    BY <1>2 DEF Record
  <2>3. effects' \in [Keyed \X Keys -> Nat] BY <2>1, <2>2 DEF KeyInv
  <2>4. effects[<<op, k>>] = 0 BY <2>1 DEF KeyInv, Known
  <2>5. ASSUME NEW o \in Keyed, NEW j \in Keys
        PROVE  effects'[<<o, j>>] = IF <<o, j>> \in recorded' THEN 1 ELSE 0
    <3>1. effects[<<o, j>>] = IF <<o, j>> \in recorded THEN 1 ELSE 0 BY DEF KeyInv, Known
    <3>2. CASE o = op /\ j = k BY <2>1, <2>2, <2>4, <3>2 DEF KeyInv
    <3>3. CASE ~(o = op /\ j = k)
      <4>1. <<o, j>> # <<op, k>> BY <3>3
      <4> QED BY <2>1, <2>2, <3>1, <4>1 DEF KeyInv
    <3> QED BY <3>2, <3>3
  <2> QED BY <2>1, <2>2, <2>3, <2>5 DEF KeyInv, Known
<1> QED BY <1>1, <1>2
-----------------------------------------------------------------------------
(* What the steps do to the rows. *)

LEMMA HoldsEdit ==
    ASSUME IInv, NEW r \in Requests, NEW op \in EditOps, Locked(r, op)
    PROVE  EditStands(call[r]) /\ call[r].op = op
BY DEF IInv, RequestInv, CallsStand, CallStands, Locked, EditOps, DeletionStands

LEMMA HoldsDeletion ==
    ASSUME IInv, NEW r \in Requests
    PROVE  /\ Locked(r, "delete_deal") => call[r].rows \subseteq Deals \cap Live
           /\ Locked(r, "delete_contact") => call[r].rows \subseteq Contacts \cap Live
BY DEF IInv, RequestInv, CallsStand, CallStands, Locked, EditStands, Edits, EditOps,
       DeletionStands

(* Nobody else holds any of the rows X. *)
Others(r, X) ==
    \A q \in Requests \ {r} : pc[q] = "locked" => call[q].rows \cap X = {}

LEMMA FreeForAll ==
    ASSUME NEW r \in Requests, NEW X, Free(X)
    PROVE  Others(r, X)
BY DEF Free, Others

LEMMA HeldAlone ==
    ASSUME IInv, NEW r \in Requests, pc[r] = "locked"
    PROVE  Others(r, call[r].rows)
BY DEF IInv, RequestInv, LocksExclude, Others

RowEffect(r) ==
    \/ \E X, Y \in SUBSET Rows : Renewal(X, Y) /\ Others(r, X) /\ Others(r, Y)
    \/ \E x \in Rows : Arrival(x)

LEMMA SaveRenews ==
    ASSUME IInv, NEW r \in Requests, EditStands(call[r]), pc[r] = "locked",
           Save(r), UNCHANGED <<born, gone>>
    PROVE  RowEffect(r) /\ Renewal({call[r].row}, {})
<1> DEFINE x == call[r].row
<1>1. x \in Live /\ call[r].rows = {x} /\ call[r].read = version[x] /\ version[x] < MaxVersion
  BY DEF EditStands, Edits
<1>2. RowInv BY DEF IInv
<1>3. x \in Rows BY <1>1, <1>2 DEF RowInv, Live
<1>4. version' = [version EXCEPT ![x] = version[x] + 1] /\ records' = Raised(records, {x})
  BY <1>1 DEF Save
<1> HIDE DEF x
<1>5. version' = Raised(version, {x}) BY <1>2, <1>3, <1>4 DEF Raised, RowInv
<1>6. Renewal({x}, {}) BY <1>1, <1>4, <1>5 DEF Renewal, Renew, Room
<1>7. Others(r, {x}) /\ Others(r, {}) BY <1>1, HeldAlone DEF Others
<1> QED BY <1>3, <1>6, <1>7 DEF RowEffect, x

LEMMA QuietRows ==
    ASSUME IInv, NEW r \in Requests, UNCHANGED rowVars
    PROVE  RowEffect(r)
BY NothingRenewed DEF IInv, RowEffect, Others

(* The next stage gets a number that is not in use. *)
LEMMA NextStage ==
    ASSUME Stages \ born # {}
    PROVE  (CHOOSE x \in Stages \ born : \A y \in Stages \ born : x <= y) \in Stages \ born
<1> DEFINE S == Stages \ born
           R == StrictSubsetOrdering(Nat)
           T == {1 .. c : c \in S}
<1>1. S \subseteq Nat BY DEF Stages
<1>2. PICK A \in T : \A B \in T : <<B, A>> \notin R
  <2>1. IsWellFoundedOn(R, FiniteSubsetsOf(Nat)) BY FS_StrictSubsetOrderingWellFounded
  <2>2. T \subseteq FiniteSubsetsOf(Nat)
    <3>1. \A c \in S : IsFiniteSet(1 .. c) BY <1>1, FS_Interval
    <3>2. \A c \in S : 1 .. c \in SUBSET Nat OBVIOUS
    <3> QED BY <3>1, <3>2 DEF FiniteSubsetsOf
  <2>3. T # {} OBVIOUS
  <2> HIDE DEF R, T
  <2> QED BY <2>1, <2>2, <2>3, WFMin
<1>3. PICK c \in S : A = 1 .. c OBVIOUS
<1>4. ASSUME NEW d \in S, d < c PROVE FALSE
  <2>1. 1 .. d \in T /\ 1 .. d \subseteq A /\ c \in A /\ c \notin 1 .. d
    BY <1>1, <1>3, <1>4 DEF Stages
  <2>2. <<1 .. d, A>> \in R BY <1>1, <2>1, <1>3 DEF StrictSubsetOrdering
  <2> QED BY <1>2, <2>1, <2>2
<1>5. \A d \in S : c <= d BY <1>1, <1>4
<1> QED BY <1>5
LEMMA EditRows == ASSUME IInv, NEW r \in Requests, Edit(r) PROVE RowEffect(r)
<1>1. ASSUME UNCHANGED <<born, gone>>, Save(r), NEW op \in EditOps, Locked(r, op)
      PROVE  RowEffect(r)
  BY <1>1, HoldsEdit, SaveRenews DEF Locked
<1>2. ASSUME UNCHANGED rowVars PROVE RowEffect(r)
  BY <1>2, QuietRows
<1>3. CASE SaveDeal(r) BY <1>1, <1>3 DEF SaveDeal, EditOps
<1>4. CASE MoveDeal(r)
  <2>1. Locked(r, "move_deal") /\ UNCHANGED <<born, gone>>
        /\ (Save(r) \/ UNCHANGED <<version, records>>)
    BY <1>4 DEF MoveDeal
  <2> QED BY <1>1, <1>2, <2>1 DEF rowVars, EditOps
<1>5. CASE SaveTask(r) BY <1>1, <1>5 DEF SaveTask, EditOps
<1>6. CASE SaveContact(r) BY <1>1, <1>6 DEF SaveContact, EditOps
<1>7. CASE SaveSettings(r) BY <1>1, <1>7 DEF SaveSettings, EditOps
<1>8. CASE LockOpened(r) BY <1>2, <1>8 DEF LockOpened
<1>9. ASSUME NEW op, NEW x, NEW k, Open(r, op, x, k) PROVE RowEffect(r)
  BY <1>2, <1>9 DEF Open
<1> QED BY <1>3, <1>4, <1>5, <1>6, <1>7, <1>8, <1>9 DEF Edit

LEMMA CreateRows == ASSUME IInv, NEW r \in Requests, Create(r) PROVE RowEffect(r)
<1>1. ASSUME NEW x \in Rows \ born, Insert(x), UNCHANGED gone PROVE RowEffect(r)
  BY <1>1 DEF RowEffect, Arrival
<1>2. ASSUME UNCHANGED rowVars PROVE RowEffect(r)
  BY <1>2, QuietRows
<1>3. CASE CreateContact(r) BY <1>1, <1>3 DEF CreateContact, Rows
<1>4. CASE CreateDeal(r)
  <2>1. UNCHANGED gone
        /\ ((\E d \in Deals \ born : Insert(d)) \/ UNCHANGED <<born, version, records>>)
    BY <1>4 DEF CreateDeal
  <2> QED BY <1>1, <1>2, <2>1 DEF rowVars, Rows
<1>5. CASE CreateTask(r)
  <2>1. UNCHANGED gone
        /\ ((\E t \in Tasks \ born : Insert(t)) \/ UNCHANGED <<born, version, records>>)
    BY <1>5 DEF CreateTask
  <2> QED BY <1>1, <1>2, <2>1 DEF rowVars, Rows
<1>6. ASSUME NEW op, NEW k, FindKey(r, op, k) PROVE RowEffect(r)
  BY <1>2, <1>6 DEF FindKey
<1> QED BY <1>3, <1>4, <1>5, <1>6 DEF Create

LEMMA DeleteRows == ASSUME IInv, NEW r \in Requests, Delete(r) PROVE RowEffect(r)
<1>0. Live \subseteq Rows BY DEF IInv, RowInv, Live
<1>1. CASE DeleteDeal(r)
  <2> DEFINE X == call[r].rows
             T == TasksOf(deal, X)
  <2>1. /\ Locked(r, "delete_deal") /\ Free(T) /\ Room(X \cup T) /\ Renew(X \cup T)
        /\ gone' = gone \cup X /\ born' = born
    BY <1>1 DEF DeleteDeal
  <2>2. X \subseteq Live /\ T \subseteq Live BY <2>1, HoldsDeletion DEF TasksOf
  <2>3. Others(r, X) /\ Others(r, T) BY <2>1, HeldAlone, FreeForAll DEF Locked
  <2> HIDE DEF X, T
  <2>4. Renewal(X \cup T, X) BY <2>1, <2>2 DEF Renewal
  <2>5. Others(r, X \cup T) BY <2>3 DEF Others
  <2>6. X \in SUBSET Rows /\ X \cup T \in SUBSET Rows BY <1>0, <2>2
  <2> QED BY <2>3, <2>4, <2>5, <2>6 DEF RowEffect
<1>2. CASE DeleteContacts(r)
  <2> DEFINE X == call[r].rows
             T == TasksOf(contact, X)
  <2>1. /\ Locked(r, "delete_contact") /\ Free(T) /\ Room(T) /\ Renew(T)
        /\ gone' = gone \cup X /\ born' = born
    BY <1>2 DEF DeleteContacts
  <2>2. X \subseteq Live /\ T \subseteq Live BY <2>1, HoldsDeletion DEF TasksOf
  <2>3. Others(r, X) /\ Others(r, T) BY <2>1, HeldAlone, FreeForAll DEF Locked
  <2> HIDE DEF X, T
  <2>4. Renewal(T, X) BY <2>1, <2>2 DEF Renewal
  <2>5. X \in SUBSET Rows /\ T \in SUBSET Rows BY <1>0, <2>2
  <2> QED BY <2>3, <2>4, <2>5 DEF RowEffect
<1>3. ASSUME NEW T \in SUBSET Tasks, DeleteTasks(r, T) PROVE RowEffect(r)
  <2>1. Renewal(T, T) /\ T \subseteq Live BY <1>3 DEF DeleteTasks, Renewal
  <2>2. Others(r, T) BY <1>3, FreeForAll DEF DeleteTasks
  <2>3. T \in SUBSET Rows BY <1>0, <2>1
  <2> QED BY <2>1, <2>2, <2>3 DEF RowEffect
<1>4. ASSUME NEW op, NEW X, LockToDelete(r, op, X) PROVE RowEffect(r)
  BY <1>4, QuietRows DEF LockToDelete
<1> QED BY <1>1, <1>2, <1>3, <1>4 DEF Delete

LEMMA ArrangeRows == ASSUME IInv, NEW r \in Requests, Arrange(r) PROVE RowEffect(r)
<1>1. CASE ListStages(r) BY <1>1, QuietRows DEF ListStages
<1>2. CASE CreateStage(r)
  <2>1. UNCHANGED gone
        /\ \/ UNCHANGED <<born, version, records>>
           \/ /\ Stages \ born # {}
              /\ Insert(CHOOSE x \in Stages \ born : \A y \in Stages \ born : x <= y)
    BY <1>2 DEF CreateStage
  <2>2. CASE UNCHANGED <<born, version, records>> BY <2>1, <2>2, QuietRows DEF rowVars
  <2>3. CASE Stages \ born # {}
             /\ Insert(CHOOSE x \in Stages \ born : \A y \in Stages \ born : x <= y)
    <3>1. PICK s \in Stages \ born : Insert(s) BY <2>3, NextStage
    <3> QED BY <2>1, <3>1 DEF RowEffect, Arrival, Rows
  <2> QED BY <2>1, <2>2, <2>3
<1>3. CASE UpdateStage(r)
  <2>1. Locked(r, "update_stage") /\ Save(r) /\ UNCHANGED <<born, gone>>
    BY <1>3 DEF UpdateStage
  <2>2. "update_stage" \in EditOps BY DEF EditOps
  <2> QED BY <2>1, <2>2, HoldsEdit, SaveRenews DEF Locked
<1>4. CASE DeleteStage(r)
  <2> DEFINE s == call[r].row
             D == DealsOn(s)
  <2>1. /\ Locked(r, "delete_stage") /\ Free(D \cup (Board \ {s})) /\ Room(D) /\ Renew(D)
        /\ gone' = gone \cup {s} /\ born' = born
    BY <1>4 DEF DeleteStage
  <2>2. "delete_stage" \in EditOps BY DEF EditOps
  <2>3. EditStands(call[r]) BY <2>1, <2>2, HoldsEdit
  <2>4. s \in Live /\ call[r].rows = {s} /\ D \subseteq Live
    BY <2>3 DEF EditStands, DealsOn
  <2>5. Others(r, D) BY <2>1 DEF Free, Others
  <2>6. Others(r, {s}) BY <2>1, <2>4, HeldAlone DEF Locked
  <2> HIDE DEF s, D
  <2>7. Renewal(D, {s}) BY <2>1, <2>4 DEF Renewal
  <2>8. D \in SUBSET Rows /\ {s} \in SUBSET Rows BY <2>4 DEF Live, IInv, RowInv
  <2> QED BY <2>5, <2>6, <2>7, <2>8 DEF RowEffect
<1> QED BY <1>1, <1>2, <1>3, <1>4 DEF Arrange

LEMMA RowStep ==
    ASSUME IInv, NEW r \in Requests, Edit(r) \/ Create(r) \/ Delete(r) \/ Arrange(r)
    PROVE  RowEffect(r)
BY EditRows, CreateRows, DeleteRows, ArrangeRows
-----------------------------------------------------------------------------
(* What the steps do to the keys and to the references. *)

KeyEffect(r) ==
    /\ KeyInv'
    /\ \A k : Known("settings", k)' => Known("settings", k) \/ Locked(r, "settings")

LEMMA KeyStep ==
    ASSUME IInv, NEW r \in Requests, Edit(r) \/ Create(r) \/ Delete(r) \/ Arrange(r)
    PROVE  KeyEffect(r)
<1>0. KeyInv BY DEF IInv
<1>1. ASSUME UNCHANGED keyVars PROVE KeyEffect(r)
  BY <1>0, <1>1 DEF keyVars, KeyInv, KeyEffect, Known
<1>2. ASSUME NEW op \in Keyed, NEW k \in Keys \cup {None}, Record(op, k),
             k # None => ~Known(op, k), op = "settings" => Locked(r, "settings")
      PROVE  KeyEffect(r)
  <2>1. KeyInv' /\ recorded' \subseteq recorded \cup {<<op, k>>}
    BY <1>0, <1>2, RecordKeepsKeys
  <2>2. \A j : <<"settings", j>> = <<op, k>> => Locked(r, "settings") BY <1>2
  <2> QED BY <2>1, <2>2 DEF KeyEffect, Known
<1>3. CASE MoveDeal(r)
  <2> DEFINE k == call[r].key
  <2>1. k \in Keys \cup {None}
    BY <1>3, HoldsEdit DEF MoveDeal, EditOps, EditStands, Edits
  <2>2. UNCHANGED keyVars \/ (Record("move_deal", k) /\ (k # None => Fits("move_deal", k)))
    BY <1>3 DEF MoveDeal
  <2>3. "move_deal" \in Keyed BY DEF Keyed
  <2> HIDE DEF k
  <2> QED BY <1>1, <1>2, <2>1, <2>2, <2>3 DEF Fits, Known
<1>4. CASE SaveSettings(r)
  <2> DEFINE k == call[r].key
  <2>1. Locked(r, "settings") /\ Record("settings", k) BY <1>4 DEF SaveSettings
  <2>2. k \in Keys \cup {None} /\ (k # None => ~Known("settings", k))
    BY <2>1, HoldsEdit DEF EditOps, EditStands, Edits
  <2>3. "settings" \in Keyed BY DEF Keyed
  <2> HIDE DEF k
  <2> QED BY <1>2, <2>1, <2>2, <2>3
<1>5. CASE CreateDeal(r) \/ CreateTask(r)
  <2> DEFINE k == call[r].key
  <2>1. pc[r] = "insert" BY <1>5 DEF CreateDeal, CreateTask
  <2>2. k \in Keys BY <2>1 DEF IInv, RequestInv, CallsStand, CallStands
  <2>3. \/ UNCHANGED keyVars
        \/ \E op \in {"create_deal", "create_task"} : Record(op, k) /\ Fits(op, k)
    BY <1>5 DEF CreateDeal, CreateTask
  <2>4. {"create_deal", "create_task"} \subseteq Keyed BY DEF Keyed
  <2> HIDE DEF k
  <2> QED BY <1>1, <1>2, <2>2, <2>3, <2>4 DEF Fits, Known
<1>6. ASSUME \/ LockOpened(r) \/ SaveDeal(r) \/ SaveTask(r) \/ SaveContact(r)
             \/ CreateContact(r) \/ DeleteDeal(r) \/ DeleteContacts(r)
             \/ \E T \in SUBSET Tasks : DeleteTasks(r, T)
             \/ Arrange(r)
      PROVE  UNCHANGED keyVars
  BY <1>6 DEF LockOpened, SaveDeal, SaveTask, SaveContact, CreateContact, DeleteDeal,
     DeleteContacts, DeleteTasks, Arrange, ListStages, CreateStage, UpdateStage, DeleteStage
<1>7. ASSUME NEW op, NEW x, NEW k,
             Open(r, op, x, k) \/ FindKey(r, op, k) \/ LockToDelete(r, op, x)
      PROVE  UNCHANGED keyVars
  BY <1>7 DEF Open, FindKey, LockToDelete
<1> QED BY <1>1, <1>3, <1>4, <1>5, <1>6, <1>7 DEF Edit, Create, Delete

LEMMA LinksKept ==
    ASSUME LinkInv, at' \in [Deals -> Stages \cup {None}],
           \A d \in Deals : at'[d] = at[d] \/ (d \in born /\ at'[d] \in Stages),
           contact' \in [Deals \cup Tasks -> Contacts \cup {None}],
           deal' \in [Tasks -> Deals \cup {None}],
           Deals \cap born' = Deals \cap born
    PROVE  LinkInv'
<1> SUFFICES ASSUME NEW d \in Deals
             PROVE  at'[d] \in (IF d \in born' THEN Stages ELSE {None})
  BY DEF LinkInv
<1> QED BY DEF LinkInv

LEMMA LinkStep ==
    ASSUME IInv, NEW r \in Requests, Edit(r) \/ Create(r) \/ Delete(r) \/ Arrange(r)
    PROVE  LinkInv'
<1>0. LinkInv /\ born \subseteq Rows /\ Live \subseteq born BY DEF IInv, RowInv, Live
<1>1. /\ at \in [Deals -> Stages \cup {None}]
      /\ contact \in [Deals \cup Tasks -> Contacts \cup {None}]
      /\ deal \in [Tasks -> Deals \cup {None}]
  BY <1>0 DEF LinkInv
<1>2. ASSUME UNCHANGED <<at, linkVars>>, Deals \cap born' = Deals \cap born PROVE LinkInv'
  BY <1>0, <1>1, <1>2, LinksKept DEF linkVars
<1>3. CASE SaveDeal(r)
  <2>1. call[r].row \in Deals /\ call[r].new.contact \in Contacts
    BY <1>3, HoldsEdit DEF SaveDeal, EditOps, EditStands, Edits, Opened
  <2>2. contact' = [contact EXCEPT ![call[r].row] = call[r].new.contact]
        /\ UNCHANGED <<born, at, deal>>
    BY <1>3 DEF SaveDeal, boardVars
  <2> QED BY <1>0, <1>1, <2>1, <2>2, LinksKept
<1>4. CASE MoveDeal(r)
  <2>1. call[r].row \in Deals \cap born /\ call[r].new.stage \in Stages
    BY <1>0, <1>4, HoldsEdit DEF MoveDeal, EditOps, EditStands, Edits, Opened
  <2>2. at' \in {at, [at EXCEPT ![call[r].row] = call[r].new.stage]}
        /\ UNCHANGED <<born, linkVars>>
    BY <1>4 DEF MoveDeal
  <2>3. at' \in [Deals -> Stages \cup {None}]
        /\ \A d \in Deals : at'[d] = at[d] \/ (d \in born /\ at'[d] \in Stages)
    BY <1>1, <2>1, <2>2
  <2> QED BY <1>0, <1>1, <2>2, <2>3, LinksKept DEF linkVars
<1>5. CASE SaveTask(r)
  <2>1. /\ call[r].row \in Tasks /\ call[r].new.contact \in Contacts \cup {None}
        /\ call[r].new.deal \in Deals \cup {None}
    BY <1>5, HoldsEdit DEF SaveTask, EditOps, EditStands, Edits, Opened
  <2>2. /\ contact' = [contact EXCEPT ![call[r].row] = call[r].new.contact]
        /\ deal' = [deal EXCEPT ![call[r].row] = call[r].new.deal]
        /\ UNCHANGED <<born, at>>
    BY <1>5 DEF SaveTask, boardVars
  <2> QED BY <1>0, <1>1, <2>1, <2>2, LinksKept
<1>6. CASE SaveContact(r) \/ SaveSettings(r) \/ LockOpened(r)
  BY <1>2, <1>6 DEF SaveContact, SaveSettings, LockOpened, boardVars, rowVars
<1>7. ASSUME NEW op, NEW x, NEW k,
             Open(r, op, x, k) \/ FindKey(r, op, k) \/ LockToDelete(r, op, x)
      PROVE  LinkInv'
  BY <1>2, <1>7 DEF Open, FindKey, LockToDelete, boardVars, rowVars
<1>8. CASE CreateContact(r)
  BY <1>2, <1>8 DEF CreateContact, Insert, boardVars
<1>9. CASE CreateDeal(r)
  <2> DEFINE c == call[r].contact
  <2>1. c \in Contacts \cup {None}
    BY <1>9 DEF CreateDeal, IInv, RequestInv, CallsStand, CallStands
  <2>2. UNCHANGED deal
        /\ \/ UNCHANGED <<born, at, contact>>
           \/ \E d \in Deals \ born :
                 /\ born' = born \cup {d}
                 /\ at' = [at EXCEPT ![d] = System]
                 /\ contact' = [contact EXCEPT ![d] = c]
    BY <1>9 DEF CreateDeal, Insert
  <2> HIDE DEF c
  <2>3. CASE UNCHANGED <<born, at, contact>>
    BY <1>2, <2>2, <2>3 DEF linkVars
  <2>4. ASSUME NEW d \in Deals \ born, born' = born \cup {d},
               at' = [at EXCEPT ![d] = System], contact' = [contact EXCEPT ![d] = c]
        PROVE  LinkInv'
    <3>1. System \in Stages BY DEF System, Stages
    <3>2. at' \in [Deals -> Stages \cup {None}]
          /\ contact' \in [Deals \cup Tasks -> Contacts \cup {None}]
      BY <1>1, <2>1, <2>4, <3>1
    <3>3. \A e \in Deals : at'[e] \in (IF e \in born' THEN Stages ELSE {None})
      BY <1>0, <1>1, <2>4, <3>1 DEF LinkInv
    <3> QED BY <1>1, <2>2, <3>2, <3>3 DEF LinkInv
  <2> QED BY <2>2, <2>3, <2>4
<1>10. CASE CreateTask(r)
  <2> DEFINE c == call[r].contact
             e == call[r].deal
  <2>1. c \in Contacts \cup {None} /\ e \in Deals \cup {None}
    BY <1>10 DEF CreateTask, IInv, RequestInv, CallsStand, CallStands
  <2>2. UNCHANGED at
        /\ \/ UNCHANGED <<born, linkVars>>
           \/ \E t \in Tasks \ born :
                 /\ born' = born \cup {t}
                 /\ contact' = [contact EXCEPT ![t] = c]
                 /\ deal' = [deal EXCEPT ![t] = e]
    BY <1>10 DEF CreateTask, Insert, boardVars
  <2> HIDE DEF c, e
  <2>3. CASE UNCHANGED <<born, linkVars>> BY <1>2, <2>2, <2>3
  <2>4. ASSUME NEW t \in Tasks \ born, born' = born \cup {t},
               contact' = [contact EXCEPT ![t] = c], deal' = [deal EXCEPT ![t] = e]
        PROVE  LinkInv'
    <3>1. contact' \in [Deals \cup Tasks -> Contacts \cup {None}]
          /\ deal' \in [Tasks -> Deals \cup {None}]
      BY <1>1, <2>1, <2>4
    <3>2. Deals \cap born' = Deals \cap born BY <2>4
    <3> QED BY <1>0, <1>1, <2>2, <3>1, <3>2, LinksKept
  <2> QED BY <2>2, <2>3, <2>4
<1>11. CASE DeleteDeal(r)
  <2>1. UNCHANGED <<born, at, contact>> /\ deal' \in [Tasks -> Deals \cup {None}]
    BY <1>1, <1>11 DEF DeleteDeal, boardVars
  <2> QED BY <1>0, <1>1, <2>1, LinksKept
<1>12. CASE DeleteContacts(r)
  <2>1. UNCHANGED <<born, at, deal>>
        /\ contact' \in [Deals \cup Tasks -> Contacts \cup {None}]
    BY <1>1, <1>12 DEF DeleteContacts, boardVars
  <2> QED BY <1>0, <1>1, <2>1, LinksKept
<1>13. ASSUME NEW T, DeleteTasks(r, T) PROVE LinkInv'
  BY <1>2, <1>13 DEF DeleteTasks, boardVars
<1>14. CASE ListStages(r) BY <1>2, <1>14 DEF ListStages, boardVars, rowVars
<1>15. CASE CreateStage(r)
  <2>1. UNCHANGED <<at, linkVars>>
        /\ \/ UNCHANGED <<born, version, records>>
           \/ /\ Stages \ born # {}
              /\ Insert(CHOOSE x \in Stages \ born : \A y \in Stages \ born : x <= y)
    BY <1>15 DEF CreateStage
  <2>2. Deals \cap born' = Deals \cap born BY <2>1, NextStage DEF Insert
  <2> QED BY <1>2, <2>1, <2>2
<1>16. CASE UpdateStage(r) BY <1>2, <1>16 DEF UpdateStage
<1>17. CASE DeleteStage(r)
  <2>1. UNCHANGED <<born, linkVars>>
        /\ at' = [d \in Deals |-> IF d \in DealsOn(call[r].row) THEN System ELSE at[d]]
    BY <1>17 DEF DeleteStage
  <2>2. System \in Stages /\ DealsOn(call[r].row) \subseteq born
    BY <1>0 DEF System, Stages, DealsOn
  <2>3. at' \in [Deals -> Stages \cup {None}]
        /\ \A d \in Deals : at'[d] = at[d] \/ (d \in born /\ at'[d] \in Stages)
    BY <1>1, <2>1, <2>2
  <2> QED BY <1>0, <1>1, <2>1, <2>3, LinksKept DEF linkVars
<1> QED
  BY <1>3, <1>4, <1>5, <1>6, <1>7, <1>8, <1>9, <1>10, <1>11, <1>12, <1>13, <1>14,
     <1>15, <1>16, <1>17 DEF Edit, Create, Delete, Arrange
-----------------------------------------------------------------------------
(* What the steps do to the board. *)

LEMMA BoardKept ==
    ASSUME BoardInv, UNCHANGED order,
           Stages \cap born' = Stages \cap born, Stages \cap gone' = Stages \cap gone
    PROVE  BoardInv'
<1>1. Board' = Board BY DEF Board, Live
<1> QED BY <1>1 DEF BoardInv, SystemStageFirst

(* The board is a list, and what is left of an older one still is. *)
LEMMA ListsAreKept ==
    ASSUME BoardInv
    PROVE  /\ Lists(order, Board)
           /\ \A s \in Stages \ {System} : Lists(order, Board \ {s})
           /\ \A f : Lists(f, DOMAIN f) => Lists(f, DOMAIN f \cap Live)
<1>1. /\ System \in Board /\ order[System] = 1
      /\ \A s \in Board \ {System} : order[s] \in Nat /\ order[s] > 1
      /\ \A s, u \in Board : order[s] = order[u] => s = u
  BY DEF BoardInv, SystemStageFirst, Board
<1>2. System \in Live BY <1>1 DEF Board
<1>3. ASSUME NEW f, Lists(f, DOMAIN f) PROVE Lists(f, DOMAIN f \cap Live)
  BY <1>2, <1>3 DEF Lists
<1>4. Board \subseteq Stages BY DEF Board
<1> QED BY <1>1, <1>3, <1>4 DEF Lists

LEMMA CreateStageKeepsBoard ==
    ASSUME IInv, NEW r \in Requests, CreateStage(r)
    PROVE  BoardInv'
<1> DEFINE f == call[r].seen
           kept == DOMAIN f \cap Live
           n == Cardinality(kept)
           s == CHOOSE x \in Stages \ born : \A y \in Stages \ born : x <= y
<1>1. BoardInv /\ Lists(f, DOMAIN f) /\ gone \subseteq born
  BY DEF CreateStage, IInv, RowInv, RequestInv, CallsStand, CallStands
<1>2. Lists(f, kept) BY <1>1, ListsAreKept
<1>3. n \in Nat BY <1>2, BoardIsFinite DEF Lists
<1>4. UNCHANGED gone
      /\ \/ UNCHANGED <<born, order>>
         \/ /\ ~(n >= StageLimit) /\ Stages \ born # {} /\ Insert(s)
            /\ \E i \in Positions(n + 1) :
                   order' = Reordered(Put(Places(f, kept), s, i), Board)
  BY DEF CreateStage
<1>5. CASE UNCHANGED <<born, order>> BY <1>1, <1>4, <1>5, BoardKept
<1>6. ASSUME ~(n >= StageLimit), Stages \ born # {}, Insert(s), NEW i \in Positions(n + 1),
             order' = Reordered(Put(Places(f, kept), s, i), Board)
      PROVE  BoardInv'
  <2>1. s \in Stages \ born BY <1>6, NextStage
  <2> DEFINE P == Places(f, kept)
             Q == Put(P, s, i)
  <2>2. Numbers(P, kept, n) BY <1>2, PlacesOfList
  <2>3. System \in kept /\ kept \subseteq Stages BY <1>2 DEF Lists
  <2>4. kept \subseteq born BY DEF Live
  <2>5. i \in 2 .. n + 1 BY <1>6 DEF Positions
  <2>6. n <= StageLimit BY <1>3, <1>6
  <2>7. born' = born \cup {s} BY <1>6 DEF Insert
  <2>8. Board' = Board \cup {s} BY <1>1, <1>4, <2>1, <2>7 DEF Board, Live
  <2>9. System \in Board BY <1>1 DEF BoardInv, SystemStageFirst
  <2>12. order' = Reordered(Q, Board) BY <1>6
  <2> HIDE DEF kept, n, s, P
  <2>10. s \in Stages \ kept BY <2>1, <2>4
  <2>11. Numbers(Q, kept \cup {s}, n + 1) BY <1>3, <2>2, <2>5, <2>10, PutInList
  <2> HIDE DEF Q
  <2> QED
    BY <1>1, <1>3, <2>1, <2>3, <2>6, <2>8, <2>9, <2>11, <2>12, Renumbering
<1> QED BY <1>4, <1>5, <1>6

LEMMA UpdateStageKeepsBoard ==
    ASSUME IInv, NEW r \in Requests, UpdateStage(r)
    PROVE  BoardInv'
<1> DEFINE s == call[r].row
           K == Board \ {s}
           n == Cardinality(K)
<1>1. BoardInv /\ UNCHANGED <<born, gone>> BY DEF UpdateStage, IInv
<1>2. s \in Stages \ {System} /\ s \in Live
  BY HoldsEdit DEF UpdateStage, EditOps, EditStands, Edits, Opened
<1>3. Lists(order, K) BY <1>1, <1>2, ListsAreKept
<1>4. IsFiniteSet(K) /\ n \in Nat BY <1>3, BoardIsFinite DEF Lists
<1>5. Board = K \cup {s} BY <1>2 DEF Board
<1>6. Cardinality(Board) = n + 1
  <2> HIDE DEF K, s
  <2>1. s \notin K BY DEF K
  <2> QED BY <1>4, <1>5, <2>1, FS_AddElement
<1>7. UNCHANGED order
      \/ \E i \in Positions(Cardinality(Board)) :
             order' = Reordered(Put(Places(order, K), s, i), Board)
  BY DEF UpdateStage
<1>8. CASE UNCHANGED order BY <1>1, <1>8, BoardKept
<1>9. ASSUME NEW i \in Positions(Cardinality(Board)),
             order' = Reordered(Put(Places(order, K), s, i), Board)
      PROVE  BoardInv'
  <2> DEFINE P == Places(order, K)
             Q == Put(P, s, i)
  <2>1. Numbers(P, K, n) BY <1>3, PlacesOfList
  <2>2. System \in K /\ s \in Stages \ K BY <1>2, <1>3 DEF Lists
  <2>3. i \in 2 .. n + 1 BY <1>6 DEF Positions
  <2>4. Board' = Board BY <1>1 DEF Board, Live
  <2>6. order' = Reordered(Q, Board) BY <1>9
  <2> HIDE DEF K, n, s, P
  <2>5. Numbers(Q, K \cup {s}, n + 1) BY <1>4, <2>1, <2>2, <2>3, PutInList
  <2> HIDE DEF Q
  <2>7. Board \subseteq Stages BY DEF Board
  <2> QED
    BY <1>1, <1>4, <1>5, <2>2, <2>4, <2>5, <2>6, <2>7, Renumbering
<1> QED BY <1>7, <1>8, <1>9

LEMMA DeleteStageKeepsBoard ==
    ASSUME IInv, NEW r \in Requests, DeleteStage(r)
    PROVE  BoardInv'
<1> DEFINE s == call[r].row
           K == Board \ {s}
           n == Cardinality(K)
<1>1. BoardInv /\ born' = born /\ gone' = gone \cup {s} BY DEF DeleteStage, IInv
<1>2. s \in Stages \ {System}
  BY HoldsEdit DEF DeleteStage, EditOps, EditStands, Edits, Opened
<1>3. Lists(order, K) BY <1>1, <1>2, ListsAreKept
<1>4. n \in Nat BY <1>3, BoardIsFinite DEF Lists
<1>5. Numbers(Places(order, K), K, n) BY <1>3, PlacesOfList
<1>6. System \in K /\ K \subseteq Stages BY <1>3 DEF Lists
<1>7. Board' = K BY <1>1 DEF Board, Live
<1>8. order' = Reordered(Places(order, K), K) BY DEF DeleteStage
<1>9. K \in SUBSET Board OBVIOUS
<1> HIDE DEF K, n, s
<1> QED BY <1>1, <1>4, <1>5, <1>6, <1>7, <1>8, <1>9, Renumbering
(* No other step arrives at a stage, deletes one or changes the order. *)
LEMMA BoardStep ==
    ASSUME IInv, NEW r \in Requests, Edit(r) \/ Create(r) \/ Delete(r) \/ Arrange(r)
    PROVE  BoardInv'
<1>0. BoardInv BY DEF IInv
<1>1. ASSUME UNCHANGED order,
             Stages \cap born' = Stages \cap born, Stages \cap gone' = Stages \cap gone
      PROVE  BoardInv'
  BY <1>0, <1>1, BoardKept
<1>2. CASE \/ LockOpened(r) \/ SaveDeal(r) \/ MoveDeal(r) \/ SaveTask(r) \/ SaveContact(r)
           \/ SaveSettings(r) \/ ListStages(r)
  BY <1>1, <1>2 DEF LockOpened, SaveDeal, MoveDeal, SaveTask, SaveContact, SaveSettings,
     ListStages, boardVars, rowVars
<1>3. ASSUME NEW op, NEW x, NEW k,
             Open(r, op, x, k) \/ FindKey(r, op, k) \/ LockToDelete(r, op, x)
      PROVE  BoardInv'
  BY <1>1, <1>3 DEF Open, FindKey, LockToDelete, boardVars, rowVars
<1>4. CASE CreateContact(r) \/ CreateDeal(r) \/ CreateTask(r)
  <2>1. /\ UNCHANGED <<order, gone>>
        /\ born' = born \/ \E x \in Deals \cup Tasks \cup Contacts : born' = born \cup {x}
    BY <1>4 DEF CreateContact, CreateDeal, CreateTask, Insert, boardVars
  <2> QED BY <1>1, <2>1
<1>5. CASE DeleteDeal(r) \/ DeleteContacts(r) \/ \E T \in SUBSET Tasks : DeleteTasks(r, T)
  <2>1. /\ UNCHANGED <<order, born>>
        /\ \E X \in SUBSET (Deals \cup Tasks \cup Contacts) : gone' = gone \cup X
    BY <1>5, HoldsDeletion DEF DeleteDeal, DeleteContacts, DeleteTasks, boardVars
  <2> QED BY <1>1, <2>1
<1> QED
  BY <1>2, <1>3, <1>4, <1>5, CreateStageKeepsBoard, UpdateStageKeepsBoard,
     DeleteStageKeepsBoard DEF Edit, Create, Delete, Arrange
-----------------------------------------------------------------------------
(* What the steps do to the requests. *)

(* The rows of another request, and the key it has looked for, stay as     *)
(* they are.                                                               *)
LEMMA OtherCallStands ==
    ASSUME IInv, NEW r \in Requests, RowEffect(r), KeyEffect(r),
           NEW q \in Requests \ {r}, pc'[q] = pc[q], call'[q] = call[q]
    PROVE  CallStands(pc[q], call[q])'
<1> DEFINE c == call[q]
<1>0. CallStands(pc[q], c) /\ RowInv BY DEF IInv, RequestInv, CallsStand
<1>1. ASSUME pc[q] = "locked"
      PROVE  \A x \in c.rows : x \in Live => x \in Live' /\ version'[x] = version[x]
  <2>1. ASSUME NEW X, NEW Y, Renewal(X, Y), Others(r, X), Others(r, Y)
        PROVE  \A x \in c.rows : x \in Live => x \in Live' /\ version'[x] = version[x]
    <3>1. c.rows \cap X = {} /\ c.rows \cap Y = {} BY <1>1, <2>1 DEF Others
    <3>2. /\ version' = [x \in Rows |-> IF x \in X THEN version[x] + 1 ELSE version[x]]
          /\ born' = born /\ gone' = gone \cup Y
      BY <2>1 DEF Renewal, Renew, Raised
    <3> QED BY <1>0, <3>1, <3>2 DEF Live, RowInv
  <2>2. ASSUME NEW y, Arrival(y)
        PROVE  \A x \in c.rows : x \in Live => x \in Live' /\ version'[x] = version[x]
    BY <1>0, <2>2 DEF Arrival, Insert, Live, RowInv
  <2> QED BY <2>1, <2>2 DEF RowEffect
<1>2. ASSUME pc[q] = "locked", EditStands(c) PROVE EditStands(c)'
  <2>1. c.row \in Live' /\ version'[c.row] = version[c.row]
    BY <1>1, <1>2 DEF EditStands
  <2>2. c.op = "settings" => ~Locked(r, "settings")
    <3> SUFFICES ASSUME c.op = "settings", Locked(r, "settings") PROVE FALSE
      OBVIOUS
    <3>1. c.row = Workspace /\ c.rows = {c.row}
      BY <1>2 DEF EditStands, Edits, Opened
    <3>2. EditStands(call[r]) /\ call[r].op = "settings"
      BY HoldsEdit DEF EditOps
    <3>3. call[r].row = Workspace /\ call[r].rows = {call[r].row}
      BY <3>2 DEF EditStands, Edits, Opened
    <3>4. Others(r, call[r].rows) BY HeldAlone DEF Locked
    <3> QED BY <1>2, <3>1, <3>3, <3>4 DEF Others
  <2>3. c.op = "settings" /\ c.key # None => ~Known(c.op, c.key)'
    BY <1>2, <2>2 DEF EditStands, KeyEffect
  <2> QED BY <1>2, <2>1, <2>3 DEF EditStands, Edits
<1>3. ASSUME pc[q] = "locked", DeletionStands(c) PROVE DeletionStands(c)'
  BY <1>1, <1>3 DEF DeletionStands
<1>4. pc[q] = "open" => Edits(c)' BY <1>0 DEF CallStands, Edits
<1> QED BY <1>0, <1>2, <1>3, <1>4 DEF CallStands, Lists
Steps == {"idle", "open", "locked", "insert", "listed"}

LEMMA RequestMoves ==
    ASSUME IInv, NEW r \in Requests, RowEffect(r), KeyEffect(r),
           pc' \in [Requests -> Steps], DOMAIN call' = Requests,
           \A q \in Requests \ {r} : pc'[q] = pc[q] /\ call'[q] = call[q],
           CallStands(pc[r], call[r])', pc'[r] = "locked" => Others(r, call'[r].rows)
    PROVE  RequestInv'
<1>1. ASSUME NEW q \in Requests \ {r} PROVE CallStands(pc[q], call[q])'
  BY OtherCallStands
<1>2. CallsStand' BY <1>1 DEF CallsStand
<1>3. LocksExclude' BY DEF LocksExclude, Others, IInv, RequestInv
<1> QED BY <1>2, <1>3 DEF RequestInv, Steps

LEMMA RequestEnds ==
    ASSUME IInv, NEW r \in Requests, RowEffect(r), KeyEffect(r),
           End(r) \/ (pc[r] = "idle" /\ UNCHANGED requestVars)
    PROVE  RequestInv'
<1>1. pc \in [Requests -> Steps] /\ DOMAIN call = Requests
  BY DEF IInv, RequestInv, Steps
<1>2. /\ pc' \in [Requests -> Steps] /\ DOMAIN call' = Requests
      /\ \A q \in Requests \ {r} : pc'[q] = pc[q] /\ call'[q] = call[q]
      /\ pc'[r] = "idle"
  BY <1>1 DEF End, Go, requestVars, Steps
<1>3. CallStands(pc[r], call[r])' BY <1>2 DEF CallStands
<1> QED BY <1>2, <1>3, RequestMoves

LEMMA RequestGoesOn ==
    ASSUME IInv, NEW r \in Requests, RowEffect(r), KeyEffect(r), UNCHANGED <<rowVars, keyVars>>,
           NEW step \in Steps, NEW c, Go(r, step, c),
           CallStands(step, c), step = "locked" => Others(r, c.rows)
    PROVE  RequestInv'
<1>1. pc \in [Requests -> Steps] /\ DOMAIN call = Requests
  BY DEF IInv, RequestInv, Steps
<1>2. /\ pc' \in [Requests -> Steps] /\ DOMAIN call' = Requests
      /\ \A q \in Requests \ {r} : pc'[q] = pc[q] /\ call'[q] = call[q]
      /\ pc'[r] = step /\ call'[r] = c
  BY <1>1 DEF Go
<1>3. UNCHANGED <<born, gone, version, recorded>> BY DEF rowVars, keyVars
<1>4. EditStands(c) => EditStands(c)' BY <1>3 DEF EditStands, Edits, Live, Known
<1>5. DeletionStands(c) => DeletionStands(c)' BY <1>3 DEF DeletionStands, Live
<1>6. CallStands(step, c)' BY <1>4, <1>5 DEF CallStands, Edits, Lists
<1>7. CallStands(pc[r], call[r])' BY <1>2, <1>6
<1> QED BY <1>2, <1>7, RequestMoves
LEMMA QuietKeys ==
    ASSUME IInv, NEW r \in Requests, UNCHANGED keyVars
    PROVE  KeyEffect(r)
BY DEF IInv, keyVars, KeyInv, KeyEffect, Known
LEMMA Proposed ==
    ASSUME LinkInv, NEW op \in EditOps, NEW x \in Opened(op), NEW p \in Proposals(op, x)
    PROVE  /\ op = "edit_deal" => p.contact \in Contacts
           /\ op = "move_deal" => p.stage \in Stages
           /\ op = "edit_task" => /\ p.contact \in Contacts \cup {None}
                                  /\ p.deal \in Deals \cup {None}
<1>1. CASE op = "edit_deal"
  <2>1. x \in Deals /\ x \notin Tasks BY <1>1 DEF Opened
  <2>2. p \in [contact : ContactsFor(x)] BY <1>1 DEF Proposals
  <2>3. ContactsFor(x) \subseteq Contacts BY <2>1 DEF ContactsFor
  <2> QED BY <1>1, <2>2, <2>3
<1>2. CASE op = "move_deal"
  <2>1. p \in [stage : (Live \cap Stages) \ {at[x]}] BY <1>2 DEF Proposals
  <2> QED BY <1>2, <2>1
<1>3. CASE op = "edit_task"
  <2>1. x \in Tasks BY <1>3 DEF Opened
  <2>2. p \in [contact : ContactsFor(x), deal : (Live \cap Deals) \cup {None, deal[x]}]
    BY <1>3 DEF Proposals
  <2>3. contact[x] \in Contacts \cup {None} /\ deal[x] \in Deals \cup {None}
    BY <2>1 DEF LinkInv
  <2>4. ContactsFor(x) \subseteq Contacts \cup {None} BY <2>3 DEF ContactsFor
  <2> QED BY <1>3, <2>2, <2>3, <2>4
<1> QED BY <1>1, <1>2, <1>3

LEMMA OpenStands ==
    ASSUME IInv, NEW r \in Requests, NEW op \in EditOps, NEW x \in Opened(op),
           NEW k \in Keys \cup {None}, Open(r, op, x, k)
    PROVE  RequestInv'
<1>1. x \in Live /\ Room({x}) /\ UNCHANGED <<rowVars, keyVars>> BY DEF Open
<1>2. PICK c : Go(r, "open", c)
               /\ c = [op |-> op, row |-> x, rows |-> {}, version |-> version[x], key |-> k]
  BY DEF Open
<1>3. version[x] \in 0 .. MaxVersion /\ version[x] < MaxVersion
  BY <1>1 DEF IInv, RowInv, Live, Room
<1>4. Edits(c) BY <1>2, <1>3 DEF Edits
<1>5. CallStands("open", c) BY <1>4 DEF CallStands
<1>6. RowEffect(r) /\ KeyEffect(r)
  BY <1>1, QuietRows, QuietKeys
<1> QED BY <1>1, <1>2, <1>5, <1>6, RequestGoesOn DEF Steps

LEMMA LockStands ==
    ASSUME IInv, NEW r \in Requests, LockOpened(r)
    PROVE  RequestInv'
<1> DEFINE o == call[r]
           x == o.row
<1>1. /\ pc[r] = "open" /\ Free({x}) /\ UNCHANGED <<rowVars, keyVars>>
      /\ \/ End(r)
         \/ /\ x \in Live /\ Agrees(r)
            /\ o.op = "settings" /\ o.key # None => ~Known(o.op, o.key)
            /\ \E p \in Proposals(o.op, x) :
                  Go(r, "locked", [op |-> o.op, row |-> x, rows |-> {x}, version |-> o.version,
                                   read |-> version[x], key |-> o.key, new |-> p])
  BY DEF LockOpened
<1>2. Edits(o) BY <1>1 DEF IInv, RequestInv, CallsStand, CallStands
<1>3. RowEffect(r) /\ KeyEffect(r) BY <1>1, QuietRows, QuietKeys
<1>4. CASE End(r) BY <1>3, <1>4, RequestEnds
<1>5. ASSUME x \in Live, Agrees(r),
             o.op = "settings" /\ o.key # None => ~Known(o.op, o.key),
             NEW p \in Proposals(o.op, x),
             Go(r, "locked", [op |-> o.op, row |-> x, rows |-> {x}, version |-> o.version,
                              read |-> version[x], key |-> o.key, new |-> p])
      PROVE  RequestInv'
  <2>1. PICK c : /\ Go(r, "locked", c)
                 /\ c = [op |-> o.op, row |-> x, rows |-> {x}, version |-> o.version,
                         read |-> version[x], key |-> o.key, new |-> p]
    BY <1>5
  <2>2. /\ c.op = o.op /\ c.row = x /\ c.rows = {x} /\ c.version = o.version
        /\ c.read = version[x] /\ c.key = o.key /\ c.new = p
    BY <2>1
  <2>3. version[x] = o.version BY <1>5 DEF Agrees
  <2>4. o.op \in EditOps /\ x \in Opened(o.op) BY <1>2 DEF Edits
  <2>5. LinkInv BY DEF IInv
  <2>6. /\ o.op = "edit_deal" => p.contact \in Contacts
        /\ o.op = "move_deal" => p.stage \in Stages
        /\ o.op = "edit_task" => /\ p.contact \in Contacts \cup {None}
                                 /\ p.deal \in Deals \cup {None}
    BY <1>5, <2>4, <2>5, Proposed
  <2>7. Edits(c) BY <1>2, <2>2 DEF Edits
  <2>8. EditStands(c) BY <1>5, <2>2, <2>3, <2>6, <2>7 DEF EditStands
  <2>9. CallStands("locked", c) BY <2>8 DEF CallStands
  <2>10. Others(r, c.rows) BY <1>1, <2>2, FreeForAll
  <2> QED BY <1>1, <1>3, <2>1, <2>9, <2>10, RequestGoesOn DEF Steps
<1> QED BY <1>1, <1>4, <1>5
LEMMA RequestStep ==
    ASSUME IInv, NEW r \in Requests, Edit(r) \/ Create(r) \/ Delete(r) \/ Arrange(r)
    PROVE  RequestInv'
<1>1. RowEffect(r) /\ KeyEffect(r) BY RowStep, KeyStep
<1>2. ASSUME End(r) \/ (pc[r] = "idle" /\ UNCHANGED requestVars) PROVE RequestInv'
  BY <1>1, <1>2, RequestEnds
<1>3. CASE \/ SaveDeal(r) \/ MoveDeal(r) \/ SaveTask(r) \/ SaveContact(r) \/ SaveSettings(r)
           \/ CreateDeal(r) \/ CreateTask(r) \/ DeleteDeal(r) \/ DeleteContacts(r)
           \/ CreateStage(r) \/ UpdateStage(r) \/ DeleteStage(r)
  BY <1>2, <1>3 DEF SaveDeal, MoveDeal, SaveTask, SaveContact, SaveSettings, CreateDeal,
     CreateTask, DeleteDeal, DeleteContacts, CreateStage, UpdateStage, DeleteStage
<1>4. CASE CreateContact(r) \/ \E T \in SUBSET Tasks : DeleteTasks(r, T)
  BY <1>2, <1>4 DEF CreateContact, DeleteTasks, Begin
<1>5. ASSUME NEW op \in {"create_deal", "create_task"}, NEW k \in Keys, FindKey(r, op, k)
      PROVE  RequestInv'
  <2>1. UNCHANGED <<rowVars, keyVars>>
        /\ \E c \in (Live \cap Contacts) \cup {None}, d \in (Live \cap Deals) \cup {None} :
               Go(r, "insert", [op |-> op, key |-> k, contact |-> c, deal |-> d])
    BY <1>5 DEF FindKey
  <2>2. PICK x \in Contacts \cup {None}, d \in Deals \cup {None} :
            Go(r, "insert", [op |-> op, key |-> k, contact |-> x, deal |-> d])
    BY <2>1
  <2>3. CallStands("insert", [op |-> op, key |-> k, contact |-> x, deal |-> d])
    BY DEF CallStands
  <2> QED BY <1>1, <2>1, <2>2, <2>3, RequestGoesOn DEF Steps
<1>6. ASSUME NEW op \in {"delete_deal", "delete_contact"}, NEW X,
             LockToDelete(r, op, X),
             op = "delete_deal" => X \subseteq Deals,
             op = "delete_contact" => X \subseteq Contacts
      PROVE  RequestInv'
  <2>1. X \subseteq Live /\ Free(X) /\ UNCHANGED <<rowVars, keyVars>>
        /\ Go(r, "locked", [op |-> op, rows |-> X])
    BY <1>6 DEF LockToDelete
  <2>2. DeletionStands([op |-> op, rows |-> X]) BY <1>6, <2>1 DEF DeletionStands
  <2>3. CallStands("locked", [op |-> op, rows |-> X]) BY <2>2 DEF CallStands
  <2>4. Others(r, [op |-> op, rows |-> X].rows) BY <2>1, FreeForAll
  <2> QED BY <1>1, <2>1, <2>3, <2>4, RequestGoesOn DEF Steps
<1>7. CASE ListStages(r)
  <2>1. PICK f : f = [s \in Board |-> order[s]] OBVIOUS
  <2>2. Go(r, "listed", [op |-> "create_stage", seen |-> f])
        /\ UNCHANGED <<rowVars, keyVars>>
    BY <1>7, <2>1 DEF ListStages
  <2>3. Lists(order, Board) BY ListsAreKept DEF IInv
  <2>4. Lists(f, DOMAIN f) BY <2>1, <2>3 DEF Lists
  <2>5. CallStands("listed", [op |-> "create_stage", seen |-> f]) BY <2>4 DEF CallStands
  <2> QED BY <1>1, <2>2, <2>5, RequestGoesOn DEF Steps
<1>8. ASSUME NEW op \in EditOps, NEW x \in Opened(op), NEW k \in Keys \cup {None},
             Open(r, op, x, k)
      PROVE  RequestInv'
  BY <1>8, OpenStands
<1>9. {"edit_deal", "edit_task", "edit_contact", "update_stage", "delete_stage",
       "move_deal", "settings"} \subseteq EditOps
  BY DEF EditOps
<1>10. CASE Edit(r) BY <1>3, <1>8, <1>9, <1>10, LockStands DEF Edit
<1>11. CASE Create(r) BY <1>3, <1>4, <1>5, <1>11 DEF Create
<1>12. CASE Delete(r) BY <1>3, <1>4, <1>6, <1>12 DEF Delete
<1>13. CASE Arrange(r) BY <1>3, <1>7, <1>13 DEF Arrange
<1> QED BY <1>10, <1>11, <1>12, <1>13
-----------------------------------------------------------------------------
(* The invariance. *)

LEMMA InitIInv == Init => IInv
<1> SUFFICES ASSUME Init PROVE IInv
  OBVIOUS
<1>1. PICK d \in Deals, t \in Tasks, s \in {1, 2}, B \in {{}, Contacts} :
      \E c \in B \cup {None} :
          /\ born = {1, 2, d, t, Workspace} \cup B
          /\ at = [x \in Deals |-> IF x = d THEN s ELSE None]
          /\ contact = [x \in Deals \cup Tasks |-> IF x = d THEN c ELSE None]
          /\ deal = [x \in Tasks |-> IF x = t THEN d ELSE None]
  BY DEF Init
<1>2. PICK c \in B \cup {None} :
          /\ born = {1, 2, d, t, Workspace} \cup B
          /\ at = [x \in Deals |-> IF x = d THEN s ELSE None]
          /\ contact = [x \in Deals \cup Tasks |-> IF x = d THEN c ELSE None]
          /\ deal = [x \in Tasks |-> IF x = t THEN d ELSE None]
  BY <1>1
<1>3. 1 \in Stages /\ 2 \in Stages /\ Stages \subseteq Nat BY DEF Stages
<1>4. /\ gone = {} /\ records = version
      /\ version = [x \in Rows |-> IF x \in born THEN 1 ELSE 0]
      /\ order = [u \in Stages |-> IF u \in {1, 2} THEN u ELSE 0]
      /\ recorded = {} /\ effects = [e \in Keyed \X Keys |-> 0]
      /\ pc = [r \in Requests |-> "idle"] /\ call = [r \in Requests |-> None]
      /\ menu \in Menus
  BY DEF Init
<1>5. RowInv
  <2>1. born \subseteq Rows BY <1>2, <1>3 DEF Rows
  <2> QED BY <1>4, <2>1 DEF RowInv, HistoryMatchesVersion
<1>6. BoardInv
  <2>1. Board = {1, 2} BY <1>2, <1>3, <1>4 DEF Board, Live
  <2>2. order[1] = 1 /\ order[2] = 2 /\ order \in [Stages -> Nat] BY <1>3, <1>4
  <2> QED BY <2>1, <2>2 DEF BoardInv, SystemStageFirst, System
<1>7. LinkInv
  <2>1. d \in born /\ \A x \in Deals : x \in born => x = d
    BY <1>2, <1>3
  <2>2. c \in Contacts \cup {None} OBVIOUS
  <2> QED BY <1>2, <1>3, <2>1, <2>2 DEF LinkInv
<1>8. KeyInv BY <1>4 DEF KeyInv, Known
<1>9. RequestInv
  BY <1>4 DEF RequestInv, CallsStand, CallStands, LocksExclude
<1> QED BY <1>4, <1>5, <1>6, <1>7, <1>8, <1>9 DEF IInv

LEMMA Quiet ==
    ASSUME IInv, UNCHANGED <<menu, rowVars, boardVars, linkVars, keyVars>>
    PROVE  menu' \in Menus /\ RowInv' /\ BoardInv' /\ LinkInv' /\ KeyInv'
<1>1. UNCHANGED <<menu, born, gone, version, records, order, at, contact, deal, recorded, effects>>
  BY DEF rowVars, boardVars, linkVars, keyVars
<1> QED
  BY <1>1 DEF IInv, RowInv, BoardInv, LinkInv, KeyInv, HistoryMatchesVersion,
     SystemStageFirst, Board, Live, Known

LEMMA IInvStep == IInv /\ [Next]_vars => IInv'
<1> SUFFICES ASSUME IInv, [Next]_vars PROVE IInv'
  OBVIOUS
<1>1. ASSUME NEW r \in Requests, Edit(r) \/ Create(r) \/ Delete(r) \/ Arrange(r)
      PROVE  IInv'
  <2>1. menu' = menu
    BY <1>1 DEF Edit, Create, Delete, Arrange, Open, LockOpened, SaveDeal, MoveDeal, SaveTask,
       SaveContact, SaveSettings, CreateContact, FindKey, CreateDeal, CreateTask, LockToDelete,
       DeleteDeal, DeleteContacts, DeleteTasks, ListStages, CreateStage, UpdateStage, DeleteStage
  <2>2. RowInv'
    BY <1>1, RowStep, RenewalKeepsRows, ArrivalKeepsRows DEF RowEffect, IInv
  <2>3. BoardInv' BY <1>1, BoardStep
  <2>4. LinkInv' BY <1>1, LinkStep
  <2>5. KeyInv' BY <1>1, KeyStep DEF KeyEffect
  <2>6. RequestInv' BY <1>1, RequestStep
  <2> QED BY <2>1, <2>2, <2>3, <2>4, <2>5, <2>6 DEF IInv
<1>2. ASSUME NEW r \in Requests, NEW q \in Requests, BreakDeadlock(r, q)
      PROVE  IInv'
  <2>1. End(r) /\ UNCHANGED <<menu, rowVars, boardVars, linkVars, keyVars>>
    BY <1>2 DEF BreakDeadlock
  <2>2. RowEffect(r) /\ KeyEffect(r) BY <2>1, QuietRows, QuietKeys
  <2>3. RequestInv' BY <2>1, <2>2, RequestEnds
  <2> QED BY <2>1, <2>3, Quiet DEF IInv
<1>3. CASE UNCHANGED vars
  <2>1. /\ UNCHANGED <<menu, rowVars, boardVars, linkVars, keyVars>>
        /\ UNCHANGED <<pc, call>> /\ UNCHANGED <<born, gone, version, recorded>>
    BY <1>3 DEF vars, requestVars, rowVars, keyVars
  <2>2. RequestInv'
    BY <2>1 DEF IInv, RequestInv, CallsStand, CallStands, LocksExclude, EditStands, Edits,
       DeletionStands, Lists, Live, Known
  <2> QED BY <2>1, <2>2, Quiet DEF IInv
<1> QED BY <1>1, <1>2, <1>3 DEF Next
-----------------------------------------------------------------------------
(* What was deleted stays as it was. *)

LinksStay ==
    /\ \A d \in gone \cap Deals : at'[d] = at[d] /\ contact'[d] = contact[d]
    /\ \A t \in gone \cap Tasks : deal'[t] = deal[t] /\ contact'[t] = contact[t]

LEMMA DeletedLinksStay ==
    ASSUME IInv, NEW r \in Requests, Edit(r) \/ Create(r) \/ Delete(r) \/ Arrange(r)
    PROVE  LinksStay
<1>0. LinkInv /\ gone \subseteq born BY DEF IInv, RowInv
<1>1. /\ at \in [Deals -> Stages \cup {None}]
      /\ contact \in [Deals \cup Tasks -> Contacts \cup {None}]
      /\ deal \in [Tasks -> Deals \cup {None}]
  BY <1>0 DEF LinkInv
<1>2. \A op \in EditOps : Locked(r, op) => call[r].row \notin gone
  BY HoldsEdit DEF EditStands, Live
<1>3. {"edit_deal", "move_deal", "edit_task"} \subseteq EditOps BY DEF EditOps
<1>4. ASSUME UNCHANGED <<at, contact, deal>> PROVE LinksStay
  BY <1>4 DEF LinksStay
<1>5. CASE SaveDeal(r)
  BY <1>1, <1>2, <1>3, <1>5 DEF SaveDeal, LinksStay, boardVars
<1>6. CASE MoveDeal(r)
  <2>1. /\ at' = at \/ at' = [at EXCEPT ![call[r].row] = call[r].new.stage]
        /\ UNCHANGED <<contact, deal>>
    BY <1>6 DEF MoveDeal, linkVars
  <2> QED BY <1>1, <1>2, <1>3, <1>6, <2>1 DEF MoveDeal, LinksStay
<1>7. CASE SaveTask(r)
  BY <1>1, <1>2, <1>3, <1>7 DEF SaveTask, LinksStay, boardVars
<1>8. CASE CreateDeal(r)
  BY <1>0, <1>1, <1>4, <1>8 DEF CreateDeal, LinksStay
<1>9. CASE CreateTask(r)
  BY <1>0, <1>1, <1>4, <1>9 DEF CreateTask, LinksStay, boardVars, linkVars
<1>10. CASE DeleteDeal(r)
  BY <1>1, <1>10 DEF DeleteDeal, TasksOf, Live, LinksStay, boardVars
<1>11. CASE DeleteContacts(r)
  BY <1>1, <1>11 DEF DeleteContacts, TasksOf, Live, LinksStay, boardVars
<1>12. CASE DeleteStage(r)
  BY <1>1, <1>12 DEF DeleteStage, DealsOn, Live, LinksStay, linkVars
<1>13. CASE \/ LockOpened(r) \/ SaveContact(r) \/ SaveSettings(r) \/ CreateContact(r)
            \/ ListStages(r) \/ CreateStage(r) \/ UpdateStage(r)
            \/ \E T \in SUBSET Tasks : DeleteTasks(r, T)
  BY <1>4, <1>13 DEF LockOpened, SaveContact, SaveSettings, CreateContact, ListStages,
     CreateStage, UpdateStage, DeleteTasks, boardVars, linkVars
<1>14. ASSUME NEW op, NEW x, NEW k,
              Open(r, op, x, k) \/ FindKey(r, op, k) \/ LockToDelete(r, op, x)
       PROVE  LinksStay
  BY <1>4, <1>14 DEF Open, FindKey, LockToDelete, boardVars, linkVars
<1> QED
  BY <1>5, <1>6, <1>7, <1>8, <1>9, <1>10, <1>11, <1>12, <1>13, <1>14
     DEF Edit, Create, Delete, Arrange

LEMMA DeletedStep ==
    ASSUME IInv, [Next]_vars
    PROVE  /\ gone \subseteq gone'
           /\ \A x \in gone : version'[x] = version[x] /\ records'[x] = records[x]
           /\ LinksStay
<1>0. RowInv BY DEF IInv
<1>1. ASSUME NEW r \in Requests, RowEffect(r)
      PROVE  /\ gone \subseteq gone'
             /\ \A x \in gone : version'[x] = version[x] /\ records'[x] = records[x]
  <2>1. ASSUME NEW X, NEW Y, Renewal(X, Y)
        PROVE  /\ gone \subseteq gone'
               /\ \A x \in gone : version'[x] = version[x] /\ records'[x] = records[x]
    BY <1>0, <2>1 DEF Renewal, Renew, Raised, Live, RowInv
  <2>2. ASSUME NEW y, Arrival(y)
        PROVE  /\ gone \subseteq gone'
               /\ \A x \in gone : version'[x] = version[x] /\ records'[x] = records[x]
    BY <1>0, <2>2 DEF Arrival, Insert, Raised, RowInv
  <2> QED BY <1>1, <2>1, <2>2 DEF RowEffect
<1>2. CASE \E r \in Requests : Edit(r) \/ Create(r) \/ Delete(r) \/ Arrange(r)
  BY <1>1, <1>2, RowStep, DeletedLinksStay
<1>3. CASE UNCHANGED <<rowVars, boardVars, linkVars>>
  BY <1>3 DEF rowVars, boardVars, linkVars, LinksStay
<1>4. ASSUME NEW r \in Requests, NEW q \in Requests, BreakDeadlock(r, q)
      PROVE  UNCHANGED <<rowVars, boardVars, linkVars>>
  BY <1>4 DEF BreakDeadlock
<1>5. UNCHANGED vars => UNCHANGED <<rowVars, boardVars, linkVars>> BY DEF vars
<1> QED BY <1>2, <1>3, <1>4, <1>5 DEF Next
-----------------------------------------------------------------------------
(* The theorems. *)

LEMMA Invariant == Spec => []IInv
<1> QED BY InitIInv, IInvStep, PTL DEF Spec

LEMMA IInvImplies == IInv => Inv /\ NoLostUpdate /\ OneResultPerKey
<1> SUFFICES ASSUME IInv PROVE Inv /\ NoLostUpdate /\ OneResultPerKey
  OBVIOUS
<1>1. TypeOK /\ SystemStageFirst /\ HistoryMatchesVersion
  BY DEF IInv, RowInv, BoardInv, LinkInv, KeyInv, RequestInv, TypeOK
<1>2. NoLostUpdate
  <2> SUFFICES ASSUME NEW r \in Requests, pc[r] = "locked",
                      call[r].op \notin {"delete_deal", "delete_contact"}
               PROVE  version[call[r].row] = call[r].version
    BY DEF NoLostUpdate
  <2>1. EditStands(call[r]) \/ DeletionStands(call[r])
    BY DEF IInv, RequestInv, CallsStand, CallStands
  <2>2. ~DeletionStands(call[r]) BY DEF DeletionStands
  <2> QED BY <2>1, <2>2 DEF EditStands
<1>3. OneResultPerKey
  <2> SUFFICES ASSUME NEW o \in Keyed, NEW k \in Keys
               PROVE  effects[<<o, k>>] <= 1
    BY DEF OneResultPerKey
  <2>1. effects[<<o, k>>] = 0 \/ effects[<<o, k>>] = 1 BY DEF IInv, KeyInv
  <2> QED BY <2>1
<1> QED BY <1>1, <1>2, <1>3 DEF Inv

(* The tables are sound whatever the requests do at the same time: the     *)
(* system stage is live and first, orders of live stages differ, and each  *)
(* version of a deal, a task, a contact or the settings has its record     *)
(* (_reorder, delete_stage; _record_history, _record_event, _audit).       *)
THEOREM Invariance == Spec => []Inv
<1> QED BY Invariant, IInvImplies, PTL

(* The row of an edit keeps the version its client has seen from the lock  *)
(* to the commit (select_for_update, VERSION_CONFLICT).                    *)
THEOREM EditsAreNotLost == Spec => []NoLostUpdate
<1> QED BY Invariant, IInvImplies, PTL

(* However many requests bring a key, it has at most one effect            *)
(* (DealIdempotencyRecord, TaskIdempotencyRecord, the workspace's lock).   *)
THEOREM KeysAreIdempotent == Spec => []OneResultPerKey
<1> QED BY Invariant, IInvImplies, PTL

(* No step of any request changes a deal, a task, a contact or a stage     *)
(* that is deleted, or brings it back: each works on rows that it finds    *)
(* live under a lock (delete_deal, delete_stage, _detach_related_tasks).   *)
THEOREM DeletedStays == Spec => NothingAfterDeletion
<1>1. IInv /\ [Next]_vars =>
          [/\ gone \subseteq gone'
           /\ \A x \in gone : version'[x] = version[x] /\ records'[x] = records[x]
           /\ \A d \in gone \cap Deals : at'[d] = at[d] /\ contact'[d] = contact[d]
           /\ \A t \in gone \cap Tasks : deal'[t] = deal[t] /\ contact'[t] = contact[t]]_vars
  BY DeletedStep DEF LinksStay
<1> QED BY <1>1, Invariant, PTL DEF Spec, NothingAfterDeletion
=============================================================================
