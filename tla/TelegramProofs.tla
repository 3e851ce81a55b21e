---------------------------- MODULE TelegramProofs ----------------------------
(* Theorems about the two halves of the Telegram integration.               *)
(* TelegramInbox: one message for each update, one contact for each person  *)
(* and counters that are right, for any number of workers, requests and     *)
(* updates.  TelegramBot: what the row lock and the unique index give, and  *)
(* what becomes of the webhooks, for any number of workspaces, bots and     *)
(* handlers.                                                                *)
EXTENDS TelegramInbox, TelegramBot, FiniteSetTheorems, TLAPS

-----------------------------------------------------------------------------
(* TelegramInbox *)

USE InboxAssumption DEF InboxAssumption

-----------------------------------------------------------------------------
(* The inductive invariant. *)

LogTypes ==
    /\ log \in [Updates -> {"none", "new", "processed", "failed"}]
    /\ attempts \in [Updates -> 0 .. MaxAttempts]
    /\ \A u \in Updates :
           /\ log[u] = "new" => attempts[u] < MaxAttempts
           /\ log[u] = "failed" => attempts[u] = MaxAttempts
    /\ from \in [Updates -> Customers \cup {Nobody}]
    /\ mentions \in [Updates -> Handles \cup {NoHandle}]

ContactTypes ==
    /\ contacts \in 0 .. MaxUpdates + MaxAdded
    /\ person \in [Contacts -> Customers \cup {Nobody}]
    /\ handle \in [Contacts -> Handles \cup {NoHandle}]

ChatTypes ==
    /\ chats \in 0 .. MaxUpdates
    /\ owner \in [Chats -> Contacts \cup {NoRow}]
    /\ gone \subseteq 1 .. chats
    /\ unread \in [Chats -> Nat]
    /\ messages \subseteq Message

WorkerTypes ==
    /\ wpc \in [Workers -> {"idle", "next", "writing", "failing"}]
    /\ batch \in [Workers -> SUBSET Updates]
    /\ cur \in [Workers -> Updates \cup {NoRow}]
    /\ foundContact \in [Workers -> Contacts \cup {NoRow}]
    /\ foundChat \in [Workers -> Chats \cup {NoRow}]

RequestTypes ==
    /\ rpc \in [Requests -> {"idle", "locked"}]
    /\ call \in [Requests -> Calls \cup {NoRow}]
    /\ seen \in [Requests -> SUBSET Message]

LEMMA TypeParts ==
    TypeOK <=> /\ LogTypes /\ ContactTypes /\ ChatTypes /\ WorkerTypes /\ RequestTypes
               /\ faults \in 0 .. MaxFaults
BY DEF TypeOK, LogTypes, ContactTypes, ChatTypes, WorkerTypes, RequestTypes

(* The updates that may still become a message; the bounds leave a contact *)
(* and a chat for each.                                                    *)
Open == {u \in Updates : log[u] \in {"none", "new"}}

Room ==
    /\ contacts + Cardinality(Open) <= MaxUpdates + MaxAdded
    /\ chats + Cardinality(Open) <= MaxUpdates

LogInv == LogTypes /\ \A u \in Updates : log[u] = "none" => attempts[u] = 0

(* A contact that is not there yet belongs to nobody. *)
ContactInv ==
    /\ ContactTypes /\ OneContactPerPerson
    /\ \A c \in Contacts : c > contacts => person[c] = Nobody

(* A chat that is not there yet has no messages. *)
ChatInv ==
    /\ ChatTypes /\ UnreadAccurate /\ NoMessageInDeletedChat
    /\ \A m \in messages : m.chat <= chats
    /\ \A h \in Chats : h > chats => unread[h] = 0

(* What a worker found still holds when it writes: the contact of the      *)
(* sender, if there is one, and a chat that is not deleted.                *)
WriterStands(w) ==
    LET u == cur[w]
        h == foundChat[w] IN
    /\ u \in Updates /\ log[u] = "new" /\ from[u] # Nobody
    /\ foundContact[w] \in 1 .. contacts \cup {NoRow}
    /\ \A c \in 1 .. contacts : person[c] = from[u] => foundContact[w] = c
    /\ h # NoRow => h <= chats /\ h \notin gone

NothingFound(w) == foundContact[w] = NoRow /\ foundChat[w] = NoRow

WorkInv ==
    /\ WorkerTypes
    /\ \A v, w \in Workers : wpc[v] = "writing" /\ wpc[w] = "writing" => v = w
    /\ \A w \in Workers :
           /\ wpc[w] = "writing" => WriterStands(w)
           /\ wpc[w] # "writing" => NothingFound(w)
           /\ wpc[w] = "failing" => cur[w] \in Updates

(* A request holds its chat alone, and has seen the messages it updates.   *)
RequestStands(r) ==
    /\ call[r] \in Calls /\ call[r].chat <= chats /\ call[r].chat \notin gone
    /\ seen[r] = UnreadIn(call[r].chat)

RequestInv ==
    /\ RequestTypes
    /\ \A q, r \in Requests :
           rpc[q] = "locked" /\ rpc[r] = "locked" /\ call[q].chat = call[r].chat => q = r
    /\ \A r \in Requests : rpc[r] = "locked" => RequestStands(r)

IInv ==
    /\ LogInv /\ ContactInv /\ ChatInv /\ Room /\ MessagesMatchLog
    /\ WorkInv /\ RequestInv /\ faults \in 0 .. MaxFaults

-----------------------------------------------------------------------------
(* Facts about the sets that are counted. *)

LEMMA UpdatesFinite ==
    ASSUME NEW S, S \subseteq Updates
    PROVE  IsFiniteSet(S) /\ Cardinality(S) \in Nat
<1>1. IsFiniteSet(Updates) BY FS_Interval DEF Updates
<1> QED BY <1>1, FS_Subset, FS_CardinalityType

LEMMA MessagesFinite ==
    ASSUME NEW S, S \subseteq Message
    PROVE  IsFiniteSet(S) /\ Cardinality(S) \in Nat
<1> DEFINE P == (Updates \X Chats) \X (BOOLEAN \X BOOLEAN)
           f == [p \in P |-> [update |-> p[1][1], chat |-> p[1][2],
                              read |-> p[2][1], deleted |-> p[2][2]]]
<1>1. IsFiniteSet(Updates) /\ IsFiniteSet(Chats) BY FS_Interval DEF Updates, Chats
<1>2. IsFiniteSet(BOOLEAN)
  <2>1. IsFiniteSet({TRUE}) BY FS_Singleton
  <2>2. IsFiniteSet({TRUE} \cup {FALSE}) BY <2>1, FS_AddElement
  <2>3. BOOLEAN = {TRUE} \cup {FALSE} OBVIOUS
  <2> QED BY <2>2, <2>3
<1>3. IsFiniteSet(P)
  <2>1. IsFiniteSet(Updates \X Chats) BY <1>1, FS_Product
  <2>2. IsFiniteSet(BOOLEAN \X BOOLEAN) BY <1>2, FS_Product
  <2> QED BY <2>1, <2>2, FS_Product
<1>4. f \in Surjection(P, Message)
  <2>1. f \in [P -> Message] BY DEF Message
  <2>2. ASSUME NEW m \in Message PROVE \E p \in P : f[p] = m
    <3> DEFINE p == <<<<m.update, m.chat>>, <<m.read, m.deleted>>>>
    <3>1. p \in P BY DEF Message
    <3>2. f[p] = m BY <3>1 DEF Message
    <3> QED BY <3>1, <3>2
  <2> QED BY <2>1, <2>2 DEF Surjection
<1>5. IsFiniteSet(Message)
  <2> HIDE DEF P, f
  <2> QED BY <1>3, <1>4, FS_Surjection
<1> QED BY <1>5, FS_Subset, FS_CardinalityType

(* A set of numbers that is not empty has a least element: of the           *)
(* intervals up to its elements one contains no other.                      *)
LEMMA Least ==
    ASSUME NEW S, S \subseteq Nat, S # {}
    PROVE  \E c \in S : \A d \in S : c <= d
<1> DEFINE R == StrictSubsetOrdering(Nat)
           T == {1 .. c : c \in S}
<1>1. PICK A \in T : \A B \in T : <<B, A>> \notin R
  <2>1. IsWellFoundedOn(R, FiniteSubsetsOf(Nat)) BY FS_StrictSubsetOrderingWellFounded
  <2>2. T \subseteq FiniteSubsetsOf(Nat)
    <3>1. \A c \in S : IsFiniteSet(1 .. c) BY FS_Interval
    <3>2. \A c \in S : 1 .. c \in SUBSET Nat OBVIOUS
    <3> QED BY <3>1, <3>2 DEF FiniteSubsetsOf
  <2>3. T # {} OBVIOUS
  <2> HIDE DEF R, T
  <2> QED BY <2>1, <2>2, <2>3, WFMin
<1>2. PICK c \in S : A = 1 .. c OBVIOUS
<1>3. ASSUME NEW d \in S, d < c PROVE FALSE
  <2>1. 1 .. d \in T /\ 1 .. d \subseteq A /\ c \in A /\ c \notin 1 .. d
    BY <1>2, <1>3
  <2>2. <<1 .. d, A>> \in R BY <2>1, <1>2 DEF StrictSubsetOrdering
  <2> QED BY <1>1, <2>1, <2>2
<1> QED BY <1>3

(* A step that settles one open update leaves room for one more row.       *)
LEMMA OneLessOpen ==
    ASSUME NEW u \in Updates, LogTypes, log[u] = "new",
           log' = [log EXCEPT ![u] = "processed"]
    PROVE  Cardinality(Open') = Cardinality(Open) - 1 /\ Cardinality(Open) \in Nat
<1>1. Open' = Open \ {u} /\ u \in Open BY DEF Open, LogTypes
<1>2. IsFiniteSet(Open) /\ Cardinality(Open) \in Nat BY UpdatesFinite DEF Open
<1> QED BY <1>1, <1>2, FS_RemoveElement

LEMMA OpenShrinks ==
    ASSUME Room, ContactTypes, ChatTypes, UNCHANGED <<contacts, chats>>, Open' \subseteq Open
    PROVE  Room'
<1>1. IsFiniteSet(Open) /\ Cardinality(Open) \in Nat BY UpdatesFinite DEF Open
<1>2. Cardinality(Open') \in Nat /\ Cardinality(Open') <= Cardinality(Open)
  BY <1>1, FS_Subset, FS_CardinalityType
<1> QED BY <1>1, <1>2 DEF Room, ContactTypes, ChatTypes

(* The messages of an update are counted alike when they are only marked.  *)
LEMMA MarkingKeepsCount ==
    ASSUME MessagesMatchLog, messages \subseteq Message, UNCHANGED <<log, from>>,
           NEW g \in [messages -> Message],
           \A m \in messages : g[m].update = m.update,
           messages' = {g[m] : m \in messages}
    PROVE  MessagesMatchLog'
<1> SUFFICES ASSUME NEW u \in Updates
             PROVE  Cardinality({m \in messages' : m.update = u})
                        = Cardinality({m \in messages : m.update = u})
  BY DEF MessagesMatchLog
<1> DEFINE S == {m \in messages : m.update = u}
           T == {m \in messages' : m.update = u}
<1>1. T = {g[m] : m \in S} OBVIOUS
<1>2. IsFiniteSet(S) /\ Cardinality(S) \in {0, 1}
  BY MessagesFinite DEF MessagesMatchLog
<1> HIDE DEF S, T
<1>3. CASE Cardinality(S) = 0
  <2>1. S = {} BY <1>2, <1>3, FS_EmptySet
  <2>2. T = {} BY <1>1, <2>1
  <2> QED BY <1>3, <2>2, FS_EmptySet DEF S, T
<1>4. CASE Cardinality(S) = 1
  <2>1. PICK x : S = {x} BY <1>2, <1>4, FS_Singleton
  <2>2. T = {g[x]} BY <1>1, <2>1
  <2> QED BY <1>4, <2>2, FS_Singleton DEF S, T
<1> QED BY <1>2, <1>3, <1>4

-----------------------------------------------------------------------------
(* The initial state. *)

LEMMA InitInv == Init => IInv
<1> SUFFICES ASSUME Init PROVE IInv OBVIOUS
<1>1. LogInv BY DEF Init, LogInv, LogTypes
<1>2. ContactInv
  BY DEF Init, ContactInv, ContactTypes, OneContactPerPerson, Contacts
<1>3. ChatInv BY DEF Init, ChatInv, ChatTypes, UnreadAccurate, NoMessageInDeletedChat, Chats
<1>4. Room
  <2>1. Open \subseteq Updates BY DEF Open
  <2>2. IsFiniteSet(Updates) /\ Cardinality(Updates) = MaxUpdates
    BY FS_Interval DEF Updates
  <2>3. Cardinality(Open) \in Nat /\ Cardinality(Open) <= MaxUpdates
    BY <2>1, <2>2, FS_Subset, UpdatesFinite
  <2> QED BY <2>3 DEF Init, Room
<1>5. MessagesMatchLog
  <2>1. \A u \in Updates : {m \in messages : m.update = u} = {} BY DEF Init
  <2> QED BY <2>1, FS_EmptySet DEF Init, MessagesMatchLog
<1>6. WorkInv BY DEF Init, WorkInv, WorkerTypes, NothingFound
<1>7. RequestInv BY DEF Init, RequestInv, RequestTypes
<1>8. faults \in 0 .. MaxFaults BY DEF Init
<1> QED BY <1>1, <1>2, <1>3, <1>4, <1>5, <1>6, <1>7, <1>8 DEF IInv

-----------------------------------------------------------------------------
(* The parts that a step does not touch. *)

LEMMA LogKept ==
    ASSUME LogInv, UNCHANGED <<logVars, payloadVars>> PROVE LogInv'
BY DEF LogInv, LogTypes, logVars, payloadVars

LEMMA ContactsKept ==
    ASSUME ContactInv, UNCHANGED contactVars PROVE ContactInv'
BY DEF ContactInv, ContactTypes, OneContactPerPerson, contactVars

LEMMA ChatsKept ==
    ASSUME ChatInv, UNCHANGED chatVars PROVE ChatInv'
BY DEF ChatInv, ChatTypes, UnreadAccurate, UnreadIn, NoMessageInDeletedChat, chatVars

LEMMA RoomKept ==
    ASSUME Room, UNCHANGED <<log, contacts, chats>> PROVE Room'
BY DEF Room, Open

LEMMA CountKept ==
    ASSUME MessagesMatchLog, UNCHANGED <<log, from, messages>> PROVE MessagesMatchLog'
BY DEF MessagesMatchLog

LEMMA WorkKept ==
    ASSUME WorkInv, UNCHANGED <<workerVars, log, from, contacts, person, chats, gone>>
    PROVE  WorkInv'
BY DEF WorkInv, WorkerTypes, WriterStands, NothingFound, workerVars

LEMMA RequestsKept ==
    ASSUME RequestInv, UNCHANGED <<requestVars, chats, gone, messages>> PROVE RequestInv'
BY DEF RequestInv, RequestTypes, RequestStands, UnreadIn, requestVars

(* While nobody writes the rows may change under the workers.              *)
LEMMA WorkersWait ==
    ASSUME WorkInv, WorkspaceFree, UNCHANGED workerVars PROVE WorkInv'
BY DEF WorkInv, WorkerTypes, WorkspaceFree, NothingFound, workerVars

-----------------------------------------------------------------------------
(* The webhook and the managers. *)

LEMMA ReceiveStep ==
    ASSUME IInv, NEW u \in Updates, NEW p \in Payloads, Receive(u, p[1], p[2])
    PROVE  IInv'
<1>0. /\ LogInv /\ ContactInv /\ ChatInv /\ Room /\ MessagesMatchLog
      /\ WorkInv /\ RequestInv /\ faults \in 0 .. MaxFaults /\ LogTypes
  BY DEF IInv, LogInv
<1>1. /\ log[u] = "none" /\ WorkspaceFree
      /\ log' = [log EXCEPT ![u] = "new"]
      /\ from' = [from EXCEPT ![u] = p[1]] /\ mentions' = [mentions EXCEPT ![u] = p[2]]
      /\ UNCHANGED <<attempts, contactVars, chatVars, workerVars, requestVars, faults>>
  BY DEF Receive
<1>2. p[1] \in Customers \cup {Nobody} /\ p[2] \in Handles \cup {NoHandle} OBVIOUS
<1>3. LogInv'
  <2>1. attempts[u] = 0 /\ 0 < MaxAttempts BY <1>0, <1>1 DEF LogInv
  <2>2. LogTypes' BY <1>0, <1>1, <1>2, <2>1 DEF LogTypes
  <2>3. \A v \in Updates : log'[v] = "none" => attempts'[v] = 0
    BY <1>0, <1>1 DEF LogInv, LogTypes
  <2> QED BY <2>2, <2>3 DEF LogInv
<1>4. ContactInv' /\ ChatInv' /\ RequestInv'
  BY <1>0, <1>1, ContactsKept, ChatsKept, RequestsKept DEF chatVars
<1>5. Room'
  <2>1. Open' = Open BY <1>0, <1>1 DEF Open, LogTypes
  <2> QED BY <1>0, <1>1, <2>1 DEF Room, contactVars, chatVars
<1>6. MessagesMatchLog'
  BY <1>0, <1>1 DEF MessagesMatchLog, LogTypes, chatVars
<1>7. WorkInv' BY <1>0, <1>1, WorkersWait
<1> QED BY <1>0, <1>1, <1>3, <1>4, <1>5, <1>6, <1>7 DEF IInv

LEMMA ManagerStep == ASSUME IInv, Manager PROVE IInv'
<1>0. /\ LogInv /\ ContactInv /\ ContactTypes /\ ChatInv /\ Room /\ MessagesMatchLog
      /\ WorkInv /\ RequestInv /\ faults \in 0 .. MaxFaults
  BY DEF IInv, ContactInv
<1>1. ASSUME NEW h \in Handles, AddContact(h) PROVE IInv'
  <2>1. /\ contacts + Cardinality(Open) < MaxUpdates + MaxAdded /\ WorkspaceFree
        /\ contacts' = contacts + 1 /\ handle' = [handle EXCEPT ![contacts + 1] = h]
        /\ UNCHANGED <<payloadVars, person, logVars, chatVars, workerVars, requestVars,
                       faults>>
    BY <1>1 DEF AddContact, Open
  <2>2. Cardinality(Open) \in Nat BY UpdatesFinite DEF Open
  <2>3. contacts + 1 \in Contacts BY <1>0, <2>1, <2>2 DEF Contacts, ContactTypes
  <2>4. ContactTypes' BY <1>0, <2>1, <2>3 DEF ContactTypes, Contacts
  <2>5. person[contacts + 1] = Nobody BY <1>0, <2>3 DEF ContactInv, ContactTypes
  <2>6. OneContactPerPerson'
    <3> SUFFICES ASSUME NEW c \in 1 .. contacts', NEW d \in 1 .. contacts',
                        person[c] = person[d], person[c] # Nobody
                 PROVE  c = d
      BY <2>1 DEF OneContactPerPerson
    <3>1. c \in 1 .. contacts /\ d \in 1 .. contacts
      BY <1>0, <2>1, <2>5 DEF ContactTypes
    <3> QED BY <1>0, <3>1 DEF ContactInv, OneContactPerPerson
  <2>7. ContactInv' BY <1>0, <2>1, <2>4, <2>6 DEF ContactInv, ContactTypes, Contacts
  <2>8. Room'
    <3>1. Open' = Open BY <2>1 DEF Open, logVars
    <3> QED BY <1>0, <2>1, <2>2, <3>1 DEF Room, ContactTypes, chatVars
  <2>9. LogInv' /\ ChatInv' /\ MessagesMatchLog' /\ WorkInv' /\ RequestInv'
    BY <1>0, <2>1, LogKept, ChatsKept, CountKept, WorkersWait, RequestsKept
    DEF logVars, payloadVars, chatVars
  <2> QED BY <1>0, <2>1, <2>7, <2>8, <2>9 DEF IInv
<1>2. ASSUME NEW c \in Contacts, NEW h \in Handles, EditContact(c, h) PROVE IInv'
  <2>1. /\ handle' = [handle EXCEPT ![c] = h]
        /\ UNCHANGED <<payloadVars, contacts, person, logVars, chatVars, workerVars,
                       requestVars, faults>>
    BY <1>2 DEF EditContact
  <2>2. ContactInv'
    BY <1>0, <2>1 DEF ContactInv, ContactTypes, OneContactPerPerson
  <2>3. /\ LogInv' /\ ChatInv' /\ Room' /\ MessagesMatchLog' /\ WorkInv' /\ RequestInv'
    BY <1>0, <2>1, LogKept, ChatsKept, RoomKept, CountKept, WorkKept, RequestsKept
    DEF logVars, payloadVars, chatVars
  <2> QED BY <1>0, <2>1, <2>2, <2>3 DEF IInv
<1> QED BY <1>1, <1>2 DEF Manager

-----------------------------------------------------------------------------
(* Requests. *)

LEMMA LockChatStep ==
    ASSUME IInv, NEW r \in Requests, NEW c \in Calls, LockChat(r, c) PROVE IInv'
<1>0. /\ LogInv /\ ContactInv /\ ChatInv /\ ChatTypes /\ Room /\ MessagesMatchLog
      /\ WorkInv /\ RequestInv /\ RequestTypes /\ faults \in 0 .. MaxFaults
  BY DEF IInv, ChatInv, RequestInv
<1>1. /\ c.chat <= chats /\ c.chat \notin gone /\ ~ChatHeld(c.chat)
      /\ rpc' = [rpc EXCEPT ![r] = "locked"] /\ call' = [call EXCEPT ![r] = c]
      /\ seen' = [seen EXCEPT ![r] = UnreadIn(c.chat)]
      /\ UNCHANGED <<payloadVars, logVars, contactVars, chatVars, workerVars, faults>>
  BY DEF LockChat
<1>2. RequestTypes'
  <2>1. UnreadIn(c.chat) \in SUBSET Message BY <1>0 DEF UnreadIn, ChatTypes
  <2> QED BY <1>0, <1>1, <2>1 DEF RequestTypes
<1>3. /\ rpc'[r] = "locked" /\ call'[r] = c /\ seen'[r] = UnreadIn(c.chat)
      /\ \A q \in Requests \ {r} : rpc'[q] = rpc[q] /\ call'[q] = call[q] /\ seen'[q] = seen[q]
  BY <1>0, <1>1 DEF RequestTypes
<1>4. \A h : UnreadIn(h)' = UnreadIn(h) BY <1>1 DEF UnreadIn, chatVars
<1>5. RequestStands(r)' BY <1>1, <1>3, <1>4 DEF RequestStands, chatVars
<1>6. \A q \in Requests \ {r} : rpc[q] = "locked" => RequestStands(q)'
  BY <1>0, <1>1, <1>3, <1>4 DEF RequestInv, RequestStands, chatVars
<1>7. \A p, q \in Requests :
          rpc'[p] = "locked" /\ rpc'[q] = "locked" /\ call'[p].chat = call'[q].chat => p = q
  BY <1>0, <1>1, <1>3 DEF RequestInv, ChatHeld
<1>8. RequestInv' BY <1>2, <1>3, <1>5, <1>6, <1>7 DEF RequestInv
<1>9. /\ LogInv' /\ ContactInv' /\ ChatInv' /\ Room' /\ MessagesMatchLog' /\ WorkInv'
  BY <1>0, <1>1, LogKept, ContactsKept, ChatsKept, RoomKept, CountKept, WorkKept
  DEF logVars, payloadVars, contactVars, chatVars
<1> QED BY <1>0, <1>1, <1>8, <1>9 DEF IInv

(* A request that ends leaves the others with what they hold.              *)
LEMMA RequestEnds ==
    ASSUME RequestInv, NEW r \in Requests, EndRequest(r), chats' = chats,
           \A x \in Chats, q \in Requests \ {r} :
               rpc[q] = "locked" /\ call[q].chat = x =>
                   x \notin gone' /\ UnreadIn(x)' = UnreadIn(x)
    PROVE  RequestInv'
<1>1. RequestTypes BY DEF RequestInv
<1>2. RequestTypes' BY <1>1 DEF RequestTypes, EndRequest
<1>3. /\ rpc'[r] = "idle"
      /\ \A q \in Requests \ {r} : rpc'[q] = rpc[q] /\ call'[q] = call[q] /\ seen'[q] = seen[q]
  BY <1>1 DEF RequestTypes, EndRequest
<1>4. \A q \in Requests : rpc'[q] = "locked" => RequestStands(q)'
  <2> SUFFICES ASSUME NEW q \in Requests, rpc'[q] = "locked" PROVE RequestStands(q)'
    OBVIOUS
  <2>1. q # r /\ rpc[q] = "locked" /\ call'[q] = call[q] /\ seen'[q] = seen[q] BY <1>3
  <2>2. RequestStands(q) BY <2>1 DEF RequestInv
  <2>3. PICK x \in Chats : call[q].chat = x BY <2>2 DEF RequestStands, Calls
  <2>4. x \notin gone' /\ UnreadIn(x)' = UnreadIn(x) BY <2>1, <2>3
  <2>5. call'[q].chat = x BY <2>1, <2>3
  <2>6. UnreadIn(call[q].chat)' = UnreadIn(x)' BY <2>5 DEF UnreadIn
  <2>7. seen'[q] = UnreadIn(x) BY <2>1, <2>2, <2>3 DEF RequestStands
  <2> QED BY <2>1, <2>2, <2>3, <2>4, <2>5, <2>6, <2>7 DEF RequestStands
<1>5. \A p, q \in Requests :
          rpc'[p] = "locked" /\ rpc'[q] = "locked" /\ call'[p].chat = call'[q].chat => p = q
  BY <1>3 DEF RequestInv
<1> QED BY <1>2, <1>4, <1>5 DEF RequestInv

LEMMA MarkReadStep == ASSUME IInv, NEW r \in Requests, MarkRead(r) PROVE IInv'
<1>0. /\ LogInv /\ ContactInv /\ ChatInv /\ ChatTypes /\ Room /\ MessagesMatchLog
      /\ WorkInv /\ RequestInv /\ faults \in 0 .. MaxFaults
  BY DEF IInv, ChatInv
<1>1. PICK h \in Chats : h = call[r].chat /\ h \in 1 .. chats /\ seen[r] = UnreadIn(h)
  <2>1. RequestStands(r) BY <1>0 DEF RequestInv, MarkRead
  <2> QED BY <1>0, <2>1 DEF RequestStands, Calls, Chats, Updates, ChatTypes
<1> DEFINE g == [m \in messages |-> IF m \in seen[r] THEN [m EXCEPT !.read = TRUE] ELSE m]
<1>2. /\ rpc[r] = "locked" /\ messages' = {g[m] : m \in messages}
      /\ unread' = [unread EXCEPT ![h] = 0] /\ EndRequest(r)
      /\ UNCHANGED <<payloadVars, chats, owner, gone, logVars, contactVars, workerVars,
                     faults>>
  BY <1>1 DEF MarkRead
<1>3. \A m \in messages :
          /\ g[m] \in Message /\ g[m].update = m.update /\ g[m].chat = m.chat
          /\ g[m].deleted = m.deleted
          /\ m \in seen[r] => g[m].read
          /\ m \notin seen[r] => g[m] = m
  BY <1>0 DEF ChatTypes, Message
<1> HIDE DEF g
<1>4. UnreadIn(h)' = {}
  <2> SUFFICES ASSUME NEW n \in UnreadIn(h)' PROVE FALSE OBVIOUS
  <2>1. n \in messages' /\ n.chat = h /\ ~n.read /\ ~n.deleted BY DEF UnreadIn
  <2>2. PICK m \in messages : n = g[m] BY <1>2, <2>1
  <2>3. m \notin seen[r] /\ n = m BY <1>3, <2>1, <2>2
  <2> QED BY <1>1, <2>1, <2>2, <2>3 DEF UnreadIn
<1>5. ASSUME NEW x, x # h PROVE UnreadIn(x)' = UnreadIn(x)
  <2>1. ASSUME NEW m \in UnreadIn(x) PROVE m \in UnreadIn(x)'
    <3>1. m \in messages /\ m.chat = x /\ ~m.read /\ ~m.deleted BY <2>1 DEF UnreadIn
    <3>2. m \notin seen[r] BY <1>1, <1>5, <3>1 DEF UnreadIn
    <3>3. g[m] = m BY <1>3, <3>1, <3>2
    <3>4. m \in messages' BY <1>2, <3>1, <3>3
    <3> QED BY <3>1, <3>4 DEF UnreadIn
  <2>2. ASSUME NEW n \in UnreadIn(x)' PROVE n \in UnreadIn(x)
    <3>1. n \in messages' /\ n.chat = x /\ ~n.read /\ ~n.deleted BY <2>2 DEF UnreadIn
    <3>2. PICK m \in messages : n = g[m] BY <1>2, <3>1
    <3>3. n = m BY <1>3, <3>1, <3>2
    <3> QED BY <3>1, <3>2, <3>3 DEF UnreadIn
  <2> QED BY <2>1, <2>2
<1>6. ChatInv'
  <2>1. ChatTypes' BY <1>0, <1>2, <1>1, <1>3 DEF ChatTypes
  <2>2. unread'[h] = 0 /\ \A x \in Chats \ {h} : unread'[x] = unread[x]
    BY <1>0, <1>2, <1>1 DEF ChatTypes
  <2>3. UnreadAccurate'
    <3> SUFFICES ASSUME NEW x \in (1 .. chats) \ gone
                 PROVE  unread'[x] = Cardinality(UnreadIn(x)')
      BY <1>2 DEF UnreadAccurate
    <3>1. CASE x = h
      <4>1. UnreadIn(x)' = {} BY <1>4, <3>1
      <4> QED BY <2>2, <3>1, <4>1, FS_EmptySet
    <3>2. CASE x # h
      <4>1. x \in Chats BY <1>0 DEF ChatTypes, Chats, Updates
      <4>2. unread[x] = Cardinality(UnreadIn(x)) BY <1>0 DEF ChatInv, UnreadAccurate
      <4> QED BY <1>5, <2>2, <3>2, <4>1, <4>2
    <3> QED BY <3>1, <3>2
  <2>4. NoMessageInDeletedChat'
    BY <1>0, <1>2, <1>3 DEF ChatInv, NoMessageInDeletedChat
  <2>5. \A m \in messages' : m.chat <= chats' BY <1>0, <1>2, <1>3 DEF ChatInv
  <2>6. \A x \in Chats : x > chats' => unread'[x] = 0 BY <1>0, <1>2, <2>2 DEF ChatInv
  <2> QED BY <2>1, <2>3, <2>4, <2>5, <2>6 DEF ChatInv
<1>7. MessagesMatchLog'
  <2>1. g \in [messages -> Message] BY <1>3 DEF g
  <2> QED BY <1>0, <1>2, <1>3, <2>1, MarkingKeepsCount DEF ChatTypes, logVars, payloadVars
<1>8. RequestInv'
  <2>1. \A q \in Requests \ {r} : rpc[q] = "locked" =>
            call[q].chat \notin gone /\ call[q].chat # h
    BY <1>0, <1>2, <1>1 DEF RequestInv, RequestStands
  <2>2. ASSUME NEW x \in Chats, NEW q \in Requests \ {r},
               rpc[q] = "locked" /\ call[q].chat = x
        PROVE  x \notin gone' /\ UnreadIn(x)' = UnreadIn(x)
    <3>1. x # h /\ x \notin gone BY <2>1, <2>2
    <3> QED BY <1>2, <1>5, <3>1
  <2> QED BY <1>0, <1>2, <2>2, RequestEnds
<1>9. LogInv' /\ ContactInv' /\ Room' /\ WorkInv'
  BY <1>0, <1>2, LogKept, ContactsKept, RoomKept, WorkKept
  DEF logVars, payloadVars, contactVars
<1> QED BY <1>0, <1>2, <1>6, <1>7, <1>8, <1>9 DEF IInv

LEMMA DeleteChatStep == ASSUME IInv, NEW r \in Requests, DeleteChat(r) PROVE IInv'
<1>0. /\ LogInv /\ ContactInv /\ ChatInv /\ ChatTypes /\ Room /\ MessagesMatchLog
      /\ WorkInv /\ RequestInv /\ faults \in 0 .. MaxFaults
  BY DEF IInv, ChatInv
<1>1. PICK h \in Chats : h = call[r].chat /\ h \in 1 .. chats /\ seen[r] = UnreadIn(h)
  <2>1. RequestStands(r) BY <1>0 DEF RequestInv, DeleteChat
  <2> QED BY <1>0, <2>1 DEF RequestStands, Calls, Chats, Updates, ChatTypes
<1> DEFINE g == [m \in messages |-> IF m.chat = h THEN [m EXCEPT !.deleted = TRUE] ELSE m]
<1>2. /\ rpc[r] = "locked" /\ messages' = {g[m] : m \in messages}
      /\ gone' = gone \cup {h} /\ WorkspaceFree /\ EndRequest(r)
      /\ UNCHANGED <<payloadVars, chats, owner, unread, logVars, contactVars, workerVars,
                     faults>>
  BY <1>1 DEF DeleteChat
<1>3. \A m \in messages :
          /\ g[m] \in Message /\ g[m].update = m.update /\ g[m].chat = m.chat
          /\ m.chat = h => g[m].deleted
          /\ m.chat # h => g[m] = m
  BY <1>0 DEF ChatTypes, Message
<1> HIDE DEF g
<1>4. ASSUME NEW x, x # h PROVE UnreadIn(x)' = UnreadIn(x)
  BY <1>2, <1>3, <1>4 DEF UnreadIn
<1>5. ChatInv'
  <2>1. ChatTypes' BY <1>0, <1>2, <1>1, <1>3 DEF ChatTypes
  <2>2. UnreadAccurate'
    <3> SUFFICES ASSUME NEW x \in (1 .. chats) \ gone, x # h
                 PROVE  unread[x] = Cardinality(UnreadIn(x)')
      BY <1>2 DEF UnreadAccurate
    <3> QED BY <1>0, <1>4 DEF ChatInv, UnreadAccurate
  <2>3. NoMessageInDeletedChat'
    <3> SUFFICES ASSUME NEW m \in messages, g[m].chat \in gone \cup {h}
                 PROVE  g[m].deleted
      BY <1>2 DEF NoMessageInDeletedChat
    <3> QED BY <1>0, <1>3 DEF ChatInv, NoMessageInDeletedChat
  <2>4. \A m \in messages' : m.chat <= chats' BY <1>0, <1>2, <1>3 DEF ChatInv
  <2>5. \A x \in Chats : x > chats' => unread'[x] = 0 BY <1>0, <1>2 DEF ChatInv
  <2> QED BY <2>1, <2>2, <2>3, <2>4, <2>5 DEF ChatInv
<1>6. MessagesMatchLog'
  <2>1. g \in [messages -> Message] BY <1>3 DEF g
  <2> QED BY <1>0, <1>2, <1>3, <2>1, MarkingKeepsCount DEF ChatTypes, logVars, payloadVars
<1>7. RequestInv'
  <2>1. \A q \in Requests \ {r} : rpc[q] = "locked" =>
            call[q].chat \notin gone /\ call[q].chat # h
    BY <1>0, <1>2, <1>1 DEF RequestInv, RequestStands
  <2>2. ASSUME NEW x \in Chats, NEW q \in Requests \ {r},
               rpc[q] = "locked" /\ call[q].chat = x
        PROVE  x \notin gone' /\ UnreadIn(x)' = UnreadIn(x)
    <3>1. x # h /\ x \notin gone BY <2>1, <2>2
    <3> QED BY <1>2, <1>4, <3>1
  <2> QED BY <1>0, <1>2, <2>2, RequestEnds
<1>8. LogInv' /\ ContactInv' /\ Room' /\ WorkInv'
  BY <1>0, <1>2, LogKept, ContactsKept, RoomKept, WorkersWait
  DEF logVars, payloadVars, contactVars
<1> QED BY <1>0, <1>2, <1>5, <1>6, <1>7, <1>8 DEF IInv

-----------------------------------------------------------------------------
(* What the steps of a worker have in common. *)

OthersKept(w) ==
    \A v \in Workers \ {w} :
        /\ wpc'[v] = wpc[v] /\ cur'[v] = cur[v]
        /\ foundContact'[v] = foundContact[v] /\ foundChat'[v] = foundChat[v]

(* A worker moves while the rows stand still. *)
LEMMA WorkerMoves ==
    ASSUME WorkInv, NEW w \in Workers, WorkerTypes', OthersKept(w),
           UNCHANGED <<log, from, contacts, person, chats, gone>>,
           wpc'[w] = "writing" => WorkspaceFree /\ WriterStands(w)',
           wpc'[w] # "writing" => NothingFound(w)',
           wpc'[w] = "failing" => cur'[w] \in Updates
    PROVE  WorkInv'
<1>1. \A v \in Workers \ {w} : WriterStands(v) => WriterStands(v)'
  BY DEF OthersKept, WriterStands
<1>2. \A v \in Workers : /\ wpc'[v] = "writing" => WriterStands(v)'
                         /\ wpc'[v] # "writing" => NothingFound(v)'
                         /\ wpc'[v] = "failing" => cur'[v] \in Updates
  BY <1>1 DEF WorkInv, OthersKept, NothingFound
<1>3. \A v, x \in Workers : wpc'[v] = "writing" /\ wpc'[x] = "writing" => v = x
  BY DEF WorkInv, OthersKept, WorkspaceFree
<1> QED BY <1>2, <1>3 DEF WorkInv

(* The rows change, but nobody is left that relies on them. *)
LEMMA NobodyWrites ==
    ASSUME WorkInv, NEW w \in Workers, WorkerTypes', OthersKept(w),
           \A v \in Workers \ {w} : wpc[v] # "writing",
           wpc'[w] \in {"idle", "next"}, NothingFound(w)'
    PROVE  WorkInv'
BY DEF WorkInv, OthersKept, NothingFound

LEMMA ProceedMoves ==
    ASSUME WorkInv, NEW w \in Workers, NEW rest \in SUBSET Updates, Proceed(w, rest)
    PROVE  /\ WorkerTypes' /\ OthersKept(w)
           /\ wpc'[w] \in {"idle", "next"} /\ NothingFound(w)'
<1>1. WorkerTypes BY DEF WorkInv
<1>2. WorkerTypes' BY <1>1 DEF WorkerTypes, Proceed
<1>3. OthersKept(w) BY <1>1 DEF WorkerTypes, Proceed, OthersKept
<1>4. wpc'[w] \in {"idle", "next"} /\ NothingFound(w)'
  BY <1>1 DEF WorkerTypes, Proceed, NothingFound
<1> QED BY <1>2, <1>3, <1>4

(* The rows and the requests stand still: a step of the workers alone.     *)
LEMMA WorkersAlone ==
    ASSUME IInv, WorkInv', faults' \in 0 .. MaxFaults,
           UNCHANGED <<payloadVars, logVars, contactVars, chatVars, requestVars>>
    PROVE  IInv'
<1>1. /\ LogInv' /\ ContactInv' /\ ChatInv' /\ Room' /\ MessagesMatchLog' /\ RequestInv'
  BY LogKept, ContactsKept, ChatsKept, RoomKept, CountKept, RequestsKept
  DEF IInv, logVars, payloadVars, contactVars, chatVars
<1> QED BY <1>1 DEF IInv

LEMMA FaultCounted ==
    ASSUME faults \in 0 .. MaxFaults, Fault \/ UNCHANGED faults
    PROVE  faults' \in 0 .. MaxFaults
BY DEF Fault

-----------------------------------------------------------------------------
(* Workers. *)

LEMMA SelectStep == ASSUME IInv, NEW w \in Workers, SelectBatch(w) PROVE IInv'
<1>0. WorkInv /\ WorkerTypes /\ faults \in 0 .. MaxFaults BY DEF IInv, WorkInv
<1>1. /\ wpc' = [wpc EXCEPT ![w] = "next"]
      /\ batch' = [batch EXCEPT ![w] = Prefix(Pending)]
      /\ UNCHANGED <<payloadVars, cur, foundContact, foundChat, logVars, contactVars,
                     chatVars, requestVars, faults>>
  BY DEF SelectBatch
<1>2. Prefix(Pending) \in SUBSET Updates BY DEF Prefix, Pending
<1>3. WorkerTypes' BY <1>0, <1>1, <1>2 DEF WorkerTypes
<1>4. OthersKept(w) /\ wpc'[w] = "next" BY <1>0, <1>1 DEF WorkerTypes, OthersKept
<1>5. NothingFound(w)'
  BY <1>0, <1>1 DEF SelectBatch, WorkInv, NothingFound
<1>6. WorkInv'
  BY <1>0, <1>1, <1>3, <1>4, <1>5, WorkerMoves
  DEF logVars, payloadVars, contactVars, chatVars
<1> QED BY <1>0, <1>1, <1>6, WorkersAlone

(* A set of contacts is empty only if its first element is not there.      *)
LEMMA FoundContact ==
    ASSUME ContactInv, NEW u \in Updates, from[u] # Nobody
    PROVE  /\ ContactOf(u) \subseteq 1 .. contacts
           /\ \A c \in ContactOf(u), d \in 1 .. contacts : person[d] = from[u] => c = d
           /\ ContactOf(u) = {} => \A d \in 1 .. contacts : person[d] # from[u]
<1> DEFINE K == {c \in 1 .. contacts : person[c] = from[u]}
<1>1. ContactOf(u) \subseteq 1 .. contacts
  BY DEF ContactOf, Candidates, SameHandle
<1>2. ASSUME NEW d \in K PROVE Candidates(u) = K BY <1>2 DEF Candidates
<1>3. ASSUME NEW c \in ContactOf(u), NEW d \in 1 .. contacts, person[d] = from[u]
      PROVE  c = d
  <2>1. d \in K BY <1>3
  <2>2. c \in K BY <1>2, <2>1 DEF ContactOf
  <2>3. c \in 1 .. contacts /\ person[c] = person[d] /\ person[c] # Nobody BY <1>3, <2>2
  <2> QED BY <2>3 DEF ContactInv, OneContactPerPerson
<1>4. ASSUME ContactOf(u) = {}, NEW d \in 1 .. contacts, person[d] = from[u]
      PROVE  FALSE
  <2>1. d \in K /\ K \subseteq Nat BY <1>4
  <2>2. Candidates(u) = K BY <1>2, <2>1
  <2> HIDE DEF K
  <2>3. PICK c \in K : \A e \in K : c <= e BY <2>1, Least
  <2>4. c \in ContactOf(u) BY <2>2, <2>3 DEF ContactOf
  <2> QED BY <1>4, <2>4
<1> QED BY <1>1, <1>3, <1>4

LEMMA LockLogStep ==
    ASSUME IInv, NEW w \in Workers, NEW u \in Updates, LockLog(w, u) PROVE IInv'
<1>0. /\ WorkInv /\ WorkerTypes /\ ContactInv /\ ContactTypes /\ ChatTypes
      /\ faults \in 0 .. MaxFaults
  BY DEF IInv, WorkInv, ContactInv, ChatInv
<1>1. /\ WorkspaceFree /\ log[u] = "new" /\ from[u] # Nobody /\ wpc[w] = "next"
      /\ wpc' = [wpc EXCEPT ![w] = "writing"] /\ cur' = [cur EXCEPT ![w] = u]
      /\ UNCHANGED <<payloadVars, batch, logVars, contactVars, chatVars, requestVars,
                     faults>>
  BY DEF LockLog, Settled
<1>2. foundContact[w] = NoRow /\ foundChat[w] = NoRow
  BY <1>0, <1>1 DEF WorkInv, NothingFound
<1>3. \E c \in 1 .. contacts \cup {NoRow} :
          /\ foundContact' = [foundContact EXCEPT ![w] = c]
          /\ \A d \in 1 .. contacts : person[d] = from[u] => c = d
  <2>1. CASE ContactOf(u) = {}
    <3>1. UNCHANGED foundContact BY <2>1 DEF LockLog
    <3>2. \A d \in 1 .. contacts : person[d] # from[u] BY <1>0, <1>1, <2>1, FoundContact
    <3> WITNESS NoRow \in 1 .. contacts \cup {NoRow}
    <3> QED BY <1>0, <1>2, <3>1, <3>2 DEF WorkerTypes
  <2>2. CASE ContactOf(u) # {}
    <3>1. PICK c \in ContactOf(u) : foundContact' = [foundContact EXCEPT ![w] = c]
      BY <2>2 DEF LockLog
    <3>2. c \in 1 .. contacts BY <1>0, <1>1, FoundContact
    <3>3. \A d \in 1 .. contacts : person[d] = from[u] => c = d
      BY <1>0, <1>1, FoundContact
    <3> QED BY <3>1, <3>2, <3>3
  <2> QED BY <2>1, <2>2
<1>4. \E h \in ((1 .. chats) \ gone) \cup {NoRow} : foundChat' = [foundChat EXCEPT ![w] = h]
  <2>1. CASE UNCHANGED foundChat
    <3> WITNESS NoRow \in ((1 .. chats) \ gone) \cup {NoRow}
    <3> QED BY <1>0, <1>2, <2>1 DEF WorkerTypes
  <2>2. CASE foundChat' # foundChat
    <3>1. PICK c \in ContactOf(u) : \E h \in LiveChatOf(c) :
              foundChat' = [foundChat EXCEPT ![w] = h]
      BY <2>2 DEF LockLog
    <3> QED BY <3>1 DEF LiveChatOf
  <2> QED BY <2>1, <2>2
<1>5. PICK c \in 1 .. contacts \cup {NoRow} :
          /\ foundContact' = [foundContact EXCEPT ![w] = c]
          /\ \A d \in 1 .. contacts : person[d] = from[u] => c = d
  BY <1>3
<1>6. PICK h \in ((1 .. chats) \ gone) \cup {NoRow} :
          foundChat' = [foundChat EXCEPT ![w] = h]
  BY <1>4
<1>7. /\ c \in Contacts \cup {NoRow} /\ h \in Chats \cup {NoRow}
      /\ h # NoRow => h <= chats /\ h \notin gone
  <2>1. c \in Contacts \cup {NoRow} BY <1>0 DEF ContactTypes, Contacts
  <2>2. h \in Chats \cup {NoRow} BY <1>0 DEF ChatTypes, Chats, Updates
  <2>3. h # NoRow => h <= chats /\ h \notin gone BY <1>0 DEF ChatTypes
  <2> QED BY <2>1, <2>2, <2>3
<1>8. WorkerTypes' BY <1>0, <1>1, <1>5, <1>6, <1>7 DEF WorkerTypes
<1>9. OthersKept(w) BY <1>0, <1>1, <1>5, <1>6 DEF WorkerTypes, OthersKept
<1>10. wpc'[w] = "writing" /\ cur'[w] = u /\ foundContact'[w] = c /\ foundChat'[w] = h
  BY <1>0, <1>1, <1>5, <1>6 DEF WorkerTypes
<1>11. UNCHANGED <<log, from, contacts, person, chats, gone>>
  BY <1>1 DEF logVars, payloadVars, contactVars, chatVars
<1>12. WriterStands(w)'
  BY <1>1, <1>5, <1>7, <1>10, <1>11 DEF WriterStands
<1>13. WorkInv' BY <1>0, <1>1, <1>8, <1>9, <1>10, <1>11, <1>12, WorkerMoves
<1> QED BY <1>0, <1>1, <1>13, WorkersAlone

LEMMA AbortStep ==
    ASSUME IInv, NEW w \in Workers, wpc[w] = "writing", Abort(w),
           Fault \/ UNCHANGED faults,
           UNCHANGED <<payloadVars, batch, cur, logVars, contactVars, chatVars>>
    PROVE  WorkInv' /\ faults' \in 0 .. MaxFaults
<1>0. WorkInv /\ WorkerTypes /\ faults \in 0 .. MaxFaults /\ cur[w] \in Updates
  BY DEF IInv, WorkInv, WriterStands
<1>1. WorkerTypes' BY <1>0 DEF WorkerTypes, Abort
<1>2. OthersKept(w) /\ wpc'[w] = "failing" /\ NothingFound(w)'
  BY <1>0 DEF WorkerTypes, Abort, OthersKept, NothingFound
<1>3. UNCHANGED <<log, from, contacts, person, chats, gone>>
  BY DEF logVars, payloadVars, contactVars, chatVars
<1>4. WorkInv' BY <1>0, <1>1, <1>2, <1>3, WorkerMoves
<1> QED BY <1>0, <1>4, FaultCounted

LEMMA ProcessFailsStep ==
    ASSUME IInv, NEW w \in Workers, ProcessFails(w) PROVE IInv'
<1>1. WorkInv' /\ faults' \in 0 .. MaxFaults BY AbortStep DEF ProcessFails
<1> QED BY <1>1, WorkersAlone DEF ProcessFails

LEMMA DeathStep == ASSUME IInv, NEW w \in Workers, WorkerDies(w) PROVE IInv'
<1>0. WorkInv /\ faults \in 0 .. MaxFaults BY DEF IInv
<1>1. {} \in SUBSET Updates /\ Proceed(w, {}) BY DEF WorkerDies
<1>2. /\ WorkerTypes' /\ OthersKept(w)
      /\ wpc'[w] \in {"idle", "next"} /\ NothingFound(w)'
  BY <1>0, <1>1, ProceedMoves
<1>3. UNCHANGED <<log, from, contacts, person, chats, gone>>
  BY DEF WorkerDies, logVars, payloadVars, contactVars, chatVars
<1>4. WorkInv' BY <1>0, <1>2, <1>3, WorkerMoves
<1> QED BY <1>0, <1>4, FaultCounted, WorkersAlone DEF WorkerDies

LEMMA DeadlockStep ==
    ASSUME IInv, NEW w \in Workers, NEW r \in Requests, BreakDeadlock(w, r) PROVE IInv'
<1>1. CASE Abort(w) /\ UNCHANGED requestVars
  <2>1. WorkInv' /\ faults' \in 0 .. MaxFaults
    BY <1>1, AbortStep DEF BreakDeadlock, Deadlocked
  <2> QED BY <1>1, <2>1, WorkersAlone DEF BreakDeadlock
<1>2. CASE EndRequest(r) /\ UNCHANGED <<wpc, foundContact, foundChat>>
  <2>0. /\ LogInv /\ ContactInv /\ ChatInv /\ Room /\ MessagesMatchLog
        /\ WorkInv /\ RequestInv /\ faults \in 0 .. MaxFaults
    BY DEF IInv
  <2>1. UNCHANGED <<payloadVars, logVars, contactVars, chatVars, workerVars, faults>>
    BY <1>2 DEF BreakDeadlock, workerVars
  <2>2. \A x \in Chats : UnreadIn(x)' = UnreadIn(x) BY <2>1 DEF UnreadIn, chatVars
  <2>3. \A x \in Chats, q \in Requests \ {r} :
            rpc[q] = "locked" /\ call[q].chat = x => x \notin gone'
    BY <2>0, <2>1 DEF RequestInv, RequestStands, chatVars
  <2>4. RequestInv' BY <1>2, <2>0, <2>1, <2>2, <2>3, RequestEnds DEF chatVars
  <2>5. LogInv' /\ ContactInv' /\ ChatInv' /\ Room' /\ MessagesMatchLog' /\ WorkInv'
    BY <2>0, <2>1, LogKept, ContactsKept, ChatsKept, RoomKept, CountKept, WorkKept
    DEF logVars, payloadVars, contactVars, chatVars
  <2> QED BY <2>0, <2>1, <2>4, <2>5 DEF IInv
<1> QED BY <1>1, <1>2 DEF BreakDeadlock

(* A worker settles an update without a message, or counts a failure.      *)
LEMMA SettleStep ==
    ASSUME IInv, NEW w \in Workers, NEW u \in Updates, WorkspaceFree,
           Proceed(w, batch[w] \ {u}),
           \/ UNCHANGED logVars
           \/ /\ log[u] = "new"
              /\ attempts' = [attempts EXCEPT ![u] = @ + 1]
              /\ \/ log' = [log EXCEPT ![u] = "processed"] /\ from[u] = Nobody
                 \/ log' = [log EXCEPT ![u] = IF IsFinal(u) THEN "failed" ELSE "new"],
           UNCHANGED <<payloadVars, contactVars, chatVars, requestVars, faults>>
    PROVE  IInv'
<1>0. /\ LogInv /\ LogTypes /\ ContactInv /\ ContactTypes /\ ChatInv /\ ChatTypes /\ Room
      /\ MessagesMatchLog /\ WorkInv /\ RequestInv /\ faults \in 0 .. MaxFaults
  BY DEF IInv, LogInv, ContactInv, ChatInv
<1>1. WorkInv'
  <2>1. batch[w] \ {u} \in SUBSET Updates BY <1>0 DEF WorkInv, WorkerTypes
  <2>2. \A v \in Workers : wpc[v] # "writing" BY DEF WorkspaceFree
  <2> QED BY <1>0, <2>1, <2>2, ProceedMoves, NobodyWrites
<1>2. ContactInv' /\ ChatInv' /\ RequestInv'
  BY <1>0, ContactsKept, ChatsKept, RequestsKept DEF chatVars
<1>3. CASE UNCHANGED logVars
  <2>1. LogInv' /\ Room' /\ MessagesMatchLog'
    BY <1>0, <1>3, LogKept, RoomKept, CountKept
    DEF logVars, payloadVars, contactVars, chatVars
  <2> QED BY <1>0, <1>1, <1>2, <2>1 DEF IInv
<1>4. CASE /\ log[u] = "new"
           /\ attempts' = [attempts EXCEPT ![u] = @ + 1]
           /\ \/ log' = [log EXCEPT ![u] = "processed"] /\ from[u] = Nobody
              \/ log' = [log EXCEPT ![u] = IF IsFinal(u) THEN "failed" ELSE "new"]
  <2>1. /\ log' \in [Updates -> {"none", "new", "processed", "failed"}]
        /\ \A v \in Updates \ {u} : log'[v] = log[v] /\ attempts'[v] = attempts[v]
        /\ log'[u] \in {"processed", "failed", "new"}
        /\ log'[u] = "processed" => from[u] = Nobody
        /\ log'[u] = "failed" <=> log'[u] # "processed" /\ IsFinal(u)
    BY <1>0, <1>4 DEF LogTypes
  <2>2. attempts[u] < MaxAttempts /\ attempts[u] \in Nat /\ MaxAttempts \in Nat
    BY <1>0, <1>4 DEF LogTypes
  <2>3. /\ attempts' \in [Updates -> 0 .. MaxAttempts] /\ attempts'[u] = attempts[u] + 1
        /\ log'[u] = "new" => attempts'[u] < MaxAttempts
        /\ log'[u] = "failed" => attempts'[u] = MaxAttempts
    BY <1>0, <1>4, <2>1, <2>2 DEF LogTypes, IsFinal
  <2>4. LogInv'
    BY <1>0, <2>1, <2>3 DEF LogInv, LogTypes, payloadVars
  <2>5. Room'
    <3>1. Open' \subseteq Open BY <1>4, <2>1 DEF Open
    <3> QED BY <1>0, <3>1, OpenShrinks DEF contactVars, chatVars
  <2>6. MessagesMatchLog'
    <3>1. from' = from /\ messages' = messages BY DEF payloadVars, chatVars
    <3> QED BY <1>0, <1>4, <2>1, <3>1 DEF MessagesMatchLog
  <2> QED BY <1>0, <1>1, <1>2, <2>4, <2>5, <2>6 DEF IInv
<1> QED BY <1>3, <1>4

LEMMA SkipStep ==
    ASSUME IInv, NEW w \in Workers, NEW u \in Updates, SkipUpdate(w, u) PROVE IInv'
BY SettleStep DEF SkipUpdate, Settled

LEMMA FailureStep == ASSUME IInv, NEW w \in Workers, RecordFailure(w) PROVE IInv'
<1>1. PICK u \in Updates : u = cur[w] BY DEF IInv, WorkInv, RecordFailure
<1> QED BY <1>1, SettleStep DEF RecordFailure

-----------------------------------------------------------------------------
(* The transaction that turns an update into a message. *)

(* The contact of the update belongs to its sender, to nobody else.        *)
LEMMA SaveContactStep ==
    ASSUME ContactInv, NEW w \in Workers, NEW u \in Updates, u = cur[w], SaveContact(w),
           from[u] \in Customers, mentions[u] \in Handles \cup {NoHandle},
           foundContact[w] \in 1 .. contacts \cup {NoRow},
           \A d \in 1 .. contacts : person[d] = from[u] => foundContact[w] = d,
           contacts + 1 \in Contacts, UNCHANGED payloadVars
    PROVE  /\ ContactInv'
           /\ contacts' \in {contacts, contacts + 1}
           /\ foundContact[w] # NoRow => contacts' = contacts
           /\ foundContact[w] = NoRow => contacts' = contacts + 1
<1>0. ContactTypes /\ OneContactPerPerson BY DEF ContactInv
<1>1. contacts \in Nat /\ 1 .. contacts \subseteq Contacts
  BY <1>0 DEF ContactTypes, Contacts
<1>2. CASE foundContact[w] # NoRow
  <2> DEFINE c == foundContact[w]
  <2>1. /\ person' = [person EXCEPT ![c] = from[u]]
        /\ contacts' = contacts /\ handle' = handle
    BY <1>2 DEF SaveContact
  <2>2. c \in 1 .. contacts BY <1>2
  <2> HIDE DEF c
  <2>3. ContactTypes' BY <1>0, <2>1 DEF ContactTypes
  <2>4. person'[c] = from[u] /\ \A d \in Contacts \ {c} : person'[d] = person[d]
    BY <1>0, <1>1, <2>1, <2>2 DEF ContactTypes
  <2>5. \A d \in 1 .. contacts \ {c} : person[d] # from[u] BY DEF c
  <2>6. OneContactPerPerson'
    BY <1>0, <1>1, <2>1, <2>4, <2>5 DEF OneContactPerPerson
  <2>7. \A d \in Contacts : d > contacts => person'[d] = Nobody
    BY <1>1, <2>2, <2>4 DEF ContactInv, Contacts
  <2> QED BY <1>2, <2>1, <2>3, <2>6, <2>7 DEF ContactInv
<1>3. CASE foundContact[w] = NoRow
  <2>1. /\ contacts' = contacts + 1
        /\ person' = [person EXCEPT ![contacts + 1] = from[u]]
        /\ handle' = [handle EXCEPT ![contacts + 1] = mentions[u]]
    BY <1>3 DEF SaveContact
  <2>2. ContactTypes' BY <1>0, <2>1 DEF ContactTypes, Contacts
  <2>3. /\ person'[contacts + 1] = from[u]
        /\ \A d \in Contacts \ {contacts + 1} : person'[d] = person[d]
    BY <1>0, <2>1 DEF ContactTypes
  <2>4. \A d \in 1 .. contacts : person[d] # from[u] BY <1>1, <1>3
  <2>5. \A d \in 1 .. contacts' : d \in 1 .. contacts \/ d = contacts + 1
    BY <1>1, <2>1
  <2>6. \A d \in 1 .. contacts : person'[d] = person[d] BY <1>1, <2>3
  <2>7. OneContactPerPerson'
    <3> SUFFICES ASSUME NEW c \in 1 .. contacts', NEW d \in 1 .. contacts',
                        person'[c] = person'[d], person'[c] # Nobody
                 PROVE  c = d
      BY DEF OneContactPerPerson
    <3>1. CASE c \in 1 .. contacts /\ d \in 1 .. contacts
      BY <1>0, <2>6, <3>1 DEF OneContactPerPerson
    <3>2. CASE c = contacts + 1 /\ d \in 1 .. contacts BY <2>3, <2>4, <2>6, <3>2
    <3>3. CASE d = contacts + 1 /\ c \in 1 .. contacts BY <2>3, <2>4, <2>6, <3>3
    <3>4. CASE c = contacts + 1 /\ d = contacts + 1 BY <3>4
    <3> QED BY <2>5, <3>1, <3>2, <3>3, <3>4
  <2>8. \A d \in Contacts : d > contacts' => person'[d] = Nobody
    BY <1>1, <2>1, <2>3 DEF ContactInv, Contacts
  <2> QED BY <1>3, <2>1, <2>2, <2>7, <2>8 DEF ContactInv
<1> QED BY <1>2, <1>3

(* The first message of an update, in a chat that was there or is new.     *)
LEMMA DeliverStep ==
    ASSUME ChatInv, NEW u \in Updates, NEW k \in Chats, Deliver(u, k),
           \A m \in messages : m.update # u,
           k \notin gone, gone' = gone, owner' \in [Chats -> Contacts \cup {NoRow}],
           \/ chats' = chats /\ k <= chats
           \/ chats' = chats + 1 /\ k = chats + 1
    PROVE  /\ ChatInv'
           /\ \A x \in Chats \ {k} : UnreadIn(x)' = UnreadIn(x)
<1> DEFINE new == [update |-> u, chat |-> k, read |-> FALSE, deleted |-> FALSE]
<1>0. /\ ChatTypes /\ UnreadAccurate /\ NoMessageInDeletedChat
      /\ chats \in Nat /\ k \in Nat /\ chats' \in Nat /\ chats <= chats' /\ k <= chats'
  BY DEF ChatInv, ChatTypes, Chats, Updates
<1>1. /\ messages' = messages \cup {new} /\ unread' = [unread EXCEPT ![k] = @ + 1]
      /\ new \in Message /\ new \notin messages
      /\ new.update = u /\ new.chat = k /\ ~new.read /\ ~new.deleted
  BY DEF Deliver, Message
<1> HIDE DEF new
<1>2. \A x \in Chats \ {k} : UnreadIn(x)' = UnreadIn(x) BY <1>1 DEF UnreadIn
<1>3. UnreadIn(k)' = UnreadIn(k) \cup {new} BY <1>1 DEF UnreadIn
<1>4. unread'[k] = unread[k] + 1 /\ \A x \in Chats \ {k} : unread'[x] = unread[x]
  BY <1>0, <1>1 DEF ChatTypes
<1>5. ChatTypes'
  <2>1. chats' \in 0 .. MaxUpdates /\ gone' \subseteq 1 .. chats'
    BY <1>0 DEF ChatTypes, Chats, Updates
  <2> QED BY <1>0, <1>1, <2>1 DEF ChatTypes
<1>6. unread[k] = Cardinality(UnreadIn(k))
  <2>1. CASE k <= chats
    <3>1. k \in (1 .. chats) \ gone BY <1>0, <2>1 DEF Chats, Updates
    <3> QED BY <1>0, <3>1 DEF UnreadAccurate
  <2>2. CASE k > chats
    <3>1. \A m \in messages : m.chat # k
      BY <1>0, <2>2 DEF ChatInv, ChatTypes, Message, Chats, Updates
    <3>2. UnreadIn(k) = {} BY <3>1 DEF UnreadIn
    <3>3. unread[k] = 0 BY <2>2 DEF ChatInv
    <3> QED BY <3>2, <3>3, FS_EmptySet
  <2> QED BY <1>0, <2>1, <2>2
<1>7. UnreadAccurate'
  <2> SUFFICES ASSUME NEW x \in (1 .. chats') \ gone
               PROVE  unread'[x] = Cardinality(UnreadIn(x)')
    BY DEF UnreadAccurate
  <2>1. CASE x = k
    <3>1. UnreadIn(k) \subseteq Message /\ new \notin UnreadIn(k)
      BY <1>0, <1>1 DEF UnreadIn, ChatTypes
    <3>2. Cardinality(UnreadIn(k) \cup {new}) = Cardinality(UnreadIn(k)) + 1
      BY <3>1, MessagesFinite, FS_AddElement
    <3> QED BY <1>3, <1>4, <1>6, <2>1, <3>2
  <2>2. CASE x # k
    <3>1. x \in (1 .. chats) \ gone /\ x \in Chats
      BY <1>0, <1>5, <2>2 DEF ChatTypes, Chats, Updates
    <3>2. unread[x] = Cardinality(UnreadIn(x)) BY <1>0, <3>1 DEF UnreadAccurate
    <3> QED BY <1>2, <1>4, <2>2, <3>1, <3>2
  <2> QED BY <2>1, <2>2
<1>8. NoMessageInDeletedChat' BY <1>0, <1>1 DEF NoMessageInDeletedChat
<1>9. \A m \in messages' : m.chat <= chats'
  <2>1. \A m \in messages : m.chat <= chats /\ m.chat \in Nat
    BY <1>0 DEF ChatInv, ChatTypes, Message, Chats, Updates
  <2> QED BY <1>0, <1>1, <2>1
<1>10. \A x \in Chats : x > chats' => unread'[x] = 0
  <2>1. \A x \in Chats : x \in Nat BY DEF Chats, Updates
  <2>2. \A x \in Chats : x > chats => unread[x] = 0 BY DEF ChatInv
  <2> QED BY <1>0, <1>4, <2>1, <2>2
<1> QED BY <1>2, <1>5, <1>7, <1>8, <1>9, <1>10 DEF ChatInv

LEMMA StoreStep == ASSUME IInv, NEW w \in Workers, StoreMessage(w) PROVE IInv'
<1>0. /\ LogInv /\ LogTypes /\ ContactInv /\ ContactTypes /\ ChatInv /\ ChatTypes /\ Room
      /\ MessagesMatchLog /\ WorkInv /\ WorkerTypes /\ RequestInv
      /\ faults \in 0 .. MaxFaults /\ WriterStands(w) /\ wpc[w] = "writing"
  BY DEF IInv, LogInv, ContactInv, ChatInv, WorkInv, StoreMessage
<1>1. PICK u \in Updates : u = cur[w] BY <1>0 DEF WriterStands
<1>2. /\ log[u] = "new" /\ from[u] # Nobody
      /\ foundContact[w] \in 1 .. contacts \cup {NoRow}
      /\ \A c \in 1 .. contacts : person[c] = from[u] => foundContact[w] = c
      /\ foundChat[w] # NoRow => foundChat[w] <= chats /\ foundChat[w] \notin gone
  BY <1>0, <1>1 DEF WriterStands
<1>3. /\ SaveContact(w) /\ Proceed(w, batch[w] \ {u})
      /\ log' = [log EXCEPT ![u] = "processed"]
      /\ attempts' = [attempts EXCEPT ![u] = @ + 1]
      /\ UNCHANGED <<payloadVars, requestVars, faults, gone>>
  BY <1>1 DEF StoreMessage
<1>4. /\ Cardinality(Open') = Cardinality(Open) - 1 /\ Cardinality(Open) \in Nat
      /\ Cardinality(Open') \in Nat
  <2>1. Open' \subseteq Updates BY DEF Open
  <2> QED BY <1>0, <1>2, <1>3, <2>1, OneLessOpen, UpdatesFinite
<1>5. contacts + 1 \in Contacts /\ chats + 1 \in Chats
  BY <1>0, <1>4 DEF Room, ContactTypes, ChatTypes, Contacts, Chats, Updates
<1>6. /\ ContactInv' /\ contacts' \in {contacts, contacts + 1}
      /\ foundContact[w] = NoRow => contacts' = contacts + 1
  <2>1. from[u] \in Customers /\ mentions[u] \in Handles \cup {NoHandle}
    BY <1>0, <1>2 DEF LogTypes
  <2> QED BY <1>0, <1>1, <1>2, <1>3, <1>5, <2>1, SaveContactStep
<1>7. \A m \in messages : m.update # u
  <2>1. {m \in messages : m.update = u} \subseteq Message BY <1>0 DEF ChatTypes
  <2>2. Cardinality({m \in messages : m.update = u}) = 0
    BY <1>0, <1>2 DEF MessagesMatchLog
  <2>3. {m \in messages : m.update = u} = {} BY <2>1, <2>2, MessagesFinite, FS_EmptySet
  <2> QED BY <2>3
<1>8. PICK k \in Chats :
          /\ Deliver(u, k) /\ k \notin gone
          /\ \/ chats' = chats /\ k <= chats /\ ~ChatHeld(k) /\ owner' = owner
             \/ /\ chats' = chats + 1 /\ k = chats + 1
                /\ owner' = [owner EXCEPT ![chats + 1] =
                       IF foundContact[w] # NoRow THEN foundContact[w] ELSE contacts + 1]
  <2>1. CASE foundChat[w] # NoRow
    <3>1. foundChat[w] \in Chats BY <1>0, <2>1 DEF WorkerTypes
    <3> QED BY <1>1, <1>2, <2>1, <3>1 DEF StoreMessage
  <2>2. CASE foundChat[w] = NoRow
    <3>1. chats + 1 \notin gone BY <1>0 DEF ChatTypes
    <3> QED BY <1>1, <1>5, <2>2, <3>1 DEF StoreMessage
  <2> QED BY <2>1, <2>2
<1>9. owner' \in [Chats -> Contacts \cup {NoRow}]
  <2>1. 1 .. contacts \subseteq Contacts BY <1>0 DEF ContactTypes, Contacts
  <2> QED BY <1>0, <1>2, <1>5, <1>8, <2>1 DEF ChatTypes
<1>10. /\ ChatInv'
       /\ \A x \in Chats \ {k} : UnreadIn(x)' = UnreadIn(x)
  BY <1>0, <1>3, <1>7, <1>8, <1>9, DeliverStep
<1>11. LogInv'
  <2>1. attempts[u] < MaxAttempts BY <1>0, <1>2 DEF LogTypes
  <2>2. LogTypes' BY <1>0, <1>2, <1>3, <2>1 DEF LogTypes, payloadVars
  <2>3. \A v \in Updates : log'[v] = "none" => attempts'[v] = 0
    BY <1>0, <1>2, <1>3 DEF LogInv, LogTypes
  <2> QED BY <2>2, <2>3 DEF LogInv
<1>12. Room'
  BY <1>0, <1>4, <1>6, <1>8 DEF Room, ContactTypes, ChatTypes
<1>13. MessagesMatchLog'
  <2> SUFFICES ASSUME NEW v \in Updates
               PROVE  Cardinality({m \in messages' : m.update = v})
                        = IF log'[v] = "processed" /\ from'[v] # Nobody THEN 1 ELSE 0
    BY DEF MessagesMatchLog
  <2> DEFINE new == [update |-> u, chat |-> k, read |-> FALSE, deleted |-> FALSE]
  <2>1. messages' = messages \cup {new} /\ new.update = u BY <1>8 DEF Deliver
  <2> HIDE DEF new
  <2>2. CASE v = u
    <3>1. {m \in messages' : m.update = v} = {new} BY <1>7, <2>1, <2>2
    <3>2. log'[u] = "processed" /\ from'[u] # Nobody
      BY <1>0, <1>2, <1>3 DEF LogTypes, payloadVars
    <3>3. Cardinality({new}) = 1 BY FS_Singleton
    <3> QED BY <2>2, <3>1, <3>2, <3>3
  <2>3. CASE v # u
    <3>1. {m \in messages' : m.update = v} = {m \in messages : m.update = v}
      BY <2>1, <2>3
    <3>2. log'[v] = log[v] /\ from'[v] = from[v]
      BY <1>0, <1>3, <2>3 DEF LogTypes, payloadVars
    <3> QED BY <1>0, <3>1, <3>2 DEF MessagesMatchLog
  <2> QED BY <2>2, <2>3
<1>14. WorkInv'
  <2>1. batch[w] \ {u} \in SUBSET Updates BY <1>0 DEF WorkerTypes
  <2>2. \A v \in Workers \ {w} : wpc[v] # "writing" BY <1>0 DEF WorkInv
  <2> QED BY <1>0, <1>3, <2>1, <2>2, ProceedMoves, NobodyWrites
<1>15. RequestInv'
  <2>1. ASSUME NEW r \in Requests, rpc[r] = "locked" PROVE RequestStands(r)'
    <3>1. PICK x \in Chats : x = call[r].chat
      BY <1>0, <2>1 DEF RequestInv, RequestStands, Calls
    <3>2. x <= chats /\ x \notin gone /\ seen[r] = UnreadIn(x) /\ call[r] \in Calls
      BY <1>0, <2>1, <3>1 DEF RequestInv, RequestStands
    <3>3. x # k
      <4>1. CASE ~ChatHeld(k) BY <2>1, <3>1, <4>1 DEF ChatHeld
      <4>2. CASE k = chats + 1 BY <1>0, <3>2, <4>2 DEF ChatTypes
      <4> QED BY <1>8, <4>1, <4>2
    <3>4. UnreadIn(x)' = UnreadIn(x) BY <1>10, <3>3
    <3>5. call'[r] = call[r] /\ seen'[r] = seen[r] /\ gone' = gone
      BY <1>3 DEF requestVars
    <3>6. x <= chats' BY <1>0, <1>8, <3>2 DEF ChatTypes, Chats, Updates
    <3>7. UnreadIn(call[r].chat)' = UnreadIn(x)' BY <3>1, <3>5 DEF UnreadIn
    <3> QED BY <3>1, <3>2, <3>4, <3>5, <3>6, <3>7 DEF RequestStands
  <2>2. UNCHANGED <<rpc, call, seen>> BY <1>3 DEF requestVars
  <2> QED BY <1>0, <2>1, <2>2 DEF RequestInv, RequestTypes
<1> QED BY <1>0, <1>3, <1>6, <1>10, <1>11, <1>12, <1>13, <1>14, <1>15 DEF IInv

-----------------------------------------------------------------------------
(* The theorems. *)

LEMMA InductiveStep == IInv /\ [Next]_vars => IInv'
<1> SUFFICES ASSUME IInv, [Next]_vars PROVE IInv' OBVIOUS
<1>1. CASE Webhook BY <1>1, ReceiveStep DEF Webhook
<1>2. CASE Manager BY <1>2, ManagerStep
<1>3. ASSUME NEW r \in Requests, RequestStep(r) PROVE IInv'
  BY <1>3, LockChatStep, MarkReadStep, DeleteChatStep DEF RequestStep
<1>4. ASSUME NEW w \in Workers, WorkerStep(w) PROVE IInv'
  BY <1>4, SelectStep, SkipStep, LockLogStep, StoreStep, FailureStep, ProcessFailsStep,
     DeathStep DEF WorkerStep, Advance
<1>5. ASSUME NEW w \in Workers, NEW r \in Requests, BreakDeadlock(w, r) PROVE IInv'
  BY <1>5, DeadlockStep
<1>6. CASE UNCHANGED vars
  <2>1. UNCHANGED <<logVars, payloadVars, contactVars, chatVars, workerVars, requestVars,
                    faults>>
    BY <1>6 DEF vars
  <2>2. WorkInv' BY <2>1, WorkKept DEF IInv, logVars, payloadVars, contactVars, chatVars
  <2> QED BY <2>1, <2>2, WorkersAlone DEF IInv
<1> QED BY <1>1, <1>2, <1>3, <1>4, <1>5, <1>6 DEF Next

(* The inbox is sound: types, unread_count is the number of unread         *)
(* messages, and a deleted chat keeps no message.                          *)
THEOREM Invariance == Spec => []Inv
<1>1. IInv => Inv
  BY TypeParts DEF IInv, LogInv, ContactInv, ChatInv, WorkInv, RequestInv, Inv
<1> QED BY <1>1, InitInv, InductiveStep, PTL DEF Spec

(* An update of a person that is processed has exactly one message, every  *)
(* other update has none.                                                  *)
THEOREM OneMessagePerUpdate == Spec => []MessagesMatchLog
<1>1. IInv => MessagesMatchLog BY DEF IInv
<1> QED BY <1>1, InitInv, InductiveStep, PTL DEF Spec

(* A Telegram user has one contact at most. *)
THEOREM ContactsAreUnique == Spec => []OneContactPerPerson
<1>1. IInv => OneContactPerPerson BY DEF IInv, ContactInv
<1> QED BY <1>1, InitInv, InductiveStep, PTL DEF Spec

-----------------------------------------------------------------------------
(* TelegramBot *)

HIDE InboxAssumption DEF InboxAssumption

USE BotAssumption DEF BotAssumption

Steps == {"idle", "calling", "asking", "selecting", "inserting", "undoing",
          "releasing", "clearing", "recording"}
Ops == {"none", "connect", "disconnect", "check"}
Found == {"none", "healthy", "degraded", "failed"}

-----------------------------------------------------------------------------
(* The parts of the type invariant. *)

RowTypes ==
    /\ exists \subseteq Workspaces
    /\ token \in [Workspaces -> Tokens \cup {None}]
    /\ secret \in [Workspaces -> Secrets \cup {None}]
    /\ \A w \in Workspaces : token[w] = None <=> secret[w] = None
    /\ health \in [Workspaces -> {"none", "healthy", "degraded", "error"}]
    /\ failures \in [Workspaces -> Nat]

TelegramTypes ==
    /\ webhook \in [Tokens -> Secrets \cup {None}]
    /\ used \in 0 .. MaxSecrets

HandlerTypes ==
    /\ pc \in [Handlers -> Steps]
    /\ op \in [Handlers -> Ops]
    /\ ws \in [Handlers -> Workspaces \cup {None}]
    /\ tok \in [Handlers -> Tokens \cup {None}]
    /\ sec \in [Handlers -> Secrets \cup {None}]
    /\ prev \in [Handlers -> Tokens \cup {None}]
    /\ found \in [Handlers -> Found]

HistoryTypes ==
    /\ overlapped \in [Handlers -> BOOLEAN]
    /\ suspect \subseteq Tokens
    /\ botFaults \in 0 .. MaxBotFaults

LEMMA BotTypeParts ==
    BotTypeOK <=> RowTypes /\ TelegramTypes /\ HandlerTypes /\ HistoryTypes
BY DEF BotTypeOK, RowTypes, TelegramTypes, HandlerTypes, HistoryTypes, Steps, Ops, Found

LEMMA TypePartsNext ==
    BotTypeOK' <=> RowTypes' /\ TelegramTypes' /\ HandlerTypes' /\ HistoryTypes'
BY DEF BotTypeOK, RowTypes, TelegramTypes, HandlerTypes, HistoryTypes, Steps, Ops, Found

LEMMA SecretsAreNotNone == None \notin Secrets
BY DEF Secrets

-----------------------------------------------------------------------------
(* What the groups of steps do to handlers and history. *)

(* What holds of the variables of one handler. *)
Sound(h) ==
    /\ pc[h] # "idle" => ws[h] \in Workspaces /\ tok[h] \in Tokens
    /\ pc[h] \in {"asking", "selecting", "inserting"} => sec[h] \in Secrets
    /\ pc[h] \in {"selecting", "inserting"} => found[h] \in {"healthy", "degraded"}
    /\ pc[h] = "releasing" => prev[h] \in Tokens
    /\ pc[h] = "recording" => found[h] # "none"

LEMMA StandParts == HandlersStand <=> \A h \in Handlers : Sound(h)
BY DEF HandlersStand, Sound

(* The variables of the other handlers stay. *)
OthersKeep(h) ==
    \A g \in Handlers \ {h} :
        /\ pc'[g] = pc[g] /\ ws'[g] = ws[g] /\ tok'[g] = tok[g]
        /\ sec'[g] = sec[g] /\ prev'[g] = prev[g] /\ found'[g] = found[g]

LEMMA StandStep ==
    ASSUME HandlersStand, NEW h \in Handlers, OthersKeep(h), Sound(h)'
    PROVE  HandlersStand'
<1>1. \A g \in Handlers \ {h} : Sound(g)' BY StandParts DEF OthersKeep, Sound
<1> QED BY <1>1, StandParts DEF HandlersStand, Sound

LEMMA FinishEffect ==
    ASSUME HandlerTypes, HandlersStand, NEW h \in Handlers, Finish(h)
    PROVE  HandlerTypes' /\ HandlersStand'
<1>1. HandlerTypes' BY DEF HandlerTypes, Finish, Steps, Ops, Found
<1>2. Sound(h)' BY DEF HandlerTypes, Finish, Sound
<1>3. OthersKeep(h) BY DEF HandlerTypes, Finish, OthersKeep
<1> QED BY <1>1, <1>2, <1>3, StandStep

LEMMA StartEffect ==
    ASSUME BotTypeOK, HandlersStand, NEW h \in Handlers, NEW o \in Ops,
           NEW w \in Workspaces, NEW t \in Tokens, Start(h, o, w, t)
    PROVE  BotTypeOK' /\ HandlersStand' /\ UNCHANGED rowVars
<1> USE BotTypeParts, TypePartsNext
<1>1. RowTypes' /\ TelegramTypes'
  BY DEF Start, rowVars, telegramVars, RowTypes, TelegramTypes
<1>2. HandlerTypes' BY DEF Start, HandlerTypes, Steps, Ops, Found
<1>3. HistoryTypes'
  <2>1. overlapped' \in [Handlers -> BOOLEAN] BY DEF Start, HistoryTypes
  <2>2. \A g \in Handlers : {t, tok[g], prev[g], token[w]} \ {None} \subseteq Tokens
    BY DEF HandlerTypes, RowTypes
  <2>3. suspect' \subseteq Tokens BY <2>2 DEF Start, HistoryTypes, Rivals
  <2> QED BY <2>1, <2>3 DEF Start, HistoryTypes
<1>4. HandlersStand'
  <2>1. Sound(h)' BY DEF Start, HandlerTypes, Sound
  <2>2. OthersKeep(h) BY DEF Start, HandlerTypes, OthersKeep
  <2> QED BY <2>1, <2>2, StandStep
<1> QED BY <1>1, <1>2, <1>3, <1>4 DEF Start

LEMMA CallDeleteEffect ==
    ASSUME BotTypeOK, NEW t \in Tokens, CallDelete(t)
    PROVE  /\ webhook' \in [Tokens -> Secrets \cup {None}]
           /\ suspect' \subseteq Tokens /\ botFaults' \in 0 .. MaxBotFaults
BY DEF BotTypeOK, CallDelete, BotFault

-----------------------------------------------------------------------------
(* The inductive invariant. *)

LEMMA InitBotInv == BotInit => BotInv /\ OneWorkspacePerBot
<1> SUFFICES ASSUME BotInit PROVE BotInv /\ OneWorkspacePerBot
  OBVIOUS
<1> USE DEF BotInit
<1>1. RowTypes /\ TelegramTypes BY DEF RowTypes, TelegramTypes
<1>2. HandlerTypes BY DEF HandlerTypes, Steps, Ops, Found
<1>3. HistoryTypes BY DEF HistoryTypes
<1>4. HandlersStand BY DEF HandlersStand
<1>5. HealthMatchesFailures
  <2>1. ~(0 >= ErrorAfter) OBVIOUS
  <2>2. \A w \in Workspaces : health[w] = "none" /\ failures[w] = 0 OBVIOUS
  <2> QED BY <2>1, <2>2 DEF HealthMatchesFailures
<1>6. OneWorkspacePerBot BY DEF OneWorkspacePerBot
<1> QED BY <1>1, <1>2, <1>3, <1>4, <1>5, <1>6, BotTypeParts DEF BotInv

LEMMA ConnectStep ==
    ASSUME BotInv, NEW h \in Handlers, Connect(h) PROVE BotInv'
<1> USE BotTypeParts, TypePartsNext DEF BotInv
<1>0. ASSUME UNCHANGED rowVars PROVE RowTypes' /\ HealthMatchesFailures'
  BY <1>0 DEF rowVars, RowTypes, HealthMatchesFailures
<1>1. ASSUME NEW w \in Workspaces, NEW t \in Tokens, StartConnect(h, w, t) PROVE BotInv'
  <2>1. "connect" \in Ops BY DEF Ops
  <2> QED BY <1>0, <1>1, <2>1, StartEffect DEF StartConnect
<1>2. CASE Refuse(h)
  BY <1>0, <1>2, FinishEffect
  DEF Refuse, telegramVars, historyVars, TelegramTypes, HistoryTypes
<1>3. CASE SetWebhook(h)
  <2>1. RowTypes' /\ HealthMatchesFailures' BY <1>0, <1>3 DEF SetWebhook
  <2>2. tok[h] \in Tokens BY <1>3 DEF SetWebhook, HandlersStand
  <2>3. used + 1 \in Secrets /\ used' \in 0 .. MaxSecrets
    BY <1>3 DEF SetWebhook, TelegramTypes, Secrets
  <2>4. TelegramTypes' BY <1>3, <2>3 DEF SetWebhook, TelegramTypes
  <2>5. HistoryTypes' BY <1>3, <2>2 DEF SetWebhook, HistoryTypes, BotFault
  <2>6. HandlerTypes' /\ HandlersStand'
    <3>1. CASE Finish(h) BY <3>1, FinishEffect
    <3>2. CASE /\ pc' = [pc EXCEPT ![h] = "asking"]
               /\ sec' = [sec EXCEPT ![h] = used + 1]
               /\ UNCHANGED <<argumentVars, prev, found>>
      <4>1. HandlerTypes'
        BY <3>2, <2>3 DEF HandlerTypes, argumentVars, Steps, Ops, Found
      <4>2. Sound(h)'
        BY <1>3, <3>2, <2>3 DEF SetWebhook, HandlerTypes, HandlersStand, argumentVars, Sound
      <4>3. OthersKeep(h) BY <3>2 DEF HandlerTypes, argumentVars, OthersKeep
      <4> QED BY <4>1, <4>2, <4>3, StandStep
    <3> QED BY <1>3, <3>1, <3>2 DEF SetWebhook
  <2> QED BY <2>1, <2>4, <2>5, <2>6
<1>4. CASE ReadPrevious(h)
  <2>1. RowTypes' /\ HealthMatchesFailures' BY <1>0, <1>4 DEF ReadPrevious
  <2>2. TelegramTypes' /\ HistoryTypes'
    BY <1>4 DEF ReadPrevious, telegramVars, historyVars, TelegramTypes, HistoryTypes
  <2>3. PICK s \in {"healthy", "degraded"} : found' = [found EXCEPT ![h] = s]
    BY <1>4 DEF ReadPrevious, HealthOf
  <2>4. ws[h] \in Workspaces /\ tok[h] \in Tokens /\ sec[h] \in Secrets
    BY <1>4 DEF ReadPrevious, HandlersStand
  <2>5. token[ws[h]] \in Tokens \cup {None} BY <2>4 DEF RowTypes
  <2>6. HandlerTypes'
    <3>1. found' \in [Handlers -> Found] BY <2>3 DEF HandlerTypes, Found
    <3> QED BY <1>4, <2>5, <3>1 DEF ReadPrevious, HandlerTypes, argumentVars, Steps
  <2>7. Sound(h)'
    BY <1>4, <2>3, <2>4 DEF ReadPrevious, HandlerTypes, argumentVars, Sound
  <2>8. OthersKeep(h)
    BY <1>4, <2>3 DEF ReadPrevious, HandlerTypes, argumentVars, OthersKeep
  <2> QED BY <2>1, <2>2, <2>6, <2>7, <2>8, StandStep
<1>5. CASE InfoFails(h)
  <2>1. RowTypes' /\ HealthMatchesFailures' BY <1>0, <1>5 DEF InfoFails
  <2>2. tok[h] \in Tokens BY <1>5 DEF InfoFails, HandlersStand
  <2>3. TelegramTypes' /\ HistoryTypes'
    BY <1>5, <2>2 DEF InfoFails, telegramVars, TelegramTypes, HistoryTypes, BotFault
  <2> QED BY <1>5, <2>1, <2>3, FinishEffect DEF InfoFails
<1>6. ASSUME NEW s \in {"inserting", "undoing"},
             pc[h] \in {"selecting", "inserting"},
             pc' = [pc EXCEPT ![h] = s],
             UNCHANGED <<rowVars, telegramVars, argumentVars, sec, prev, found,
                         historyVars, botFaults>>
      PROVE  BotInv'
  <2>1. RowTypes' /\ HealthMatchesFailures' BY <1>0, <1>6
  <2>2. TelegramTypes' /\ HistoryTypes'
    BY <1>6 DEF telegramVars, historyVars, TelegramTypes, HistoryTypes
  <2>3. HandlerTypes' BY <1>6 DEF HandlerTypes, argumentVars, Steps
  <2>4. Sound(h)' BY <1>6 DEF HandlerTypes, HandlersStand, argumentVars, Sound
  <2>5. OthersKeep(h) BY <1>6 DEF HandlerTypes, argumentVars, OthersKeep
  <2> QED BY <2>1, <2>2, <2>3, <2>4, <2>5, StandStep
<1>7. CASE FindNoRow(h) BY <1>6, <1>7 DEF FindNoRow
<1>8. CASE UndoConnect(h) BY <1>6, <1>8 DEF UndoConnect
<1>9. CASE SaveRow(h)
  <2> DEFINE w == ws[h]
  <2>1. /\ w \in Workspaces /\ tok[h] \in Tokens /\ sec[h] \in Secrets
        /\ found[h] \in {"healthy", "degraded"}
    BY <1>9 DEF SaveRow, HandlersStand
  <2>2. /\ exists' = exists \cup {w}
        /\ token' = [token EXCEPT ![w] = tok[h]]
        /\ secret' = [secret EXCEPT ![w] = sec[h]]
        /\ health' = [health EXCEPT ![w] = found[h]]
        /\ failures' = [failures EXCEPT ![w] = 0]
        /\ UNCHANGED <<telegramVars, overlapped, botFaults>>
    BY <1>9 DEF SaveRow
  <2> HIDE DEF w
  <2>3. RowTypes'
    <3>1. \A v \in Workspaces : token'[v] = None <=> secret'[v] = None
      BY <2>1, <2>2, SecretsAreNotNone DEF RowTypes
    <3> QED BY <2>1, <2>2, <3>1 DEF RowTypes
  <2>4. HealthMatchesFailures'
    BY <2>1, <2>2 DEF RowTypes, HealthMatchesFailures
  <2>5. TelegramTypes' BY <2>2 DEF telegramVars, TelegramTypes
  <2>6. HistoryTypes' BY <1>9, <2>2 DEF SaveRow, HistoryTypes
  <2>7. HandlerTypes' /\ HandlersStand'
    <3>1. CASE Finish(h) BY <3>1, FinishEffect
    <3>2. CASE /\ Replaced(h) /\ pc' = [pc EXCEPT ![h] = "releasing"]
               /\ UNCHANGED <<argumentVars, sec, prev, found>>
      <4>1. HandlerTypes' BY <3>2 DEF HandlerTypes, argumentVars, Steps
      <4>2. Sound(h)'
        BY <3>2, <2>1 DEF Replaced, HandlerTypes, argumentVars, Sound, w
      <4>3. OthersKeep(h) BY <3>2 DEF HandlerTypes, argumentVars, OthersKeep
      <4> QED BY <4>1, <4>2, <4>3, StandStep
    <3> QED BY <1>9, <3>1, <3>2 DEF SaveRow
  <2> QED BY <2>3, <2>4, <2>5, <2>6, <2>7
<1>10. CASE DeleteWebhook(h)
  <2>1. RowTypes' /\ HealthMatchesFailures' BY <1>0, <1>10 DEF DeleteWebhook
  <2>2. PICK t \in Tokens : CallDelete(t)
    BY <1>10 DEF DeleteWebhook, HandlersStand
  <2>3. /\ webhook' \in [Tokens -> Secrets \cup {None}]
        /\ suspect' \subseteq Tokens /\ botFaults' \in 0 .. MaxBotFaults
    BY <2>2, CallDeleteEffect
  <2>4. TelegramTypes' /\ HistoryTypes'
    BY <1>10, <2>3 DEF DeleteWebhook, TelegramTypes, HistoryTypes
  <2> QED BY <1>10, <2>1, <2>4, FinishEffect DEF DeleteWebhook
<1> QED
  BY <1>1, <1>2, <1>3, <1>4, <1>5, <1>7, <1>8, <1>9, <1>10
  DEF Connect

LEMMA DisconnectStep ==
    ASSUME BotInv, NEW h \in Handlers, Disconnect(h) PROVE BotInv'
<1> USE BotTypeParts, TypePartsNext DEF BotInv
<1>0. ASSUME UNCHANGED rowVars PROVE RowTypes' /\ HealthMatchesFailures'
  BY <1>0 DEF rowVars, RowTypes, HealthMatchesFailures
<1>1. ASSUME NEW w \in Workspaces, StartDisconnect(h, w) PROVE BotInv'
  <2>1. "disconnect" \in Ops /\ token[w] \in Tokens
    BY <1>1 DEF StartDisconnect, RowTypes, Ops
  <2> QED BY <1>0, <1>1, <2>1, StartEffect DEF StartDisconnect
<1>2. CASE ReleaseBot(h)
  <2>1. RowTypes' /\ HealthMatchesFailures' BY <1>0, <1>2 DEF ReleaseBot
  <2>2. ws[h] \in Workspaces /\ tok[h] \in Tokens
    BY <1>2 DEF ReleaseBot, HandlersStand
  <2>3. /\ webhook' \in [Tokens -> Secrets \cup {None}]
        /\ suspect' \subseteq Tokens /\ botFaults' \in 0 .. MaxBotFaults
    BY <1>2, <2>2, CallDeleteEffect DEF ReleaseBot
  <2>4. TelegramTypes' /\ HistoryTypes'
    BY <1>2, <2>3 DEF ReleaseBot, TelegramTypes, HistoryTypes
  <2>5. HandlerTypes' BY <1>2 DEF ReleaseBot, HandlerTypes, argumentVars, Steps
  <2>6. Sound(h)' BY <1>2, <2>2 DEF ReleaseBot, HandlerTypes, argumentVars, Sound
  <2>7. OthersKeep(h) BY <1>2 DEF ReleaseBot, HandlerTypes, argumentVars, OthersKeep
  <2> QED BY <2>1, <2>4, <2>5, <2>6, <2>7, StandStep
<1>3. CASE ClearRow(h)
  <2>1. ws[h] \in Workspaces BY <1>3 DEF ClearRow, HandlersStand
  <2>2. RowTypes'
    <3>1. CASE token[ws[h]] = None
      BY <1>3, <3>1 DEF ClearRow, RowTypes
    <3>2. CASE token[ws[h]] # None
      <4>1. /\ token' = [token EXCEPT ![ws[h]] = None]
            /\ secret' = [secret EXCEPT ![ws[h]] = None]
            /\ health' = [health EXCEPT ![ws[h]] = "none"]
            /\ failures' = [failures EXCEPT ![ws[h]] = 0]
            /\ exists' = exists
        BY <1>3, <3>2 DEF ClearRow
      <4>2. \A v \in Workspaces : token'[v] = None <=> secret'[v] = None
        BY <2>1, <4>1 DEF RowTypes
      <4> QED BY <4>1, <4>2 DEF RowTypes
    <3> QED BY <3>1, <3>2
  <2>3. HealthMatchesFailures'
    BY <1>3, <2>1 DEF ClearRow, RowTypes, HealthMatchesFailures
  <2>4. TelegramTypes' /\ HistoryTypes'
    BY <1>3 DEF ClearRow, telegramVars, historyVars, TelegramTypes, HistoryTypes
  <2> QED BY <1>3, <2>2, <2>3, <2>4, FinishEffect DEF ClearRow
<1> QED BY <1>1, <1>2, <1>3 DEF Disconnect

(* A row keeps its token through a check, so only its health and its count *)
(* of failures are at stake.                                               *)
LEMMA CheckStep ==
    ASSUME BotInv, NEW h \in Handlers, Check(h) PROVE BotInv'
<1> USE BotTypeParts, TypePartsNext DEF BotInv
<1>0. ASSUME UNCHANGED rowVars PROVE RowTypes' /\ HealthMatchesFailures'
  BY <1>0 DEF rowVars, RowTypes, HealthMatchesFailures
<1>1. ASSUME NEW w \in Workspaces, StartCheck(h, w) PROVE BotInv'
  <2>1. "check" \in Ops /\ token[w] \in Tokens
    BY <1>1 DEF StartCheck, RowTypes, Ops
  <2> QED BY <1>0, <1>1, <2>1, StartEffect DEF StartCheck
<1>2. CASE Probe(h)
  <2>1. RowTypes' /\ HealthMatchesFailures' BY <1>0, <1>2 DEF Probe
  <2>2. TelegramTypes' /\ HistoryTypes'
    BY <1>2 DEF Probe, telegramVars, historyVars, TelegramTypes, HistoryTypes
  <2>3. PICK s \in {"healthy", "degraded", "failed"} : found' = [found EXCEPT ![h] = s]
    BY <1>2 DEF Probe, HealthOf
  <2>4. HandlerTypes'
    <3>1. found' \in [Handlers -> Found] BY <2>3 DEF HandlerTypes, Found
    <3> QED BY <1>2, <3>1 DEF Probe, HandlerTypes, argumentVars, Steps
  <2>5. Sound(h)'
    <3>1. ws[h] \in Workspaces /\ tok[h] \in Tokens BY <1>2 DEF Probe, HandlersStand
    <3> QED BY <1>2, <2>3, <3>1 DEF Probe, HandlerTypes, argumentVars, Sound
  <2>6. OthersKeep(h)
    BY <1>2, <2>3 DEF Probe, HandlerTypes, argumentVars, OthersKeep
  <2> QED BY <2>1, <2>2, <2>4, <2>5, <2>6, StandStep
<1>3. CASE RecordCheck(h)
  <2>1. ws[h] \in Workspaces BY <1>3 DEF RecordCheck, HandlersStand
  <2>2. TelegramTypes' /\ HistoryTypes'
    BY <1>3 DEF RecordCheck, telegramVars, historyVars, TelegramTypes, HistoryTypes
  <2>3. HandlerTypes' /\ HandlersStand' BY <1>3, FinishEffect DEF RecordCheck
  <2>4. CASE ~StillConnected(ws[h])
    BY <1>0, <1>3, <2>2, <2>3, <2>4 DEF RecordCheck, rowVars
  <2>5. CASE StillConnected(ws[h])
    <3> DEFINE w == ws[h]
               n == IF found[h] = "failed" THEN failures[w] + 1 ELSE 0
               s == IF found[h] # "failed" THEN found[h]
                    ELSE IF n >= ErrorAfter THEN "error" ELSE "degraded"
    <3>1. /\ failures' = [failures EXCEPT ![w] = n]
          /\ health' = [health EXCEPT ![w] = s]
          /\ UNCHANGED <<exists, token, secret>>
      BY <1>3, <2>5 DEF RecordCheck
    <3>2. n \in Nat BY <2>1 DEF RowTypes
    <3>3. /\ s \in {"healthy", "degraded", "error"}
          /\ s = "error" <=> n >= ErrorAfter
      BY <1>3, <3>2 DEF RecordCheck, HandlersStand, HandlerTypes, Found
    <3>4. w \in Workspaces /\ token[w] # None BY <2>1, <2>5 DEF StillConnected
    <3> HIDE DEF w, n, s
    <3>5. RowTypes' BY <3>1, <3>2, <3>3, <3>4 DEF RowTypes
    <3>6. HealthMatchesFailures'
      BY <3>1, <3>2, <3>3, <3>4 DEF RowTypes, HealthMatchesFailures
    <3> QED BY <2>2, <2>3, <3>5, <3>6
  <2> QED BY <2>4, <2>5
<1> QED BY <1>1, <1>2, <1>3 DEF Check

LEMMA BotDeathStep ==
    ASSUME BotInv, NEW h \in Handlers, HandlerDies(h) PROVE BotInv'
<1> USE BotTypeParts, TypePartsNext DEF BotInv
<1>1. RowTypes' /\ HealthMatchesFailures'
  BY DEF HandlerDies, rowVars, RowTypes, HealthMatchesFailures
<1>2. TelegramTypes' BY DEF HandlerDies, telegramVars, TelegramTypes
<1>3. HistoryTypes'
  <2>1. ({tok[h], prev[h]} \ {None}) \subseteq Tokens BY DEF HandlerTypes
  <2> QED BY <2>1 DEF HandlerDies, HistoryTypes, BotFault
<1>4. HandlerTypes' /\ HandlersStand' BY FinishEffect DEF HandlerDies
<1> QED BY <1>1, <1>2, <1>3, <1>4

LEMMA InvStep == BotInv /\ [BotNext]_botVars => BotInv'
<1> SUFFICES ASSUME BotInv, [BotNext]_botVars PROVE BotInv'
  OBVIOUS
<1>1. ASSUME NEW h \in Handlers, Connect(h) PROVE BotInv' BY <1>1, ConnectStep
<1>2. ASSUME NEW h \in Handlers, Disconnect(h) PROVE BotInv' BY <1>2, DisconnectStep
<1>3. ASSUME NEW h \in Handlers, Check(h) PROVE BotInv' BY <1>3, CheckStep
<1>4. ASSUME NEW h \in Handlers, HandlerDies(h) PROVE BotInv' BY <1>4, BotDeathStep
<1>5. CASE UNCHANGED botVars
  <2> USE <1>5 DEF botVars, rowVars, telegramVars, handlerVars, argumentVars, historyVars
  <2>1. RowTypes' /\ TelegramTypes' BY DEF BotInv, RowTypes, TelegramTypes, BotTypeOK
  <2>2. HandlerTypes' /\ HistoryTypes'
    BY BotTypeParts DEF BotInv, HandlerTypes, HistoryTypes
  <2>3. HandlersStand' BY DEF BotInv, HandlersStand
  <2>4. HealthMatchesFailures' BY DEF BotInv, HealthMatchesFailures
  <2> QED BY <2>1, <2>2, <2>3, <2>4, TypePartsNext DEF BotInv
<1> QED BY <1>1, <1>2, <1>3, <1>4, <1>5 DEF BotNext

(* At every step of connect_telegram, disconnect_telegram and              *)
(* check_telegram_integration the rows and the handlers are sound: health  *)
(* ERROR is exactly ErrorAfter failures or more in the counter of the row, *)
(* and a check that was under way while its bot was disconnected leaves    *)
(* nothing in the row.  That the failures counted are of the bot connected *)
(* now is not claimed: a check of the bot before it may count too.         *)
THEOREM BotInvariance == BotSpec => []BotInv
<1>1. BotInit => BotInv BY InitBotInv
<1> QED BY <1>1, InvStep, PTL DEF BotSpec

-----------------------------------------------------------------------------
(* One workspace for each bot. *)

(* Only these two write a token, and SaveRow under the unique index.       *)
LEMMA TokensStay ==
    ASSUME [BotNext]_botVars,
           \A h \in Handlers : ~SaveRow(h) /\ ~ClearRow(h)
    PROVE  token' = token
BY DEF BotNext, botVars, rowVars, Connect, StartConnect, Start, Refuse, SetWebhook,
       ReadPrevious, InfoFails, FindNoRow, UndoConnect, DeleteWebhook,
       Disconnect, StartDisconnect, ReleaseBot, Check, StartCheck, Probe,
       RecordCheck, HandlerDies

LEMMA OneWorkspaceStep ==
    BotInv /\ OneWorkspacePerBot /\ [BotNext]_botVars => OneWorkspacePerBot'
<1> SUFFICES ASSUME BotInv, OneWorkspacePerBot, [BotNext]_botVars PROVE OneWorkspacePerBot'
  OBVIOUS
<1>0. RowTypes BY BotTypeParts DEF BotInv
<1>1. CASE \A h \in Handlers : ~SaveRow(h) /\ ~ClearRow(h)
  BY <1>1, TokensStay DEF OneWorkspacePerBot
<1>2. ASSUME NEW h \in Handlers, SaveRow(h) PROVE OneWorkspacePerBot'
  <2>1. ws[h] \in Workspaces BY <1>2 DEF SaveRow, BotInv, HandlersStand
  <2>2. \A x \in Workspaces \ {ws[h]} : token[x] # tok[h]
    BY <1>2 DEF SaveRow, Conflict, TakenByOther
  <2>3. token' = [token EXCEPT ![ws[h]] = tok[h]] BY <1>2 DEF SaveRow
  <2> QED BY <1>0, <2>1, <2>2, <2>3 DEF RowTypes, OneWorkspacePerBot
<1>3. ASSUME NEW h \in Handlers, ClearRow(h) PROVE OneWorkspacePerBot'
  <2>1. token' = token \/ token' = [token EXCEPT ![ws[h]] = None]
    BY <1>3 DEF ClearRow
  <2> QED BY <1>0, <2>1 DEF RowTypes, OneWorkspacePerBot
<1> QED BY <1>1, <1>2, <1>3

(* Two requests that connect one bot to two workspaces, in whatever order  *)
(* they check, call Telegram and save: at most one of the rows is saved.   *)
(* The check at the start of connect_telegram is not what ensures it.      *)
THEOREM OneBotOneWorkspace == BotSpec => []OneWorkspacePerBot
<1>1. BotInit => OneWorkspacePerBot BY InitBotInv
<1> QED BY <1>1, BotInvariance, OneWorkspaceStep, PTL DEF BotSpec
-----------------------------------------------------------------------------
(* Webhooks and rows.  The handlers that change webhooks: *)
Changes(h) == op[h] \in {"connect", "disconnect"}

(* The history knows that the bot of h is in the hands of others too. *)
Contested(h) == overlapped[h] /\ tok[h] \in suspect

Doubtful == suspect \cup {None}

(* Which steps belong to which call. *)
StepsOfCalls ==
    \A h \in Handlers :
        /\ pc[h] = "idle" => op[h] = "none"
        /\ ~Changes(h) => prev[h] = None
        /\ pc[h] \in {"asking", "selecting", "inserting", "undoing", "releasing"}
            => op[h] = "connect"
        /\ pc[h] = "clearing" => op[h] = "disconnect"
        /\ pc[h] \in {"calling", "asking"} => prev[h] = None

(* Two handlers with one workspace or one bot, whichever started first. *)
MetKnown ==
    \A g, h \in Handlers :
        g # h /\ Changes(g) /\ Changes(h) /\ (ws[g] = ws[h] \/ tok[g] = tok[h])
            => Contested(g)

(* A handler with the bot of the row of another workspace. *)
TakenKnown ==
    \A g \in Handlers, w \in Workspaces :
        Changes(g) /\ w # ws[g] /\ token[w] = tok[g] => Contested(g)

(* A handler with the bot that another one is about to release. *)
ReleasedKnown ==
    \A g, h \in Handlers :
        g # h /\ Changes(g) /\ prev[h] = tok[g] => Contested(g)

(* Two handlers in one workspace: so are its bot and the previous ones. *)
SharedRows ==
    \A g, h \in Handlers :
        g # h /\ Changes(g) /\ Changes(h) /\ ws[g] = ws[h]
            => token[ws[g]] \in Doubtful /\ prev[g] \in Doubtful

(* The bot a handler is about to take out of its row is the one it read. *)
OldBotKnown ==
    \A h \in Handlers :
        /\ op[h] = "disconnect" => token[ws[h]] \in Doubtful \cup {tok[h]}
        /\ pc[h] \in {"selecting", "inserting"} =>
            /\ token[ws[h]] \in Doubtful \cup {prev[h]}
            /\ prev[h] \in Doubtful \cup {token[ws[h]]}

(* A conflict is the work of another handler. *)
ConflictKnown ==
    \A h \in Handlers :
        pc[h] = "undoing" \/ (pc[h] = "inserting" /\ ws[h] \in exists)
            => tok[h] \in suspect

Known ==
    /\ MetKnown /\ TakenKnown /\ ReleasedKnown
    /\ SharedRows /\ OldBotKnown /\ ConflictKnown

Sets(h) == pc[h] \in {"asking", "selecting", "inserting"}

(* What Telegram has of the bot in the hands of h. *)
Hand(h) ==
    /\ Sets(h) /\ (~overlapped[h] \/ tok[h] \notin suspect) => webhook[tok[h]] = sec[h]
    /\ pc[h] = "clearing" /\ tok[h] \notin suspect => webhook[tok[h]] = None
    /\ pc[h] = "releasing" /\ prev[h] \notin suspect =>
          \A w \in Workspaces : token[w] # prev[h]

HandsStand == \A h \in Handlers : Hand(h)

Holds(h, t) ==
    \/ tok[h] = t /\ (Sets(h) \/ pc[h] = "clearing")
    \/ prev[h] = t /\ pc[h] = "releasing"

Matches(t) ==
    /\ \A w \in Workspaces : token[w] = t => webhook[t] = secret[w]
    /\ (\A w \in Workspaces : token[w] # t) => webhook[t] = None

(* The bots in nobody's hands. *)
RestMatches ==
    \A t \in Tokens :
        t \notin suspect /\ (\A h \in Handlers : ~Holds(h, t)) => Matches(t)

WebhookInv == StepsOfCalls /\ Known /\ HandsStand /\ RestMatches

LEMMA WebhooksFromInv ==
    BotInv /\ WebhookInv => WebhooksMatchRows
<1> SUFFICES ASSUME BotInv, WebhookInv, NEW t \in Tokens, t \notin suspect, ~Busy(t)
             PROVE  IF \E w \in Workspaces : token[w] = t
                    THEN \A w \in Workspaces : token[w] = t => webhook[t] = secret[w]
                    ELSE webhook[t] = None
  BY DEF WebhooksMatchRows
<1>1. \A h \in Handlers : ~Holds(h, t)
  BY DEF WebhookInv, StepsOfCalls, Holds, Sets, Busy
<1>2. Matches(t) BY <1>1 DEF WebhookInv, RestMatches
<1> QED BY <1>2 DEF Matches

LEMMA InitWebhooks == BotInit => WebhookInv
<1> SUFFICES ASSUME BotInit PROVE WebhookInv
  OBVIOUS
<1> USE DEF BotInit, Changes
<1>1. StepsOfCalls BY DEF StepsOfCalls
<1>2. MetKnown /\ TakenKnown /\ SharedRows BY DEF MetKnown, TakenKnown, SharedRows
<1>3. ReleasedKnown BY DEF ReleasedKnown
<1>4. OldBotKnown /\ ConflictKnown BY DEF OldBotKnown, ConflictKnown
<1>5. HandsStand BY DEF HandsStand, Hand, Sets
<1>6. RestMatches BY DEF RestMatches, Matches
<1> QED BY <1>1, <1>2, <1>3, <1>4, <1>5, <1>6 DEF WebhookInv, Known

(* Another handler keeps all of its variables. *)
Frame(h) ==
    \A g \in Handlers \ {h} :
        /\ pc'[g] = pc[g] /\ op'[g] = op[g] /\ ws'[g] = ws[g] /\ tok'[g] = tok[g]
        /\ sec'[g] = sec[g] /\ prev'[g] = prev[g] /\ overlapped'[g] = overlapped[g]

Ends(h) ==
    /\ pc'[h] = "idle" /\ op'[h] = "none" /\ prev'[h] = None

GoesOn(h) ==
    /\ op'[h] = op[h] /\ ws'[h] = ws[h] /\ tok'[h] = tok[h]
    /\ prev'[h] = prev[h] /\ overlapped'[h] = overlapped[h]
    /\ pc'[h] \notin {"idle", "calling", "selecting"}
    /\ pc'[h] = "inserting" => pc[h] = "selecting" /\ ws[h] \notin exists
    /\ pc'[h] = "undoing" => tok[h] \in suspect

(* A step that writes no row and takes no bot in hand. *)
Quiet(h) ==
    /\ Frame(h)
    /\ exists' = exists /\ token' = token /\ secret' = secret
    /\ suspect \subseteq suspect'
    /\ Ends(h) \/ GoesOn(h)

LEMMA FinishEnds ==
    ASSUME HandlerTypes, NEW h \in Handlers, Finish(h), overlapped' = overlapped
    PROVE  Frame(h) /\ Ends(h)
BY DEF HandlerTypes, Finish, Frame, Ends

LEMMA QuietKnown ==
    ASSUME BotInv, Known, StepsOfCalls, NEW h \in Handlers, Quiet(h)
    PROVE  Known'
<1> USE DEF Known, Changes, Contested, Doubtful, Quiet, Frame, Ends, GoesOn
<1>0. \A g \in Handlers : Changes(g)' =>
          /\ Changes(g) /\ op'[g] = op[g] /\ ws'[g] = ws[g] /\ tok'[g] = tok[g]
          /\ prev'[g] = prev[g] /\ (Contested(g) => Contested(g)')
  OBVIOUS
<1>1. MetKnown' BY <1>0 DEF MetKnown
<1>2. TakenKnown' BY <1>0 DEF TakenKnown
<1>3. ReleasedKnown'
  <2>1. \A g \in Handlers : prev'[g] \in {prev[g], None} OBVIOUS
  <2>2. \A g \in Handlers : Changes(g) => tok[g] # None
    BY DEF BotInv, HandlersStand, StepsOfCalls
  <2> QED BY <1>0, <2>1, <2>2 DEF ReleasedKnown
<1>4. SharedRows' BY <1>0 DEF SharedRows
<1>5. OldBotKnown' BY <1>0, BotTypeParts DEF OldBotKnown, StepsOfCalls
<1>6. ConflictKnown' BY DEF ConflictKnown
<1> QED BY <1>1, <1>2, <1>3, <1>4, <1>5, <1>6

(* What is left to show of such a step: the bots in the hands of h. *)
LEMMA QuietWebhooks ==
    ASSUME BotInv, WebhookInv, NEW h \in Handlers, Quiet(h), Hand(h)',
           webhook' = webhook \/ Changes(h),
           \A t \in Tokens \ {tok[h], prev[h]} : webhook'[t] = webhook[t],
           \A t \in Tokens :
               /\ Holds(h, t) \/ webhook'[t] # webhook[t]
               /\ t \notin suspect' /\ ~Holds(h, t)'
               => Matches(t)'
    PROVE  Known' /\ HandsStand' /\ RestMatches'
<1>1. Known' BY QuietKnown DEF WebhookInv
<1>2. HandsStand'
  <2> SUFFICES ASSUME NEW g \in Handlers \ {h} PROVE Hand(g)'
    BY DEF HandsStand
  <2>1. Hand(g) BY DEF WebhookInv, HandsStand
  <2>2. Sets(g) \/ pc[g] = "clearing" => tok[g] \in Tokens /\ Changes(g)
    BY DEF Sets, BotInv, HandlersStand, WebhookInv, StepsOfCalls, Changes
  <2>3. (Sets(g) \/ pc[g] = "clearing") /\ webhook'[tok[g]] # webhook[tok[g]]
            => Contested(g)
    BY <2>2 DEF WebhookInv, Known, MetKnown, ReleasedKnown
  <2> QED BY <2>1, <2>3 DEF Hand, Quiet, Frame, Sets, Contested
<1>3. RestMatches'
  <2> SUFFICES ASSUME NEW t \in Tokens, t \notin suspect',
                      \A g \in Handlers : ~Holds(g, t)'
               PROVE  Matches(t)'
    BY DEF RestMatches
  <2>1. CASE Holds(h, t) \/ webhook'[t] # webhook[t] BY <2>1
  <2>2. CASE ~Holds(h, t) /\ webhook'[t] = webhook[t]
    <3>1. \A g \in Handlers : ~Holds(g, t)
      BY <2>2 DEF Quiet, Frame, Holds, Sets
    <3>2. Matches(t) BY <3>1 DEF WebhookInv, RestMatches, Quiet
    <3> QED BY <2>2, <3>2 DEF Quiet, Matches
  <2> QED BY <2>1, <2>2
<1> QED BY <1>1, <1>2, <1>3
(* A step that does not change what Telegram has. *)
LEMMA StillWebhooks ==
    ASSUME BotInv, WebhookInv, StepsOfCalls', NEW h \in Handlers, Quiet(h),
           webhook' = webhook, sec'[h] = sec[h] \/ Ends(h),
           \A t \in Tokens : Holds(h, t) => t \in suspect' \/ Holds(h, t)',
           Sets(h)' => Sets(h), pc'[h] \in {"clearing", "releasing"} => pc'[h] = pc[h]
    PROVE  WebhookInv'
<1>1. Hand(h)'
  <2>1. Hand(h) BY DEF WebhookInv, HandsStand
  <2>2. CASE Ends(h) BY <2>2 DEF Ends, Hand, Sets
  <2>3. CASE ~Ends(h)
    BY <2>1, <2>3 DEF Quiet, GoesOn, Hand, Sets
  <2> QED BY <2>2, <2>3
<1> QED BY <1>1, QuietWebhooks DEF WebhookInv

LEMMA ConnectWebhooks ==
    ASSUME BotInv, WebhookInv, NEW h \in Handlers,
           Refuse(h) \/ SetWebhook(h) \/ InfoFails(h) \/ FindNoRow(h)
               \/ UndoConnect(h) \/ DeleteWebhook(h)
    PROVE  WebhookInv'
<1> USE DEF Holds, Sets, argumentVars, rowVars, telegramVars, historyVars
<1>0. HandlerTypes /\ TelegramTypes /\ HistoryTypes BY BotTypeParts DEF BotInv
<1>1. CASE Refuse(h)
  <2>1. Quiet(h) BY <1>0, <1>1, FinishEnds DEF Refuse, Quiet
  <2>2. Ends(h) BY <1>0, <1>1, FinishEnds DEF Refuse
  <2>3. StepsOfCalls'
    BY <1>1, <2>1, <2>2 DEF WebhookInv, StepsOfCalls, Quiet, Frame, Ends, Changes
  <2> QED BY <1>1, <2>1, <2>2, <2>3, StillWebhooks DEF Refuse, Ends
<1>2. CASE InfoFails(h)
  <2>1. Quiet(h) BY <1>0, <1>2, FinishEnds DEF InfoFails, Quiet
  <2>2. Ends(h) BY <1>0, <1>2, FinishEnds DEF InfoFails
  <2>3. StepsOfCalls'
    BY <1>2, <2>1, <2>2 DEF WebhookInv, StepsOfCalls, Quiet, Frame, Ends, Changes
  <2> QED BY <1>2, <2>1, <2>2, <2>3, StillWebhooks DEF InfoFails, Ends
<1>3. CASE FindNoRow(h)
  <2>1. Quiet(h) BY <1>0, <1>3 DEF FindNoRow, HandlerTypes, Quiet, Frame, GoesOn
  <2>2. StepsOfCalls'
    BY <1>0, <1>3 DEF FindNoRow, WebhookInv, StepsOfCalls, HandlerTypes, Changes
  <2>3. pc[h] = "selecting" /\ pc'[h] = "inserting" BY <1>0, <1>3 DEF FindNoRow, HandlerTypes
  <2> QED BY <1>3, <2>1, <2>2, <2>3, StillWebhooks DEF FindNoRow
<1>4. CASE UndoConnect(h)
  <2>1. tok[h] \in suspect
    <3>1. ws[h] \in Workspaces /\ op[h] = "connect"
      BY <1>4 DEF UndoConnect, BotInv, HandlersStand, WebhookInv, StepsOfCalls
    <3>2. CASE pc[h] = "inserting" /\ ws[h] \in exists
      BY <3>2 DEF WebhookInv, Known, ConflictKnown
    <3>3. CASE TakenByOther(ws[h], tok[h])
      BY <3>1, <3>3 DEF TakenByOther, WebhookInv, Known, TakenKnown, Changes, Contested
    <3> QED BY <1>4, <3>2, <3>3 DEF UndoConnect, Conflict
  <2>2. Quiet(h)
    BY <1>0, <1>4, <2>1 DEF UndoConnect, HandlerTypes, Quiet, Frame, GoesOn
  <2>3. StepsOfCalls'
    BY <1>0, <1>4 DEF UndoConnect, WebhookInv, StepsOfCalls, HandlerTypes, Changes
  <2>4. pc[h] \in {"selecting", "inserting"} /\ pc'[h] = "undoing"
    BY <1>0, <1>4 DEF UndoConnect, HandlerTypes
  <2> QED BY <1>4, <2>1, <2>2, <2>3, <2>4, StillWebhooks DEF UndoConnect
<1>5. CASE SetWebhook(h)
  <2>0. tok[h] \in Tokens /\ prev[h] = None /\ Changes(h) /\ prev'[h] = None
    BY <1>0, <1>5 DEF SetWebhook, BotInv, HandlersStand, WebhookInv, StepsOfCalls, Changes,
       Finish, HandlerTypes
  <2>1. Quiet(h)
    <3>1. CASE Finish(h) /\ suspect' = suspect \cup {tok[h]}
      BY <1>0, <1>5, <3>1, FinishEnds DEF SetWebhook, Quiet
    <3>2. CASE pc' = [pc EXCEPT ![h] = "asking"] /\ suspect' = suspect
               /\ sec' = [sec EXCEPT ![h] = used + 1]
               /\ UNCHANGED <<argumentVars, prev>>
      BY <1>0, <1>5, <3>2 DEF SetWebhook, HandlerTypes, Quiet, Frame, GoesOn
    <3> QED BY <1>5, <3>1, <3>2 DEF SetWebhook
  <2>2. webhook' = [webhook EXCEPT ![tok[h]] = used + 1] BY <1>5 DEF SetWebhook
  <2>3. \/ Ends(h) /\ tok[h] \in suspect'
        \/ pc'[h] = "asking" /\ sec'[h] = used + 1 /\ GoesOn(h)
    BY <1>0, <1>5, <2>1, FinishEnds DEF SetWebhook, HandlerTypes, GoesOn
  <2>4. StepsOfCalls'
    BY <1>5, <2>0, <2>1, <2>3
       DEF SetWebhook, WebhookInv, StepsOfCalls, Quiet, Frame, Ends, GoesOn, Changes
  <2>5. Hand(h)' BY <1>0, <2>0, <2>2, <2>3 DEF Hand, Ends, GoesOn, TelegramTypes
  <2>6. ASSUME NEW t \in Tokens, Holds(h, t) \/ webhook'[t] # webhook[t],
               t \notin suspect', ~Holds(h, t)'
        PROVE  FALSE
    BY <1>0, <1>5, <2>0, <2>2, <2>3, <2>6 DEF SetWebhook, TelegramTypes, GoesOn
  <2>7. \A t \in Tokens \ {tok[h], prev[h]} : webhook'[t] = webhook[t]
    BY <1>0, <2>2 DEF TelegramTypes
  <2> HIDE DEF Holds
  <2>8. Known' /\ HandsStand' /\ RestMatches'
    BY <2>0, <2>1, <2>5, <2>6, <2>7, QuietWebhooks
  <2> QED BY <2>4, <2>8 DEF WebhookInv
<1>6. CASE DeleteWebhook(h)
  <2>0. Changes(h) /\ tok[h] \in Tokens
    BY <1>6 DEF DeleteWebhook, WebhookInv, StepsOfCalls, Changes, BotInv, HandlersStand
  <2>1. suspect \subseteq suspect' /\ exists' = exists /\ token' = token /\ secret' = secret
        /\ Frame(h) /\ Ends(h)
    BY <1>0, <1>6, FinishEnds DEF DeleteWebhook, CallDelete
  <2>2. Quiet(h) BY <2>1 DEF Quiet
  <2>3. StepsOfCalls'
    BY <2>1 DEF WebhookInv, StepsOfCalls, Frame, Ends, Changes
  <2>4. Hand(h)' BY <2>1 DEF Hand, Ends
  <2>5. ASSUME NEW t \in Tokens, Holds(h, t) \/ webhook'[t] # webhook[t],
               t \notin suspect', ~Holds(h, t)'
        PROVE  Matches(t)'
    <3>1. CASE pc[h] = "undoing"
      <4>1. tok[h] \in suspect BY <3>1 DEF WebhookInv, Known, ConflictKnown
      <4>2. webhook'[t] # webhook[t] => t = tok[h]
        BY <1>0, <1>6, <3>1 DEF DeleteWebhook, CallDelete, TelegramTypes
      <4> QED BY <2>1, <2>5, <3>1, <4>1, <4>2
    <3>2. CASE pc[h] = "releasing"
      <4>0. CallDelete(prev[h]) /\ prev[h] \in Tokens
        BY <1>6, <3>2 DEF DeleteWebhook, BotInv, HandlersStand
      <4>1. t = prev[h]
        BY <1>0, <2>5, <3>2, <4>0 DEF CallDelete, TelegramTypes
      <4>2. webhook'[t] = None
        BY <1>0, <2>5, <4>0, <4>1 DEF CallDelete, TelegramTypes
      <4>3. \A w \in Workspaces : token[w] # t
        BY <2>1, <2>5, <3>2, <4>1 DEF WebhookInv, HandsStand, Hand
      <4> QED BY <2>1, <4>2, <4>3 DEF Matches
    <3> QED BY <1>6, <3>1, <3>2 DEF DeleteWebhook
  <2>6. \A t \in Tokens \ {tok[h], prev[h]} : webhook'[t] = webhook[t]
    BY <1>0, <1>6 DEF DeleteWebhook, CallDelete, TelegramTypes
  <2> HIDE DEF Holds
  <2>7. Known' /\ HandsStand' /\ RestMatches'
    BY <2>0, <2>2, <2>4, <2>5, <2>6, QuietWebhooks
  <2> QED BY <2>3, <2>7 DEF WebhookInv
<1> QED BY <1>1, <1>2, <1>3, <1>4, <1>5, <1>6

LEMMA OtherWebhooks ==
    ASSUME BotInv, WebhookInv, NEW h \in Handlers,
           ReleaseBot(h) \/ Probe(h) \/ RecordCheck(h) \/ HandlerDies(h)
    PROVE  WebhookInv'
<1> USE DEF Holds, Sets, argumentVars, rowVars, telegramVars, historyVars
<1>0. HandlerTypes /\ TelegramTypes /\ HistoryTypes BY BotTypeParts DEF BotInv
<1>1. CASE Probe(h)
  <2>1. Quiet(h) BY <1>0, <1>1 DEF Probe, HandlerTypes, Quiet, Frame, GoesOn
  <2>2. StepsOfCalls'
    BY <1>0, <1>1 DEF Probe, WebhookInv, StepsOfCalls, HandlerTypes, Changes
  <2>3. pc[h] = "calling" /\ pc'[h] = "recording" BY <1>0, <1>1 DEF Probe, HandlerTypes
  <2> QED BY <1>1, <2>1, <2>2, <2>3, StillWebhooks DEF Probe
<1>2. CASE RecordCheck(h)
  <2>1. Quiet(h) BY <1>0, <1>2, FinishEnds DEF RecordCheck, Quiet
  <2>2. Ends(h) BY <1>0, <1>2, FinishEnds DEF RecordCheck
  <2>3. StepsOfCalls'
    BY <1>2, <2>1, <2>2 DEF WebhookInv, StepsOfCalls, Quiet, Frame, Ends, Changes
  <2> QED BY <1>2, <2>1, <2>2, <2>3, StillWebhooks DEF RecordCheck, Ends
<1>3. CASE HandlerDies(h)
  <2>1. Quiet(h) BY <1>0, <1>3, FinishEnds DEF HandlerDies, Quiet
  <2>2. Ends(h) BY <1>0, <1>3, FinishEnds DEF HandlerDies
  <2>3. StepsOfCalls'
    BY <1>3, <2>1, <2>2 DEF WebhookInv, StepsOfCalls, Quiet, Frame, Ends, Changes
  <2>4. \A t \in Tokens : Holds(h, t) => t \in suspect'
    <3>1. \A t \in Tokens : Holds(h, t) => op[h] # "check"
      BY DEF WebhookInv, StepsOfCalls
    <3> QED BY <1>3, <3>1 DEF HandlerDies
  <2> QED BY <1>3, <2>1, <2>2, <2>3, <2>4, StillWebhooks DEF HandlerDies, Ends
<1>4. CASE ReleaseBot(h)
  <2>0. tok[h] \in Tokens /\ prev[h] = None /\ Changes(h) /\ pc'[h] = "clearing"
        /\ op[h] = "disconnect" /\ pc[h] = "calling"
    BY <1>0, <1>4 DEF ReleaseBot, BotInv, HandlersStand, WebhookInv, StepsOfCalls, Changes,
       HandlerTypes
  <2>1. suspect \subseteq suspect' BY <1>4 DEF ReleaseBot, CallDelete
  <2>2. Quiet(h)
    BY <1>0, <1>4, <2>1 DEF ReleaseBot, HandlerTypes, Quiet, Frame, GoesOn
  <2>3. StepsOfCalls'
    BY <1>0, <1>4 DEF ReleaseBot, WebhookInv, StepsOfCalls, HandlerTypes, Changes
  <2>4. tok'[h] = tok[h] /\ prev'[h] = prev[h] BY <1>4 DEF ReleaseBot
  <2>5. tok[h] \notin suspect' => webhook'[tok[h]] = None
    BY <1>0, <1>4, <2>0 DEF ReleaseBot, CallDelete, TelegramTypes
  <2>6. Hand(h)' BY <2>0, <2>4, <2>5 DEF Hand
  <2>7. \A t \in Tokens \ {tok[h], prev[h]} : webhook'[t] = webhook[t]
    BY <1>0, <1>4 DEF ReleaseBot, CallDelete, TelegramTypes
  <2>8. ASSUME NEW t \in Tokens, Holds(h, t) \/ webhook'[t] # webhook[t], ~Holds(h, t)'
        PROVE  FALSE
    BY <2>0, <2>4, <2>7, <2>8
  <2> HIDE DEF Holds
  <2>9. Known' /\ HandsStand' /\ RestMatches'
    BY <2>0, <2>2, <2>6, <2>7, <2>8, QuietWebhooks
  <2> QED BY <2>3, <2>9 DEF WebhookInv
<1> QED BY <1>1, <1>2, <1>3, <1>4
(* A new handler: the history takes down what it shares with others. *)
LEMMA StartWebhooks ==
    ASSUME BotInv, WebhookInv, NEW h \in Handlers, NEW o \in Ops \ {"none"},
           NEW w \in Workspaces, NEW t \in Tokens, Start(h, o, w, t),
           o # "check" => ~TakenByOther(w, t),
           o = "disconnect" => token[w] = t
    PROVE  WebhookInv'
<1> DEFINE rivals == IF o = "check" THEN {} ELSE Rivals(h, w, t)
<1>0. HandlerTypes /\ TelegramTypes /\ HistoryTypes /\ RowTypes BY BotTypeParts DEF BotInv
<1>1. /\ pc[h] = "idle" /\ pc'[h] = "calling" /\ op'[h] = o /\ ws'[h] = w /\ tok'[h] = t
      /\ op[h] = "none" /\ prev[h] = None /\ prev'[h] = None
      /\ UNCHANGED <<exists, token, secret, webhook, sec, prev>>
  BY <1>0 DEF Start, HandlerTypes, WebhookInv, StepsOfCalls, Changes, rowVars, telegramVars
<1>2. \A g \in Handlers \ {h} :
          /\ pc'[g] = pc[g] /\ op'[g] = op[g] /\ ws'[g] = ws[g] /\ tok'[g] = tok[g]
          /\ overlapped[g] => overlapped'[g]
  BY <1>0 DEF Start, HandlerTypes, HistoryTypes
<1>3. suspect \subseteq suspect' BY DEF Start
<1>4. \A g \in rivals :
          /\ g \in Handlers \ {h} /\ overlapped'[g] /\ overlapped'[h]
          /\ {t, tok[g], prev[g], token[w]} \ {None} \subseteq suspect'
  <2>1. rivals \subseteq Handlers \ {h} BY DEF Rivals
  <2>2. \A g \in rivals : overlapped'[g] /\ overlapped'[h] BY <2>1 DEF Start
  <2>3. \A g \in rivals : {t, tok[g], prev[g], token[w]} \ {None} \subseteq suspect'
    BY DEF Start
  <2> QED BY <2>1, <2>2, <2>3
<1>5. \A g \in Handlers \ {h} :
          Changes(h)' /\ Changes(g) /\ (ws[g] = w \/ t \in {tok[g], prev[g]}) => g \in rivals
  BY <1>1 DEF Rivals, Changes
<1>6. \A g \in Handlers : Changes(g) => tok[g] \in Tokens
  BY DEF BotInv, HandlersStand, WebhookInv, StepsOfCalls, Changes
<1>7. \A g \in Handlers \ {h} :
          /\ Changes(g)' <=> Changes(g)
          /\ Contested(g) => Contested(g)'
  BY <1>2, <1>3 DEF Changes, Contested
<1>8. \A g \in rivals : Contested(g)' /\ Contested(h)'
  <2>1. \A g \in rivals : Changes(g) BY DEF Rivals, Changes
  <2> QED BY <1>1, <1>2, <1>4, <1>6, <2>1 DEF Contested
<1> HIDE DEF rivals
<1>9. StepsOfCalls' BY <1>1, <1>2 DEF WebhookInv, StepsOfCalls, Changes
<1>10. MetKnown'
  <2> SUFFICES ASSUME NEW f \in Handlers, NEW g \in Handlers, f # g,
                      Changes(f)', Changes(g)', ws'[f] = ws'[g] \/ tok'[f] = tok'[g]
               PROVE  Contested(f)'
    BY DEF MetKnown
  <2>1. CASE f # h /\ g # h
    BY <1>2, <1>7, <2>1 DEF WebhookInv, Known, MetKnown
  <2>2. CASE f = h \/ g = h BY <1>1, <1>2, <1>5, <1>7, <1>8, <2>2
  <2> QED BY <2>1, <2>2
<1>11. TakenKnown'
  <2> SUFFICES ASSUME NEW g \in Handlers, NEW x \in Workspaces,
                      Changes(g)', x # ws'[g], token[x] = tok'[g]
               PROVE  Contested(g)'
    BY <1>1 DEF TakenKnown
  <2>1. CASE g # h BY <1>2, <1>7, <2>1 DEF WebhookInv, Known, TakenKnown
  <2>2. CASE g = h BY <1>1, <2>2 DEF TakenByOther, Changes
  <2> QED BY <2>1, <2>2
<1>12. ReleasedKnown'
  <2> SUFFICES ASSUME NEW f \in Handlers, NEW g \in Handlers, f # g,
                      Changes(f)', prev'[g] = tok'[f]
               PROVE  Contested(f)'
    BY DEF ReleasedKnown
  <2>1. CASE f # h BY <1>1, <1>2, <1>7, <2>1 DEF WebhookInv, Known, ReleasedKnown
  <2>2. CASE f = h
    <3>1. Changes(g)
      BY <1>1, <2>2 DEF WebhookInv, StepsOfCalls
    <3> QED BY <1>1, <1>5, <1>8, <2>2, <3>1
  <2> QED BY <2>1, <2>2
<1>13. SharedRows'
  <2> SUFFICES ASSUME NEW f \in Handlers, NEW g \in Handlers, f # g,
                      Changes(f)', Changes(g)', ws'[f] = ws'[g]
               PROVE  token[ws'[f]] \in Doubtful' /\ prev[f] \in Doubtful'
    BY <1>1 DEF SharedRows
  <2>1. CASE f # h /\ g # h
    BY <1>2, <1>3, <1>7, <2>1 DEF WebhookInv, Known, SharedRows, Doubtful
  <2>2. CASE f = h
    BY <1>1, <1>2, <1>4, <1>5, <1>7, <2>2 DEF Doubtful
  <2>3. CASE g = h
    BY <1>1, <1>2, <1>4, <1>5, <1>7, <2>3 DEF Doubtful
  <2> QED BY <2>1, <2>2, <2>3
<1>14. OldBotKnown'
  <2> SUFFICES ASSUME NEW g \in Handlers
               PROVE  /\ op'[g] = "disconnect" => token[ws'[g]] \in Doubtful' \cup {tok'[g]}
                      /\ pc'[g] \in {"selecting", "inserting"} =>
                          /\ token[ws'[g]] \in Doubtful' \cup {prev[g]}
                          /\ prev[g] \in Doubtful' \cup {token[ws'[g]]}
    BY <1>1 DEF OldBotKnown
  <2>1. CASE g # h
    BY <1>2, <1>3, <2>1 DEF WebhookInv, Known, OldBotKnown, Doubtful
  <2>2. CASE g = h BY <1>1, <2>2
  <2> QED BY <2>1, <2>2
<1>15. ConflictKnown' BY <1>1, <1>2, <1>3 DEF WebhookInv, Known, ConflictKnown
<1>16. HandsStand' BY <1>1, <1>2, <1>3 DEF WebhookInv, HandsStand, Hand, Sets
<1>17. RestMatches'
  <2>1. \A b : \A g \in Handlers : Holds(g, b)' <=> Holds(g, b)
    BY <1>1, <1>2 DEF Holds, Sets
  <2> QED BY <1>1, <1>3, <2>1 DEF WebhookInv, RestMatches, Matches
<1> QED BY <1>9, <1>10, <1>11, <1>12, <1>13, <1>14, <1>15, <1>16, <1>17 DEF WebhookInv, Known

(* The previous bot is the one in the row, which others may have too. *)
LEMMA ReadWebhooks ==
    ASSUME BotInv, WebhookInv, OneWorkspacePerBot, NEW h \in Handlers, ReadPrevious(h)
    PROVE  WebhookInv'
<1>0. HandlerTypes /\ RowTypes BY BotTypeParts DEF BotInv
<1>1. /\ pc[h] = "asking" /\ pc'[h] = "selecting" /\ prev'[h] = token[ws[h]]
      /\ op[h] = "connect" /\ prev[h] = None /\ ws[h] \in Workspaces
      /\ UNCHANGED <<exists, token, secret, webhook, op, ws, tok, sec, overlapped, suspect>>
  BY <1>0 DEF ReadPrevious, HandlerTypes, rowVars, telegramVars, argumentVars, historyVars,
     WebhookInv, StepsOfCalls, BotInv, HandlersStand
<1>2. \A g \in Handlers \ {h} : pc'[g] = pc[g] /\ prev'[g] = prev[g]
  BY <1>0 DEF ReadPrevious, HandlerTypes
<1>3. StepsOfCalls' BY <1>1, <1>2 DEF WebhookInv, StepsOfCalls, Changes
<1>4. MetKnown' /\ TakenKnown'
  BY <1>1 DEF WebhookInv, Known, MetKnown, TakenKnown, Changes, Contested
<1>5. ReleasedKnown'
  <2> SUFFICES ASSUME NEW g \in Handlers, NEW f \in Handlers, g # f,
                      Changes(g), prev'[f] = tok[g]
               PROVE  Contested(g)
    BY <1>1 DEF ReleasedKnown, Changes, Contested
  <2>1. CASE f # h BY <1>2, <2>1 DEF WebhookInv, Known, ReleasedKnown
  <2>2. CASE f = h /\ ws[g] = ws[h]
    BY <1>1, <2>2 DEF WebhookInv, Known, MetKnown, Changes
  <2>3. CASE f = h /\ ws[g] # ws[h]
    BY <1>1, <2>3 DEF WebhookInv, Known, TakenKnown
  <2> QED BY <2>1, <2>2, <2>3
<1>6. SharedRows'
  BY <1>1, <1>2 DEF WebhookInv, Known, SharedRows, Changes, Doubtful
<1>7. OldBotKnown' BY <1>1, <1>2 DEF WebhookInv, Known, OldBotKnown, Doubtful
<1>8. ConflictKnown' BY <1>1, <1>2 DEF WebhookInv, Known, ConflictKnown
<1>9. HandsStand' BY <1>1, <1>2 DEF WebhookInv, HandsStand, Hand, Sets
<1>10. RestMatches'
  <2>1. \A b : \A g \in Handlers : Holds(g, b)' <=> Holds(g, b)
    BY <1>1, <1>2 DEF Holds, Sets
  <2> QED BY <1>1, <2>1 DEF WebhookInv, RestMatches, Matches
<1> QED BY <1>3, <1>4, <1>5, <1>6, <1>7, <1>8, <1>9, <1>10 DEF WebhookInv, Known
(* The row is saved: of the bots in doubt only that of h may be taken out, *)
(* and only if nobody else has had it.                                     *)
LEMMA SaveWebhooks ==
    ASSUME BotInv, WebhookInv, OneWorkspacePerBot, NEW h \in Handlers, SaveRow(h)
    PROVE  WebhookInv'
<1>0. HandlerTypes /\ RowTypes /\ TelegramTypes BY BotTypeParts DEF BotInv
<1>1. /\ pc[h] \in {"selecting", "inserting"} /\ op[h] = "connect"
      /\ ws[h] \in Workspaces /\ tok[h] \in Tokens /\ tok[h] # None
      /\ UNCHANGED <<webhook, overlapped>>
  BY DEF SaveRow, telegramVars, WebhookInv, StepsOfCalls, BotInv, HandlersStand
<1>2. /\ token'[ws[h]] = tok[h] /\ secret'[ws[h]] = sec[h]
      /\ \A w \in Workspaces \ {ws[h]} :
            token'[w] = token[w] /\ secret'[w] = secret[w] /\ token[w] # tok[h]
      /\ exists' = exists \cup {ws[h]}
  BY <1>0, <1>1 DEF SaveRow, RowTypes, Conflict, TakenByOther
<1>3. suspect' = IF overlapped[h] THEN suspect ELSE suspect \ {tok[h]} BY DEF SaveRow
<1>4. /\ Frame(h)
      /\ \/ Replaced(h) /\ pc'[h] = "releasing" /\ op'[h] = op[h] /\ ws'[h] = ws[h]
            /\ tok'[h] = tok[h] /\ prev'[h] = prev[h]
         \/ ~Replaced(h) /\ Ends(h)
  <2>1. CASE Replaced(h)
    BY <1>0, <1>1, <2>1 DEF SaveRow, HandlerTypes, Frame, argumentVars
  <2>2. CASE ~Replaced(h) BY <1>1, <2>2, <1>0, FinishEnds DEF SaveRow
  <2> QED BY <2>1, <2>2
<1>5. \A g \in Handlers \ {h} : Contested(g) /\ Changes(g) => Contested(g)'
  <2>1. \A g \in Handlers \ {h} : Changes(g) /\ tok[g] = tok[h] => overlapped[h]
    BY <1>1 DEF WebhookInv, Known, MetKnown, Changes, Contested
  <2> QED BY <1>1, <1>3, <1>4, <2>1 DEF Frame, Contested
<1>6. \A g \in Handlers \ {h} :
          Changes(g) /\ (ws[g] = ws[h] \/ tok[g] = tok[h])
            => Contested(g)' /\ overlapped[h] /\ tok[h] \in suspect'
  BY <1>1, <1>3, <1>5 DEF WebhookInv, Known, MetKnown, Changes, Contested
<1>7. \A g \in Handlers \ {h} :
          prev[g] = tok[h] => overlapped[h] /\ tok[h] \in suspect'
  BY <1>1, <1>3 DEF WebhookInv, Known, ReleasedKnown, Changes, Contested
<1>8. \A g \in Handlers : Changes(g)' =>
          Changes(g) /\ ws'[g] = ws[g] /\ tok'[g] = tok[g] /\ prev'[g] = prev[g]
  BY <1>4 DEF Frame, Changes, Ends
<1>9. \A g \in Handlers : Contested(g) /\ Changes(g) /\ tok'[g] = tok[g] => Contested(g)'
  BY <1>1, <1>3, <1>5 DEF Contested
<1>10. StepsOfCalls'
  BY <1>1, <1>4 DEF WebhookInv, StepsOfCalls, Frame, Ends, Changes
<1>11. MetKnown' BY <1>8, <1>9 DEF WebhookInv, Known, MetKnown
<1>12. TakenKnown'
  <2> SUFFICES ASSUME NEW g \in Handlers, NEW w \in Workspaces,
                      Changes(g)', w # ws'[g], token'[w] = tok'[g]
               PROVE  Contested(g)'
    BY DEF TakenKnown
  <2>1. CASE w # ws[h] BY <1>2, <1>8, <1>9, <2>1 DEF WebhookInv, Known, TakenKnown
  <2>2. CASE w = ws[h] BY <1>2, <1>6, <1>8, <2>2
  <2> QED BY <2>1, <2>2
<1>13. ReleasedKnown'
  <2>1. \A g \in Handlers : prev'[g] \in {prev[g], None} BY <1>4 DEF Frame, Ends
  <2>2. \A g \in Handlers : Changes(g) => tok[g] # None
    BY DEF BotInv, HandlersStand, WebhookInv, StepsOfCalls, Changes
  <2> QED BY <1>8, <1>9, <2>1, <2>2 DEF WebhookInv, Known, ReleasedKnown
<1>14. SharedRows'
  <2> SUFFICES ASSUME NEW f \in Handlers, NEW g \in Handlers, f # g,
                      Changes(f)', Changes(g)', ws'[f] = ws'[g]
               PROVE  token'[ws[f]] \in Doubtful' /\ prev[f] \in Doubtful'
    BY <1>8 DEF SharedRows
  <2>1. token[ws[f]] \in Doubtful /\ prev[f] \in Doubtful /\ Changes(f) /\ ws[f] = ws[g]
        /\ Changes(g)
    BY <1>8 DEF WebhookInv, Known, SharedRows
  <2>2. ws[f] \in Workspaces
    BY <2>1 DEF BotInv, HandlersStand, WebhookInv, StepsOfCalls, Changes
  <2>3. CASE ws[f] = ws[h]
    <3>1. overlapped[h] /\ tok[h] \in suspect' BY <1>6, <2>1, <2>3
    <3> QED BY <1>2, <1>3, <2>1, <2>3, <3>1 DEF Doubtful
  <2>4. CASE ws[f] # ws[h]
    <3>1. token'[ws[f]] = token[ws[f]] /\ token[ws[f]] # tok[h] BY <1>2, <2>2, <2>4
    <3>2. f # h BY <2>4
    <3>3. prev[f] \in Doubtful' BY <1>3, <1>7, <2>1, <3>2 DEF Doubtful
    <3> QED BY <1>3, <2>1, <3>1, <3>3 DEF Doubtful
  <2> QED BY <2>3, <2>4
<1>15. OldBotKnown'
  <2> SUFFICES ASSUME NEW g \in Handlers \ {h}
               PROVE  /\ op'[g] = "disconnect" => token'[ws'[g]] \in Doubtful' \cup {tok'[g]}
                      /\ pc'[g] \in {"selecting", "inserting"} =>
                          /\ token'[ws'[g]] \in Doubtful' \cup {prev'[g]}
                          /\ prev'[g] \in Doubtful' \cup {token'[ws'[g]]}
    BY <1>1, <1>4 DEF OldBotKnown, Ends
  <2> SUFFICES ASSUME op[g] = "disconnect" \/ pc[g] \in {"selecting", "inserting"}
               PROVE  /\ op[g] = "disconnect" => token'[ws[g]] \in Doubtful' \cup {tok[g]}
                      /\ pc[g] \in {"selecting", "inserting"} =>
                          /\ token'[ws[g]] \in Doubtful' \cup {prev[g]}
                          /\ prev[g] \in Doubtful' \cup {token'[ws[g]]}
    BY <1>4 DEF Frame
  <2>1. Changes(g) BY DEF WebhookInv, StepsOfCalls, Changes
  <2>2. ws[g] \in Workspaces
    BY <2>1 DEF BotInv, HandlersStand, WebhookInv, StepsOfCalls, Changes
  <2>3. CASE ws[g] = ws[h]
    <3>1. overlapped[h] /\ tok[h] \in suspect' BY <1>6, <2>1, <2>3
    <3>2. prev[g] \in Doubtful'
      BY <1>1, <1>3, <2>1, <2>3, <3>1 DEF WebhookInv, Known, SharedRows, Changes, Doubtful
    <3> QED BY <1>2, <2>3, <3>1, <3>2 DEF Doubtful
  <2>4. CASE ws[g] # ws[h]
    <3>1. token'[ws[g]] = token[ws[g]] /\ token[ws[g]] # tok[h] BY <1>2, <2>2, <2>4
    <3>2. prev[g] \in Doubtful => prev[g] \in Doubtful' BY <1>3, <1>7 DEF Doubtful
    <3>3. token[ws[g]] \in Doubtful => token[ws[g]] \in Doubtful'
      BY <1>3, <3>1 DEF Doubtful
    <3> QED BY <3>1, <3>2, <3>3 DEF WebhookInv, Known, OldBotKnown
  <2> QED BY <2>3, <2>4
<1>16. ConflictKnown'
  <2> SUFFICES ASSUME NEW g \in Handlers \ {h},
                      pc[g] = "undoing" \/ (pc[g] = "inserting" /\ ws[g] \in exists')
               PROVE  tok[g] \in suspect'
    BY <1>4 DEF ConflictKnown, Ends, Frame
  <2>1. Changes(g) BY DEF WebhookInv, StepsOfCalls, Changes
  <2>2. CASE ws[g] = ws[h] BY <1>6, <2>1, <2>2, <1>4 DEF Contested, Frame
  <2>3. CASE ws[g] # ws[h]
    <3>1. tok[g] \in suspect
      BY <1>2, <2>3 DEF WebhookInv, Known, ConflictKnown
    <3> QED BY <1>3, <1>6, <2>1, <3>1
  <2> QED BY <2>2, <2>3
<1>17. HandsStand'
  <2>1. ASSUME NEW g \in Handlers \ {h} PROVE Hand(g)'
    <3>1. Hand(g) BY DEF WebhookInv, HandsStand
    <3>2. Sets(g) \/ pc[g] = "clearing" => Changes(g)
      BY DEF WebhookInv, StepsOfCalls, Sets, Changes
    <3>3. (Sets(g) \/ pc[g] = "clearing") /\ tok[g] \in suspect => tok[g] \in suspect'
      BY <1>3, <1>6, <3>2
    <3>4. pc[g] = "releasing" /\ prev[g] \notin suspect' =>
              prev[g] \notin suspect /\ prev[g] # tok[h]
      BY <1>3, <1>7
    <3>5. pc[g] = "releasing" /\ prev[g] \notin suspect' =>
              \A w \in Workspaces : token'[w] # prev[g]
      BY <1>2, <3>1, <3>4 DEF Hand
    <3> QED BY <1>1, <1>4, <3>1, <3>3, <3>5 DEF Hand, Sets, Frame
  <2>2. Hand(h)'
    <3>1. CASE Ends(h) BY <3>1 DEF Hand, Ends, Sets
    <3>2. CASE pc'[h] = "releasing" /\ Replaced(h) /\ prev'[h] = prev[h]
      <4> SUFFICES ASSUME prev[h] \notin suspect'
                   PROVE  \A w \in Workspaces : token'[w] # prev[h]
        BY <3>2 DEF Hand, Sets
      <4>1. prev[h] # tok[h] /\ prev[h] # None BY <3>2 DEF Replaced
      <4>2. prev[h] = token[ws[h]]
        BY <1>1, <1>3, <4>1 DEF WebhookInv, Known, OldBotKnown, Doubtful
      <4> QED BY <1>1, <1>2, <4>1, <4>2 DEF OneWorkspacePerBot
    <3> QED BY <1>4, <3>1, <3>2
  <2> QED BY <2>1, <2>2 DEF HandsStand
<1>18. RestMatches'
  <2> SUFFICES ASSUME NEW t \in Tokens, t \notin suspect',
                      \A g \in Handlers : ~Holds(g, t)'
               PROVE  Matches(t)'
    BY DEF RestMatches
  <2>1. CASE t = tok[h]
    <3>1. ~overlapped[h] \/ tok[h] \notin suspect BY <1>3, <2>1
    <3>2. webhook[t] = sec[h]
      BY <1>1, <2>1, <3>1 DEF WebhookInv, HandsStand, Hand, Sets
    <3> QED BY <1>1, <1>2, <2>1, <3>2 DEF Matches
  <2>2. CASE t # tok[h]
    <3>1. t \notin suspect BY <1>3, <2>2
    <3>2. \A g \in Handlers : ~Holds(g, t)
      BY <1>1, <1>4, <2>2 DEF Holds, Sets, Frame
    <3>3. Matches(t) BY <3>1, <3>2 DEF WebhookInv, RestMatches
    <3>4. token[ws[h]] # t
      <4> SUFFICES ASSUME token[ws[h]] = t PROVE FALSE
        OBVIOUS
      <4>1. prev[h] = t
        BY <1>1, <3>1 DEF WebhookInv, Known, OldBotKnown, Doubtful
      <4>2. Replaced(h) BY <2>2, <4>1 DEF Replaced
      <4> QED BY <1>4, <4>1, <4>2 DEF Holds
    <3> QED BY <1>1, <1>2, <2>2, <3>3, <3>4 DEF Matches
  <2> QED BY <2>1, <2>2
<1> QED BY <1>10, <1>11, <1>12, <1>13, <1>14, <1>15, <1>16, <1>17, <1>18
        DEF WebhookInv, Known

LEMMA ClearWebhooks ==
    ASSUME BotInv, WebhookInv, OneWorkspacePerBot, NEW h \in Handlers, ClearRow(h)
    PROVE  WebhookInv'
<1>0. HandlerTypes /\ RowTypes BY BotTypeParts DEF BotInv
<1>1. /\ pc[h] = "clearing" /\ op[h] = "disconnect"
      /\ ws[h] \in Workspaces /\ tok[h] \in Tokens
      /\ UNCHANGED <<exists, webhook, overlapped, suspect>>
  BY DEF ClearRow, telegramVars, historyVars, WebhookInv, StepsOfCalls, BotInv, HandlersStand
<1>2. /\ token'[ws[h]] = None
      /\ \A w \in Workspaces \ {ws[h]} : token'[w] = token[w] /\ secret'[w] = secret[w]
  BY <1>0, <1>1 DEF ClearRow, RowTypes
<1>3. Frame(h) /\ Ends(h) BY <1>0, <1>1, FinishEnds DEF ClearRow
<1>4. \A w \in Workspaces : token'[w] \in {token[w], None} BY <1>2
<1>5. \A g \in Handlers : Changes(g)' =>
          /\ g # h /\ Changes(g) /\ ws'[g] = ws[g] /\ tok'[g] = tok[g]
          /\ prev'[g] = prev[g] /\ (Contested(g) => Contested(g)')
          /\ ws[g] \in Workspaces /\ tok[g] \in Tokens
  BY <1>1, <1>3 DEF Frame, Ends, Changes, Contested, BotInv, HandlersStand, WebhookInv,
     StepsOfCalls
<1>6. StepsOfCalls' BY <1>3 DEF WebhookInv, StepsOfCalls, Frame, Ends, Changes
<1>7. MetKnown' BY <1>5 DEF WebhookInv, Known, MetKnown
<1>8. TakenKnown' BY <1>4, <1>5 DEF WebhookInv, Known, TakenKnown
<1>9. ReleasedKnown'
  <2>1. \A g \in Handlers : prev'[g] \in {prev[g], None} BY <1>3 DEF Frame, Ends
  <2> QED BY <1>5, <2>1 DEF WebhookInv, Known, ReleasedKnown
<1>10. SharedRows'
  <2> SUFFICES ASSUME NEW f \in Handlers, NEW g \in Handlers, f # g,
                      Changes(f)', Changes(g)', ws'[f] = ws'[g]
               PROVE  token'[ws[f]] \in Doubtful' /\ prev[f] \in Doubtful'
    BY <1>5 DEF SharedRows
  <2>1. token[ws[f]] \in Doubtful /\ prev[f] \in Doubtful
    BY <1>5 DEF WebhookInv, Known, SharedRows
  <2> QED BY <1>1, <1>4, <1>5, <2>1 DEF Doubtful
<1>11. OldBotKnown'
  <2> SUFFICES ASSUME NEW g \in Handlers \ {h}
               PROVE  /\ op[g] = "disconnect" => token'[ws[g]] \in Doubtful \cup {tok[g]}
                      /\ pc[g] \in {"selecting", "inserting"} =>
                          /\ token'[ws[g]] \in Doubtful \cup {prev[g]}
                          /\ prev[g] \in Doubtful \cup {token'[ws[g]]}
    BY <1>1, <1>3 DEF OldBotKnown, Ends, Frame, Doubtful
  <2> SUFFICES ASSUME op[g] = "disconnect" \/ pc[g] \in {"selecting", "inserting"}
               PROVE  /\ token'[ws[g]] \in {token[ws[g]], None}
                      /\ prev[g] \in Doubtful \/ token'[ws[g]] = token[ws[g]]
    BY DEF WebhookInv, Known, OldBotKnown, Doubtful
  <2>1. Changes(g) /\ ws[g] \in Workspaces
    BY DEF WebhookInv, StepsOfCalls, Changes, BotInv, HandlersStand
  <2>2. ws[g] = ws[h] => prev[g] \in Doubtful
    BY <1>1, <2>1 DEF WebhookInv, Known, SharedRows, Changes
  <2> QED BY <1>2, <1>4, <2>1, <2>2
<1>12. ConflictKnown' BY <1>1, <1>3 DEF WebhookInv, Known, ConflictKnown, Frame, Ends
<1>13. HandsStand'
  <2>1. \A g \in Handlers \ {h} :
            Hand(g) /\ (pc[g] = "releasing" => prev[g] \in Tokens /\ prev[g] # None)
    BY DEF WebhookInv, HandsStand, BotInv, HandlersStand
  <2>2. Hand(h)' BY <1>3 DEF Hand, Ends, Sets
  <2>3. \A g \in Handlers \ {h} : Hand(g)'
    BY <1>1, <1>3, <1>4, <2>1 DEF Hand, Sets, Frame
  <2> QED BY <2>2, <2>3 DEF HandsStand
<1>14. RestMatches'
  <2> SUFFICES ASSUME NEW t \in Tokens, t \notin suspect,
                      \A g \in Handlers : ~Holds(g, t)'
               PROVE  Matches(t)'
    BY <1>1 DEF RestMatches
  <2>1. \A g \in Handlers \ {h} : ~Holds(g, t) BY <1>3 DEF Holds, Sets, Frame
  <2>2. t # None OBVIOUS
  <2>3. CASE t = tok[h]
    <3>1. webhook[t] = None BY <1>1, <2>3 DEF WebhookInv, HandsStand, Hand
    <3>2. \A w \in Workspaces \ {ws[h]} : token[w] # t
      BY <1>1, <2>3 DEF WebhookInv, Known, TakenKnown, Changes, Contested
    <3> QED BY <1>1, <1>2, <2>2, <3>1, <3>2 DEF Matches
  <2>4. CASE t # tok[h]
    <3>1. \A g \in Handlers : ~Holds(g, t) BY <1>1, <2>1, <2>4 DEF Holds
    <3>2. Matches(t) BY <3>1 DEF WebhookInv, RestMatches
    <3>3. token[ws[h]] # t
      BY <1>1, <2>2, <2>4 DEF WebhookInv, Known, OldBotKnown, Doubtful
    <3> QED BY <1>1, <1>2, <2>2, <3>2, <3>3 DEF Matches
  <2> QED BY <2>3, <2>4
<1> QED BY <1>6, <1>7, <1>8, <1>9, <1>10, <1>11, <1>12, <1>13, <1>14 DEF WebhookInv, Known

LEMMA WebhookStep ==
    BotInv /\ OneWorkspacePerBot /\ WebhookInv /\ [BotNext]_botVars => WebhookInv'
<1> SUFFICES ASSUME BotInv, OneWorkspacePerBot, WebhookInv, [BotNext]_botVars
             PROVE  WebhookInv'
  OBVIOUS
<1>1. ASSUME NEW h \in Handlers, NEW w \in Workspaces, NEW t \in Tokens,
             StartConnect(h, w, t)
      PROVE  WebhookInv'
  BY <1>1, StartWebhooks DEF StartConnect, Ops
<1>2. ASSUME NEW h \in Handlers, NEW w \in Workspaces,
             StartDisconnect(h, w) \/ StartCheck(h, w)
      PROVE  WebhookInv'
  <2>1. token[w] \in Tokens /\ ~TakenByOther(w, token[w])
    BY <1>2, BotTypeParts DEF StartDisconnect, StartCheck, BotInv, RowTypes, TakenByOther,
       OneWorkspacePerBot
  <2> QED BY <1>2, <2>1, StartWebhooks DEF StartDisconnect, StartCheck, Ops
<1>3. ASSUME NEW h \in Handlers, Connect(h) PROVE WebhookInv'
  BY <1>1, <1>3, ConnectWebhooks, ReadWebhooks, SaveWebhooks DEF Connect
<1>4. ASSUME NEW h \in Handlers, Disconnect(h) PROVE WebhookInv'
  BY <1>2, <1>4, OtherWebhooks, ClearWebhooks DEF Disconnect
<1>5. ASSUME NEW h \in Handlers, Check(h) \/ HandlerDies(h) PROVE WebhookInv'
  BY <1>2, <1>5, OtherWebhooks DEF Check
<1>6. CASE UNCHANGED botVars
  <2> USE <1>6 DEF botVars, rowVars, telegramVars, handlerVars, argumentVars, historyVars
  <2>1. StepsOfCalls' BY DEF WebhookInv, StepsOfCalls, Changes
  <2>2. MetKnown' /\ TakenKnown' /\ ReleasedKnown'
    BY DEF WebhookInv, Known, MetKnown, TakenKnown, ReleasedKnown, Changes, Contested
  <2>3. SharedRows' /\ OldBotKnown' /\ ConflictKnown'
    BY DEF WebhookInv, Known, SharedRows, OldBotKnown, ConflictKnown, Changes, Doubtful
  <2>4. HandsStand' BY DEF WebhookInv, HandsStand, Hand, Sets
  <2>5. RestMatches' BY DEF WebhookInv, RestMatches, Holds, Sets, Matches
  <2> QED BY <2>1, <2>2, <2>3, <2>4, <2>5 DEF WebhookInv, Known
<1> QED BY <1>3, <1>4, <1>5, <1>6 DEF BotNext

(* connect_telegram and disconnect_telegram write a row and a webhook with *)
(* no lock across the two.  For any number of workspaces, bots and         *)
(* handlers: a bot whose handlers did not overlap and whose calls were     *)
(* answered has the webhook of its row, or none if no row has it.          *)
THEOREM WebhooksMatch == BotSpec => []WebhooksMatchRows
<1>1. BotInit => WebhookInv BY InitWebhooks
<1>2. BotSpec => []WebhookInv
  BY <1>1, BotInvariance, OneBotOneWorkspace, WebhookStep, PTL DEF BotSpec
<1> QED BY <1>2, BotInvariance, WebhooksFromInv, PTL
===============================================================================
