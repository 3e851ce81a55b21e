----------------------------- MODULE AIChatProofs -----------------------------
(* Theorems about AIChat: the limit of answers under way, the keys, the     *)
(* counter of a session and the end of a session, for any number of         *)
(* requests, sessions, messages and tokens.                                 *)
EXTENDS AIChat, FiniteSetTheorems, TLAPS

USE AIChatAssumption DEF AIChatAssumption

States == {"none", "pending", "success", "failed", "timeout"}
Steps == {"idle", "asked", "locked", "generate", "call"}

-----------------------------------------------------------------------------
(* The inductive invariant. *)

SessionTypes ==
    /\ status \in [Sessions -> {"none", "open", "closed"}]
    /\ idle \subseteq Sessions /\ selected \subseteq Sessions
    /\ count \in [Sessions -> Nat]

MessageTypes ==
    /\ of \in [Messages -> Sessions \cup {None}]
    /\ answers \in [Answers -> [to : Messages \cup {None}, status : States]]
    /\ \A a \in Answers : answers[a].to # None => of[answers[a].to] # None
    /\ stored \in [Keys -> Nat]

RequestTypes ==
    /\ cooling \subseteq {m \in Messages : of[m] # None}
    /\ used \in 0 .. RateLimit
    /\ pc \in [Requests -> Steps]
    /\ faults \in 0 .. MaxFaults

LEMMA TypeParts ==
    /\ TypeOK <=> SessionTypes /\ MessageTypes /\ RequestTypes
    /\ TypeOK' <=> SessionTypes' /\ MessageTypes' /\ RequestTypes'
BY DEF TypeOK, SessionTypes, MessageTypes, RequestTypes, States, Steps

(* Answers are given out in the order of their creation. *)
AnswersInOrder ==
    \E n \in 0 .. MaxAnswers :
        \A a \in Answers : answers[a].status = "none" <=> a > n

UnusedIsEmpty == \A a \in Answers : answers[a].status = "none" <=> answers[a].to = None

(* A message is stored exactly when its key has brought an answer. *)
KeysStored == \A m \in Messages : of[m] = None <=> stored[m] = 0

MessageInv ==
    /\ MessageTypes /\ AnswersInOrder /\ UnusedIsEmpty /\ KeysStored
    /\ OneAnswerPerKey /\ CountMatchesMessages /\ ActiveWithinLimit

(* What a request has read is still so when it stores. *)
AskStands(r) ==
    LET c == call[r] IN
    /\ c.message \in Messages /\ c.session \in Sessions /\ c.key \in Keys
    /\ c.key \in Messages => c.key = c.message
    /\ c.key \in Tokens => of[c.message] = c.session

LockStands(r) ==
    LET c == call[r] IN
    /\ status[c.session] = "open"
    /\ c.count = count[c.session]
    /\ c.active \in Nat /\ Cardinality(Pending) <= c.active

AnswerStands(r) ==
    call[r].answer \in Answers /\ answers[call[r].answer].status # "none"

Stands(r) ==
    /\ pc[r] \in {"asked", "locked"} => AskStands(r)
    /\ pc[r] = "locked" => LockStands(r)
    /\ pc[r] \in {"generate", "call"} => AnswerStands(r)

(* The lock of the user. *)
OneLocked == \A r, s \in Requests : pc[r] = "locked" /\ pc[s] = "locked" => r = s

RequestInv ==
    /\ RequestTypes /\ DOMAIN call = Requests
    /\ \A r \in Requests : Stands(r)
    /\ OneLocked

IInv == SessionTypes /\ MessageInv /\ RequestInv

-----------------------------------------------------------------------------
(* Facts about the sets that are counted. *)

LEMMA AnswersFinite ==
    ASSUME NEW S, S \subseteq Answers
    PROVE  IsFiniteSet(S) /\ Cardinality(S) \in Nat
<1>1. IsFiniteSet(Answers) BY FS_Interval DEF Answers
<1> QED BY <1>1, FS_Subset, FS_CardinalityType

LEMMA PendingFinite == IsFiniteSet(Pending) /\ Cardinality(Pending) \in Nat
BY AnswersFinite DEF Pending

LEMMA FirstUnused ==
    ASSUME MessageTypes, AnswersInOrder, Unused # {}
    PROVE  \E n \in 0 .. MaxAnswers :
               /\ First(Unused) = n + 1 /\ n + 1 \in Answers
               /\ \A a \in Answers : answers[a].status = "none" <=> a > n
<1>1. PICK n \in 0 .. MaxAnswers :
          \A a \in Answers : answers[a].status = "none" <=> a > n
  BY DEF AnswersInOrder
<1>2. n + 1 \in Unused /\ \A b \in Unused : b \in Nat /\ n + 1 <= b
  BY <1>1 DEF Unused, Answers
<1>3. First(Unused) \in Unused /\ \A b \in Unused : First(Unused) <= b
  BY <1>2 DEF First
<1>4. First(Unused) = n + 1 BY <1>2, <1>3
<1> QED BY <1>1, <1>2, <1>4 DEF Unused

-----------------------------------------------------------------------------
(* Steps that store nothing. *)

LEMMA MessagesStay ==
    ASSUME MessageInv, UNCHANGED <<of, answers, stored, count>>
    PROVE  MessageInv'
BY DEF MessageInv, MessageTypes, AnswersInOrder, UnusedIsEmpty, KeysStored,
       OneAnswerPerKey, CountMatchesMessages, InSession, ActiveWithinLimit, Pending

(* A request that does not move still stands. *)
LEMMA OthersStand ==
    ASSUME UNCHANGED <<of, answers, count>>, NEW r \in Requests,
           Stands(r), pc'[r] = pc[r], call'[r] = call[r],
           pc[r] = "locked" => status'[call[r].session] = status[call[r].session]
    PROVE  Stands(r)'
BY DEF Stands, AskStands, LockStands, AnswerStands, Pending

(* Steps of the sessions, the clock and the maintenance. *)
LEMMA QuietStep ==
    ASSUME IInv, UNCHANGED <<of, answers, count, stored, pc, call>>,
           SessionTypes', cooling' \subseteq cooling,
           used' \in 0 .. RateLimit, faults' \in 0 .. MaxFaults,
           \A r \in Requests : pc[r] = "locked" =>
               status'[call[r].session] = status[call[r].session]
    PROVE  IInv'
<1>1. MessageInv' BY MessagesStay DEF IInv
<1>2. \A r \in Requests : Stands(r)' BY OthersStand DEF IInv, RequestInv
<1>3. RequestInv' BY <1>2 DEF IInv, RequestInv, RequestTypes, OneLocked
<1> QED BY <1>1, <1>3 DEF IInv

LEMMA GoEffect ==
    ASSUME RequestInv, NEW r \in Requests, NEW c, NEW s \in Steps, Go(r, s, c)
    PROVE  /\ pc' \in [Requests -> Steps] /\ DOMAIN call' = Requests
           /\ pc'[r] = s /\ call'[r] = c
           /\ \A g \in Requests \ {r} : pc'[g] = pc[g] /\ call'[g] = call[g]
           /\ (s = "locked" => UserFree) => OneLocked'
BY DEF RequestInv, RequestTypes, Go, OneLocked, UserFree

(* One request moves and changes only itself, or the counter of the minute. *)
LEMMA MoveStep ==
    ASSUME IInv, NEW r \in Requests, NEW c, NEW s \in Steps, Go(r, s, c),
           UNCHANGED <<sessionVars, messageVars, selected>>,
           used' \in 0 .. RateLimit, faults' \in 0 .. MaxFaults,
           s = "locked" => UserFree, Stands(r)'
    PROVE  IInv'
<1>0. RequestInv BY DEF IInv
<1>1. MessageInv' BY MessagesStay DEF IInv, sessionVars, messageVars
<1>2. SessionTypes' BY DEF IInv, SessionTypes, sessionVars
<1>3. /\ pc' \in [Requests -> Steps] /\ DOMAIN call' = Requests
      /\ \A g \in Requests \ {r} : pc'[g] = pc[g] /\ call'[g] = call[g]
      /\ OneLocked'
  BY <1>0, GoEffect
<1>4. ASSUME NEW g \in Requests, g # r PROVE Stands(g)'
  BY <1>0, <1>3, <1>4, OthersStand DEF RequestInv, sessionVars, messageVars
<1>5. RequestTypes' BY <1>0, <1>3 DEF RequestInv, RequestTypes, messageVars
<1>6. RequestInv' BY <1>3, <1>4, <1>5 DEF RequestInv
<1> QED BY <1>1, <1>2, <1>6 DEF IInv

-----------------------------------------------------------------------------
(* The steps of sessions, clock and maintenance. *)

LEMMA InitInv == Init => IInv
<1> SUFFICES ASSUME Init PROVE IInv
  OBVIOUS
<1> USE DEF Init
<1>1. SessionTypes BY DEF SessionTypes
<1>2. /\ of = [m \in Messages |-> None]
      /\ \A a \in Answers : answers[a].to = None /\ answers[a].status = "none"
      /\ answers \in [Answers -> [to : Messages \cup {None}, status : States]]
  BY DEF NoAnswer, States
<1>3. MessageTypes BY <1>2 DEF MessageTypes, Keys
<1>4. AnswersInOrder
  <2>1. 0 \in 0 .. MaxAnswers /\ \A a \in Answers : a > 0 BY DEF Answers
  <2> QED BY <1>2, <2>1 DEF AnswersInOrder
<1>5. UnusedIsEmpty /\ KeysStored /\ OneAnswerPerKey
  BY <1>2 DEF UnusedIsEmpty, KeysStored, OneAnswerPerKey, Keys
<1>6. CountMatchesMessages
  <2>1. ASSUME NEW s \in Sessions
        PROVE  InSession(s) = {} /\ {a \in Answers : answers[a].to \in InSession(s)} = {}
    BY <1>2 DEF InSession
  <2>2. \A s \in Sessions : count[s] = 0 OBVIOUS
  <2>3. Cardinality({}) = 0 BY FS_EmptySet
  <2>4. ASSUME NEW s \in Sessions
        PROVE  count[s] = Cardinality(InSession(s))
                   + Cardinality({a \in Answers : answers[a].to \in InSession(s)})
    <3> HIDE DEF Init
    <3>1. /\ Cardinality(InSession(s)) = 0
          /\ Cardinality({a \in Answers : answers[a].to \in InSession(s)}) = 0
      BY <2>1, <2>3
    <3> QED BY <2>2, <3>1
  <2> HIDE DEF Init
  <2> QED BY <2>4 DEF CountMatchesMessages
<1>7. ActiveWithinLimit
  <2>1. Pending = {} BY <1>2 DEF Pending
  <2> QED BY <2>1, FS_EmptySet DEF ActiveWithinLimit
<1>8. RequestInv
  BY DEF RequestInv, RequestTypes, Stands, OneLocked, Steps
<1> QED BY <1>1, <1>3, <1>4, <1>5, <1>6, <1>7, <1>8 DEF IInv, MessageInv

LEMMA SessionStep ==
    ASSUME IInv, NEW s \in Sessions, CreateSession(s) \/ CloseSession(s) \/ GrowIdle(s)
    PROVE  IInv'
<1> USE DEF messageVars, requestVars
<1>0. RequestInv /\ SessionTypes BY DEF IInv
<1>1. CASE CreateSession(s)
  <2>1. SessionTypes' BY <1>0, <1>1 DEF CreateSession, SessionTypes
  <2>2. \A r \in Requests : pc[r] = "locked" =>
            status'[call[r].session] = status[call[r].session]
    BY <1>0, <1>1 DEF CreateSession, RequestInv, Stands, LockStands, AskStands, SessionTypes
  <2> QED BY <1>0, <1>1, <2>1, <2>2, QuietStep DEF CreateSession, RequestInv, RequestTypes
<1>2. CASE CloseSession(s)
  <2>1. SessionTypes' BY <1>0, <1>2 DEF CloseSession, SessionTypes
  <2>2. \A r \in Requests : pc[r] = "locked" =>
            status'[call[r].session] = status[call[r].session]
    BY <1>0, <1>2 DEF CloseSession, SessionFree, RequestInv, Stands, AskStands, SessionTypes
  <2> QED BY <1>0, <1>2, <2>1, <2>2, QuietStep DEF CloseSession, RequestInv, RequestTypes
<1>3. CASE GrowIdle(s)
  <2>1. SessionTypes' BY <1>0, <1>3 DEF GrowIdle, SessionTypes
  <2> QED BY <1>0, <1>3, <2>1, QuietStep DEF GrowIdle, RequestInv, RequestTypes
<1> QED BY <1>1, <1>2, <1>3

LEMMA MaintenanceStep ==
    ASSUME IInv, SelectInactive \/ CloseInactive \/ NextMinute PROVE IInv'
<1> USE DEF messageVars, requestVars, sessionVars
<1>0. RequestInv /\ SessionTypes BY DEF IInv
<1>1. CASE SelectInactive
  <2>1. SessionTypes' BY <1>0, <1>1 DEF SelectInactive, Expired, SessionTypes
  <2> QED BY <1>0, <1>1, <2>1, QuietStep DEF SelectInactive, RequestInv, RequestTypes
<1>2. CASE CloseInactive
  <2>1. SessionTypes' BY <1>0, <1>2 DEF CloseInactive, SessionTypes
  <2>2. \A r \in Requests : pc[r] = "locked" =>
            status'[call[r].session] = status[call[r].session]
    BY <1>0, <1>2
    DEF CloseInactive, StillInactive, SessionFree, RequestInv, Stands, AskStands, SessionTypes
  <2> QED BY <1>0, <1>2, <2>1, <2>2, QuietStep DEF CloseInactive, RequestInv, RequestTypes
<1>3. CASE NextMinute
  <2>1. SessionTypes' BY <1>0, <1>3 DEF NextMinute, SessionTypes
  <2> QED BY <1>0, <1>3, <2>1, QuietStep DEF NextMinute, RequestInv, RequestTypes
<1> QED BY <1>1, <1>2, <1>3

LEMMA CoolStep == ASSUME IInv, NEW m \in Messages, Cool(m) PROVE IInv'
<1>1. SessionTypes' BY DEF IInv, Cool, SessionTypes, sessionVars
<1> QED BY <1>1, QuietStep DEF Cool, IInv, RequestInv, RequestTypes, sessionVars, requestVars

-----------------------------------------------------------------------------
(* The steps of a request that store no answer. *)

LEMMA AskStep ==
    ASSUME IInv, NEW r \in Requests, NEW m \in Messages,
           \/ \E s \in Sessions : Send(r, m, s)
           \/ \E t \in Tokens : Retry(r, m, t)
    PROVE  IInv'
<1>0. RequestInv BY DEF IInv
<1>1. ASSUME NEW c, Go(r, "asked", c),
             c.message \in Messages /\ c.session \in Sessions /\ c.key \in Keys,
             c.key \in Messages => c.key = c.message,
             c.key \in Tokens => of[c.message] = c.session,
             UNCHANGED <<sessionVars, messageVars, used, selected, faults>>
      PROVE  IInv'
  <2>1. "asked" \in Steps BY DEF Steps
  <2>2. pc'[r] = "asked" /\ call'[r] = c BY <1>0, <1>1, <2>1, GoEffect
  <2>3. Stands(r)' BY <1>1, <2>2 DEF Stands, AskStands, messageVars
  <2> QED BY <1>0, <1>1, <2>1, <2>3, MoveStep DEF RequestInv, RequestTypes
<1>2. ASSUME NEW s \in Sessions, Send(r, m, s) PROVE IInv'
  <2> DEFINE c == [message |-> m, session |-> s, key |-> m]
  <2>1. c.message = m /\ c.session = s /\ c.key = m OBVIOUS
  <2>2. Go(r, "asked", c) BY <1>2 DEF Send
  <2> HIDE DEF c
  <2> QED BY <1>1, <1>2, <2>1, <2>2 DEF Send, Keys
<1>3. ASSUME NEW t \in Tokens, Retry(r, m, t) PROVE IInv'
  <2> DEFINE c == [message |-> m, session |-> of[m], key |-> t]
  <2>1. c.message = m /\ c.session = of[m] /\ c.key = t OBVIOUS
  <2>2. Go(r, "asked", c) BY <1>3 DEF Retry
  <2>3. of[m] \in Sessions BY <1>3 DEF Retry, IInv, MessageInv, MessageTypes
  <2> HIDE DEF c
  <2> QED BY <1>1, <1>3, <2>1, <2>2, <2>3 DEF Retry, Keys
<1> QED BY <1>2, <1>3

LEMMA LockStep == ASSUME IInv, NEW r \in Requests, Lock(r) PROVE IInv'
<1>0. RequestInv BY DEF IInv
<1> DEFINE c == call[r]
           d == [message |-> c.message, session |-> c.session, key |-> c.key,
                 count |-> count[c.session], active |-> Cardinality(Pending)]
<1>1. /\ pc[r] = "asked" /\ UserFree
      /\ UNCHANGED <<sessionVars, messageVars, used, selected, faults>>
  BY DEF Lock
<1>2. AskStands(r) BY <1>0, <1>1 DEF RequestInv, Stands
<1>3. used' \in 0 .. RateLimit /\ faults' \in 0 .. MaxFaults
  BY <1>0, <1>1 DEF RequestInv, RequestTypes
<1>4. CASE End(r)
  <2>1. "idle" \in Steps BY DEF Steps
  <2>2. pc'[r] = "idle" BY <1>0, <1>4, <2>1, GoEffect DEF End
  <2>3. Stands(r)' BY <2>2 DEF Stands
  <2> QED BY <1>0, <1>1, <1>3, <1>4, <2>1, <2>3, MoveStep DEF End
<1>5. CASE status[c.session] = "open" /\ Go(r, "locked", d)
  <2>1. "locked" \in Steps BY DEF Steps
  <2>2. pc'[r] = "locked" /\ call'[r] = d BY <1>0, <1>5, <2>1, GoEffect
  <2>3. /\ d.message = c.message /\ d.session = c.session /\ d.key = c.key
        /\ d.count = count[c.session] /\ d.active = Cardinality(Pending)
    OBVIOUS
  <2> HIDE DEF d
  <2>4. AskStands(r)' BY <1>1, <1>2, <2>2, <2>3 DEF AskStands, messageVars
  <2>5. Pending' = Pending BY <1>1 DEF Pending, messageVars
  <2>6. LockStands(r)'
    BY <1>1, <1>5, <2>2, <2>3, <2>5, PendingFinite DEF LockStands, sessionVars
  <2>7. Stands(r)' BY <2>2, <2>4, <2>6 DEF Stands
  <2> QED BY <1>0, <1>1, <1>3, <1>5, <2>1, <2>7, MoveStep
<1> QED BY <1>4, <1>5 DEF Lock

LEMMA DiesStep == ASSUME IInv, NEW r \in Requests, Dies(r) PROVE IInv'
<1>0. RequestInv BY DEF IInv
<1>1. "idle" \in Steps BY DEF Steps
<1>2. pc'[r] = "idle" BY <1>0, <1>1, GoEffect DEF Dies, End
<1>3. Stands(r)' BY <1>2 DEF Stands
<1>4. used' \in 0 .. RateLimit /\ faults' \in 0 .. MaxFaults
  BY <1>0 DEF Dies, RequestInv, RequestTypes
<1> QED BY <1>1, <1>3, <1>4, MoveStep DEF Dies, End

(* An answer that is settled is no longer pending, and another one does    *)
(* not become so.                                                          *)
LEMMA MarkStep ==
    ASSUME IInv, NEW r \in Requests, pc[r] \in {"generate", "call"},
           NEW x \in {"success", "timeout", "failed"}, Mark(r, x),
           UNCHANGED <<status, count, of, cooling, stored, used, selected, faults>>
    PROVE  IInv'
<1> DEFINE a == call[r].answer
<1>0. RequestInv /\ MessageInv /\ MessageTypes BY DEF IInv, MessageInv
<1>1. a \in Answers /\ answers[a].status # "none"
  BY <1>0 DEF RequestInv, Stands, AnswerStands
<1>2. /\ answers' = [answers EXCEPT ![a].status = x]
      /\ idle' \subseteq idle /\ Go(r, "idle", None)
  BY DEF Mark, End
<1> HIDE DEF a
<1>3. /\ answers' \in [Answers -> [to : Messages \cup {None}, status : States]]
      /\ \A b \in Answers :
             /\ answers'[b].to = answers[b].to
             /\ answers'[b].status = IF b = a THEN x ELSE answers[b].status
  BY <1>0, <1>1, <1>2 DEF MessageTypes, States
<1>4. Cardinality(Pending') <= Cardinality(Pending) /\ Cardinality(Pending') \in Nat
  <2>1. Pending' \subseteq Pending BY <1>3 DEF Pending
  <2>2. Pending' \subseteq Answers BY DEF Pending, Answers
  <2> QED BY <2>1, <2>2, PendingFinite, FS_Subset, AnswersFinite
<1>5. MessageInv'
  <2>1. MessageTypes' BY <1>0, <1>3 DEF MessageTypes
  <2>2. AnswersInOrder' /\ UnusedIsEmpty'
    BY <1>0, <1>1, <1>3 DEF MessageInv, AnswersInOrder, UnusedIsEmpty, Answers
  <2>3. KeysStored' /\ OneAnswerPerKey'
    BY <1>0 DEF MessageInv, KeysStored, OneAnswerPerKey
  <2>4. CountMatchesMessages'
    <3>1. ASSUME NEW s \in Sessions
          PROVE  /\ InSession(s)' = InSession(s)
                 /\ {b \in Answers : answers'[b].to \in InSession(s)'}
                        = {b \in Answers : answers[b].to \in InSession(s)}
      BY <1>3 DEF InSession
    <3> QED BY <1>0, <3>1 DEF MessageInv, CountMatchesMessages, Answers
  <2>5. ActiveWithinLimit'
    BY <1>0, <1>4, PendingFinite DEF MessageInv, ActiveWithinLimit
  <2> QED BY <2>1, <2>2, <2>3, <2>4, <2>5 DEF MessageInv
<1>6. SessionTypes' BY <1>2 DEF IInv, SessionTypes
<1>7. /\ pc' \in [Requests -> Steps] /\ DOMAIN call' = Requests /\ pc'[r] = "idle"
      /\ \A g \in Requests \ {r} : pc'[g] = pc[g] /\ call'[g] = call[g]
      /\ OneLocked'
  <2>1. "idle" \in Steps BY DEF Steps
  <2> QED BY <1>0, <1>2, <2>1, GoEffect
<1>8. ASSUME NEW g \in Requests, g # r PROVE Stands(g)'
  <2>1. Stands(g) /\ pc'[g] = pc[g] /\ call'[g] = call[g]
    BY <1>0, <1>7, <1>8 DEF RequestInv
  <2>2. AskStands(g) => AskStands(g)' BY <2>1 DEF AskStands
  <2>3. LockStands(g) => LockStands(g)'
    BY <1>4, <2>1, PendingFinite DEF LockStands
  <2>4. AnswerStands(g) => AnswerStands(g)'
    BY <1>1, <1>3, <2>1 DEF AnswerStands, Answers
  <2> QED BY <2>1, <2>2, <2>3, <2>4 DEF Stands
<1>9. RequestInv'
  <2>1. Stands(r)' BY <1>7 DEF Stands
  <2> QED BY <1>0, <1>7, <1>8, <2>1 DEF RequestInv, RequestTypes
<1> QED BY <1>5, <1>6, <1>9 DEF IInv

LEMMA GenerateStep ==
    ASSUME IInv, NEW r \in Requests, Consume(r) \/ Answer(r) PROVE IInv'
<1>0. RequestInv BY DEF IInv
<1>1. CASE Consume(r) /\ Allowed
  <2>1. /\ pc[r] = "generate" /\ used' = used + 1 /\ Go(r, "call", call[r])
        /\ UNCHANGED <<sessionVars, messageVars, selected, faults>>
    BY <1>1 DEF Consume, sessionVars, messageVars
  <2>2. used' \in 0 .. RateLimit /\ faults' \in 0 .. MaxFaults
    BY <1>0, <1>1, <2>1 DEF Allowed, RequestInv, RequestTypes
  <2>3. "call" \in Steps BY DEF Steps
  <2>4. pc'[r] = "call" /\ call'[r] = call[r] BY <1>0, <2>1, <2>3, GoEffect
  <2>5. Stands(r)'
    BY <1>0, <2>1, <2>4 DEF RequestInv, Stands, AnswerStands, messageVars
  <2> QED BY <2>1, <2>2, <2>3, <2>5, MoveStep
<1>2. CASE Consume(r) /\ ~Allowed BY <1>2, MarkStep DEF Consume
<1>3. CASE Answer(r) BY <1>3, MarkStep DEF Answer
<1> QED BY <1>1, <1>2, <1>3

-----------------------------------------------------------------------------
(* The step that stores. *)

(* A new answer a to m, with m stored before or with it, keeps the counter. *)
LEMMA CountStep ==
    ASSUME MessageInv, NEW m \in Messages, NEW s \in Sessions, NEW a \in Answers,
           answers[a].status = "none", of[m] \in {None, s},
           of' = [of EXCEPT ![m] = s],
           \A b \in Answers : answers'[b].to = IF b = a THEN m ELSE answers[b].to,
           count' = [count EXCEPT ![s] = count[s] + IF of[m] = None THEN 2 ELSE 1],
           count \in [Sessions -> Nat]
    PROVE  CountMatchesMessages'
<1> DEFINE To(x) == {b \in Answers : answers[b].to \in InSession(x)}
<1>0. /\ of \in [Messages -> Sessions \cup {None}]
      /\ \A b \in Answers : answers[b].to # None => of[answers[b].to] # None
      /\ answers[a].to = None
      /\ \A b \in Answers : answers[b].to \in Messages \cup {None}
  BY DEF MessageInv, MessageTypes, UnusedIsEmpty
<1>1. s # None /\ m # None BY DEF Keys
<1>2. ASSUME NEW x \in Sessions
      PROVE  /\ IsFiniteSet(InSession(x)) /\ Cardinality(InSession(x)) \in Nat
             /\ IsFiniteSet(To(x)) /\ Cardinality(To(x)) \in Nat
             /\ count[x] = Cardinality(InSession(x)) + Cardinality(To(x))
  <2>1. InSession(x) \subseteq Messages BY DEF InSession
  <2>2. IsFiniteSet(InSession(x)) BY <2>1, FS_Subset
  <2>3. Cardinality(InSession(x)) \in Nat BY <2>2, FS_CardinalityType
  <2>4. To(x) \subseteq Answers BY DEF Answers
  <2>5. IsFiniteSet(To(x)) /\ Cardinality(To(x)) \in Nat BY <2>4, AnswersFinite
  <2> QED BY <2>2, <2>3, <2>5 DEF MessageInv, CountMatchesMessages
<1>3. ASSUME NEW x \in Sessions, x # s
      PROVE  InSession(x)' = InSession(x) /\ To(x)' = To(x) /\ count'[x] = count[x]
  <2>1. InSession(x)' = InSession(x) BY <1>0, <1>1, <1>3 DEF InSession
  <2>2. m \notin InSession(x) /\ None \notin InSession(x)
    BY <1>1, <1>3 DEF InSession, Keys
  <2>3. \A b \in Answers : answers'[b].to \in InSession(x) <=> answers[b].to \in InSession(x)
    BY <1>0, <2>2
  <2>4. To(x)' = To(x) BY <2>1, <2>3 DEF Answers
  <2> QED BY <1>3, <2>1, <2>4
<1>4. InSession(s)' = InSession(s) \cup {m} BY <1>0 DEF InSession
<1>5. To(s)' = To(s) \cup {a}
  <2>1. m \in InSession(s)' BY <1>4
  <2>2. \A b \in Answers : b # a => answers'[b].to = answers[b].to OBVIOUS
  <2>3. \A b \in Answers : answers[b].to # m \/ of[m] = s
    BY <1>0, <1>1
  <2>4. \A b \in Answers : b # a =>
            (answers[b].to \in InSession(s)' <=> answers[b].to \in InSession(s))
    BY <1>4, <2>3 DEF InSession
  <2> QED BY <2>1, <2>2, <2>4, <1>4 DEF Answers
<1>6. a \notin To(s) BY <1>0 DEF InSession, Keys
<1>7. m \in InSession(s) <=> of[m] # None BY <1>1 DEF InSession
<1>8. Cardinality(To(s)') = Cardinality(To(s)) + 1 BY <1>2, <1>5, <1>6, FS_AddElement
<1>9. Cardinality(InSession(s)') =
          IF of[m] = None THEN Cardinality(InSession(s)) + 1 ELSE Cardinality(InSession(s))
  BY <1>2, <1>4, <1>7, FS_AddElement
<1>10. count'[s] = Cardinality(InSession(s)') + Cardinality(To(s)')
  BY <1>2, <1>8, <1>9
<1>11. \A x \in Sessions : count'[x] = Cardinality(InSession(x)') + Cardinality(To(x)')
  BY <1>2, <1>3, <1>10
<1> QED BY <1>11 DEF CountMatchesMessages, Answers

LEMMA StoreStep == ASSUME IInv, NEW r \in Requests, Store(r) PROVE IInv'
<1> DEFINE c == call[r]
           k == c.key
           m == c.message
           s == c.session
           a == First(Unused)
           x == IF Full(c.active) THEN "failed" ELSE "pending"
           n == [to |-> m, status |-> x]
<1>0. RequestInv /\ MessageInv /\ MessageTypes /\ SessionTypes BY DEF IInv, MessageInv
<1>1. pc[r] = "locked" /\ UNCHANGED <<status, used, selected, faults>> BY DEF Store
<1>2. AskStands(r) /\ LockStands(r) BY <1>0, <1>1 DEF RequestInv, Stands
<1>3. CASE ~Fits(k)
  <2>1. End(r) /\ UNCHANGED <<idle, count, messageVars>> BY <1>3 DEF Store
  <2>2. "idle" \in Steps BY DEF Steps
  <2>3. pc'[r] = "idle" BY <1>0, <2>1, <2>2, GoEffect DEF End
  <2>4. Stands(r)' BY <2>3 DEF Stands
  <2>5. used' \in 0 .. RateLimit /\ faults' \in 0 .. MaxFaults
    BY <1>0, <1>1 DEF RequestInv, RequestTypes
  <2> QED BY <1>1, <2>1, <2>2, <2>4, <2>5, MoveStep DEF End, sessionVars
<1>4. CASE Fits(k)
  <2>1. /\ Unused # {}
        /\ of' = [of EXCEPT ![m] = s]
        /\ answers' = [answers EXCEPT ![a] = n]
        /\ cooling' = cooling \cup {m}
        /\ stored' = [stored EXCEPT ![k] = @ + 1]
        /\ count' = [count EXCEPT ![s] = c.count + Added(k)]
        /\ idle' \subseteq idle
        /\ IF Full(c.active) THEN End(r) ELSE Go(r, "generate", [answer |-> a])
    BY <1>4 DEF Store
  <2>2. /\ m \in Messages /\ s \in Sessions /\ k \in Keys
        /\ k \in Messages => k = m
        /\ k \in Tokens => of[m] = s
        /\ status[s] = "open" /\ c.count = count[s]
        /\ c.active \in Nat /\ Cardinality(Pending) <= c.active
    BY <1>2 DEF AskStands, LockStands
  <2>3. stored[k] = 0 BY <1>4 DEF Fits
  <2>4. of[m] = IF k \in Messages THEN None ELSE s
    BY <1>0, <2>2, <2>3 DEF MessageInv, KeysStored, Keys
  <2>5. PICK i \in 0 .. MaxAnswers :
            /\ a = i + 1 /\ i + 1 \in Answers
            /\ \A b \in Answers : answers[b].status = "none" <=> b > i
    BY <1>0, <2>1, FirstUnused DEF MessageInv
  <2>6. x \in {"failed", "pending"} /\ n.to = m /\ n.status = x
    OBVIOUS
  <2>7. s # None /\ m # None BY <2>2 DEF Keys
  <2>8. a \in Answers /\ answers[a].status = "none" BY <2>5 DEF Answers
  <2> HIDE DEF c, k, m, s, a, x, n
  <2>9. /\ \A b \in Answers : answers'[b] = IF b = a THEN n ELSE answers[b]
        /\ answers' \in [Answers -> [to : Messages \cup {None}, status : States]]
    <3>1. n \in [to : Messages \cup {None}, status : States]
      BY <2>2, <2>6 DEF n, States
    <3> QED BY <1>0, <2>1, <2>8, <3>1 DEF MessageTypes
  <2>10. MessageTypes'
    <3>1. of' \in [Messages -> Sessions \cup {None}] /\ stored' \in [Keys -> Nat]
      BY <1>0, <2>1, <2>2 DEF MessageTypes
    <3>2. \A b \in Answers : answers'[b].to # None => of'[answers'[b].to] # None
      BY <1>0, <2>1, <2>2, <2>6, <2>7, <2>9 DEF MessageTypes
    <3> QED BY <2>9, <3>1, <3>2 DEF MessageTypes
  <2>11. AnswersInOrder'
    <3>1. i + 1 \in 0 .. MaxAnswers BY <2>5 DEF Answers
    <3>2. \A b \in Answers : answers'[b].status = "none" <=> b > i + 1
      BY <2>5, <2>6, <2>9 DEF Answers
    <3> QED BY <3>1, <3>2 DEF AnswersInOrder, Answers
  <2>12. UnusedIsEmpty'
    BY <1>0, <2>6, <2>7, <2>9 DEF MessageInv, UnusedIsEmpty, Answers
  <2>13. KeysStored' /\ OneAnswerPerKey'
    <3>1. \A j \in Keys : stored'[j] = IF j = k THEN 1 ELSE stored[j]
      BY <1>0, <2>1, <2>2, <2>3 DEF MessageTypes
    <3>2. OneAnswerPerKey' BY <1>0, <3>1 DEF MessageInv, OneAnswerPerKey, Keys
    <3>3. ASSUME NEW j \in Messages PROVE of'[j] = None <=> stored'[j] = 0
      <4>1. j \in Keys BY DEF Keys
      <4>2. of'[j] = IF j = m THEN s ELSE of[j] BY <1>0, <2>1, <2>2 DEF MessageTypes
      <4>3. of[j] = None <=> stored[j] = 0 BY <1>0 DEF MessageInv, KeysStored
      <4>4. j = k => j = m BY <2>2
      <4>5. j = m /\ j # k => of[j] # None BY <2>2, <2>4, <2>7 DEF Keys
      <4> QED BY <2>7, <3>1, <4>1, <4>2, <4>3, <4>4, <4>5
    <3> QED BY <3>2, <3>3 DEF KeysStored
  <2>14. CountMatchesMessages'
    <3>1. Added(k) = IF of[m] = None THEN 2 ELSE 1
      BY <2>4, <2>7 DEF Added
    <3>2. of[m] \in {None, s} BY <2>4
    <3>3. \A b \in Answers : answers'[b].to = IF b = a THEN m ELSE answers[b].to
      BY <2>6, <2>9
    <3>4. count' = [count EXCEPT ![s] = count[s] + IF of[m] = None THEN 2 ELSE 1]
      BY <2>1, <2>2, <3>1
    <3>5. count \in [Sessions -> Nat] BY <1>0 DEF SessionTypes
    <3> QED BY <1>0, <2>1, <2>2, <2>8, <3>2, <3>3, <3>4, <3>5, CountStep
  <2>15. /\ Cardinality(Pending') \in Nat
         /\ Full(c.active) => Cardinality(Pending') = Cardinality(Pending)
         /\ ~Full(c.active) => Cardinality(Pending') = Cardinality(Pending) + 1
    <3>1. a \notin Pending BY <2>8 DEF Pending
    <3>2. CASE Full(c.active)
      <4>1. x = "failed" BY <3>2 DEF x
      <4>2. Pending' = Pending BY <2>6, <2>8, <2>9, <4>1 DEF Pending, Answers
      <4> QED BY <3>2, <4>2, PendingFinite
    <3>3. CASE ~Full(c.active)
      <4>1. x = "pending" BY <3>3 DEF x
      <4>2. Pending' = Pending \cup {a}
        BY <2>6, <2>8, <2>9, <4>1 DEF Pending, Answers
      <4>3. Cardinality(Pending \cup {a}) = Cardinality(Pending) + 1
        BY <3>1, PendingFinite, FS_AddElement
      <4> QED BY <3>3, <4>2, <4>3, PendingFinite
    <3> QED BY <3>2, <3>3
  <2>16. ActiveWithinLimit'
    BY <1>0, <2>2, <2>15, PendingFinite DEF MessageInv, ActiveWithinLimit, Full
  <2>17. MessageInv'
    BY <2>10, <2>11, <2>12, <2>13, <2>14, <2>16 DEF MessageInv
  <2>18. SessionTypes'
    <3>1. Added(k) \in Nat BY DEF Added
    <3>2. count' \in [Sessions -> Nat] BY <1>0, <2>1, <2>2, <3>1 DEF SessionTypes
    <3> QED BY <1>0, <1>1, <2>1, <3>2 DEF SessionTypes
  <2>19. /\ pc' \in [Requests -> Steps] /\ DOMAIN call' = Requests
         /\ pc'[r] \in {"idle", "generate"}
         /\ pc'[r] = "generate" => call'[r].answer = a
         /\ \A g \in Requests \ {r} : pc'[g] = pc[g] /\ call'[g] = call[g]
         /\ OneLocked'
    <3>1. CASE Go(r, "generate", [answer |-> a])
      <4>1. "generate" \in Steps BY DEF Steps
      <4> QED BY <1>0, <3>1, <4>1, GoEffect
    <3>2. CASE End(r)
      <4>1. "idle" \in Steps BY DEF Steps
      <4> QED BY <1>0, <3>2, <4>1, GoEffect DEF End
    <3> QED BY <2>1, <3>1, <3>2
  <2>20. Stands(r)'
    BY <2>6, <2>8, <2>9, <2>19 DEF Stands, AnswerStands, Answers
  <2>21. ASSUME NEW g \in Requests, g # r PROVE Stands(g)'
    <3>1. Stands(g) /\ pc'[g] = pc[g] /\ call'[g] = call[g] /\ pc[g] # "locked"
      BY <1>0, <1>1, <2>19, <2>21 DEF RequestInv, OneLocked
    <3>2. AskStands(g) => AskStands(g)'
      <4>1. ASSUME NEW j \in Messages, of[j] \in Sessions PROVE of'[j] = of[j]
        BY <1>0, <2>1, <2>2, <2>4, <2>7, <4>1 DEF MessageTypes, Keys
      <4> QED BY <3>1, <4>1 DEF AskStands
    <3>3. AnswerStands(g) => AnswerStands(g)'
      BY <2>6, <2>8, <2>9, <3>1 DEF AnswerStands, Answers
    <3> QED BY <3>1, <3>2, <3>3 DEF Stands
  <2>22. RequestTypes'
    <3>1. cooling' \subseteq {j \in Messages : of'[j] # None}
      BY <1>0, <2>1, <2>2, <2>7 DEF RequestInv, RequestTypes, MessageTypes
    <3> QED BY <1>0, <1>1, <2>19, <3>1 DEF RequestInv, RequestTypes
  <2>23. RequestInv' BY <2>19, <2>20, <2>21, <2>22 DEF RequestInv
  <2> QED BY <2>17, <2>18, <2>23 DEF IInv
<1> QED BY <1>3, <1>4

-----------------------------------------------------------------------------
(* The theorems. *)

LEMMA InductiveStep == IInv /\ [Next]_vars => IInv'
<1> SUFFICES ASSUME IInv, [Next]_vars PROVE IInv'
  OBVIOUS
<1>1. ASSUME NEW r \in Requests, Handler(r) PROVE IInv'
  BY <1>1, AskStep, LockStep, StoreStep, GenerateStep, DiesStep DEF Handler
<1>2. ASSUME NEW s \in Sessions, CreateSession(s) \/ CloseSession(s) \/ GrowIdle(s)
      PROVE  IInv'
  BY <1>2, SessionStep
<1>3. ASSUME NEW m \in Messages, Cool(m) PROVE IInv' BY <1>3, CoolStep
<1>4. CASE SelectInactive \/ CloseInactive \/ NextMinute BY <1>4, MaintenanceStep
<1>5. CASE UNCHANGED vars
  <2>1. SessionTypes' BY <1>5 DEF IInv, SessionTypes, vars, sessionVars
  <2> QED
    BY <1>5, <2>1, QuietStep
    DEF vars, sessionVars, messageVars, requestVars, IInv, RequestInv, RequestTypes
<1> QED BY <1>1, <1>2, <1>3, <1>4, <1>5 DEF Next

LEMMA Inductive == Spec => []IInv
BY InitInv, InductiveStep, PTL DEF Spec

(* However many requests overlap in send_chat_message, retry_chat_message  *)
(* and _generate_answer: message_count is the number of messages, and a    *)
(* client_message_id or a retry_token brings one answer.                   *)
THEOREM Invariance == Spec => []Inv
<1>1. IInv => Inv BY TypeParts DEF IInv, Inv, MessageInv, RequestInv
<1> QED BY <1>1, Inductive, PTL

(* The user has at most ActiveLimit answers under way, in all sessions     *)
(* together: _active_requests is counted under the lock of the user, and   *)
(* what happens between the count and the commit only lowers it.           *)
THEOREM LimitHolds == Spec => []ActiveWithinLimit
<1>1. IInv => ActiveWithinLimit BY DEF IInv, MessageInv
<1> QED BY <1>1, Inductive, PTL

(* A step of a closed session leaves it closed with its messages. *)
LEMMA ClosedStays ==
    ASSUME IInv, [Next]_vars, NEW s \in Sessions, status[s] = "closed"
    PROVE  status'[s] = "closed" /\ count'[s] = count[s]
<1>0. RequestInv /\ SessionTypes BY DEF IInv
<1> USE DEF sessionVars
<1>1. ASSUME NEW r \in Requests, Store(r)
      PROVE  status'[s] = "closed" /\ count'[s] = count[s]
  <2>1. status[call[r].session] = "open"
    BY <1>0, <1>1 DEF Store, RequestInv, Stands, LockStands
  <2>2. \/ count' = count
        \/ count' = [count EXCEPT ![call[r].session] =
                         call[r].count + Added(call[r].key)]
    BY <1>1 DEF Store
  <2> QED BY <1>0, <1>1, <2>1, <2>2 DEF Store, SessionTypes
<1>2. ASSUME NEW r \in Requests, Handler(r), ~Store(r)
      PROVE  status'[s] = "closed" /\ count'[s] = count[s]
  BY <1>2 DEF Handler, Send, Retry, Lock, Consume, Answer, Dies
<1>3. ASSUME NEW t \in Sessions, CreateSession(t) \/ CloseSession(t) \/ GrowIdle(t)
      PROVE  status'[s] = "closed" /\ count'[s] = count[s]
  BY <1>0, <1>3 DEF CreateSession, CloseSession, GrowIdle, SessionTypes
<1>4. CASE SelectInactive \/ CloseInactive \/ NextMinute
  BY <1>4 DEF SelectInactive, CloseInactive, NextMinute
<1>5. ASSUME NEW m \in Messages, Cool(m)
      PROVE  status'[s] = "closed" /\ count'[s] = count[s]
  BY <1>5 DEF Cool
<1>6. CASE UNCHANGED vars BY <1>6 DEF vars
<1> QED BY <1>1, <1>2, <1>3, <1>4, <1>5, <1>6 DEF Next

(* The maintenance closes what is idle when it closes. *)
LEMMA CloseTakesIdle ==
    ASSUME [Next]_vars, NEW s \in selected, selected' = {}, status'[s] # status[s],
           SessionTypes
    PROVE  s \in idle
<1> USE DEF sessionVars
<1>1. CASE CloseInactive BY <1>1 DEF CloseInactive, StillInactive, Expired, SessionTypes
<1>2. CASE ~CloseInactive
  BY <1>2
  DEF Next, vars, Handler, Send, Retry, Lock, Store, Consume, Answer, Dies, CreateSession,
      CloseSession, GrowIdle, Cool, SelectInactive, NextMinute
<1> QED BY <1>1, <1>2

(* A closed session stays closed and gets no message, and the maintenance  *)
(* closes none that was used after it was selected: send_chat_message      *)
(* reads the status under the lock that close_chat_session and the update  *)
(* of close_inactive_chat_sessions wait for.                               *)
THEOREM SessionsEnd == Spec => ClosedIsFinal
<1>1. IInv /\ [Next]_vars =>
          [/\ \A s \in Sessions : status[s] = "closed" =>
                  status'[s] = "closed" /\ count'[s] = count[s]
           /\ \A s \in selected :
                  selected' = {} /\ status'[s] # status[s] => s \in idle]_vars
  BY ClosedStays, CloseTakesIdle DEF IInv
<1> QED BY <1>1, Inductive, PTL DEF Spec, ClosedIsFinal
=============================================================================
