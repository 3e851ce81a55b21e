-------------------------------- MODULE AIChat --------------------------------
(***************************************************************************)
(* AIChat: the sessions of one user with the assistant, messages, answers  *)
(* and their retries (ai_assistant/chat_services.py), the requests to the  *)
(* model in a minute (ai_assistant/rate_limits.py) and the close of idle   *)
(* sessions (ai_assistant/maintenance.py).                                 *)
(*                                                                         *)
(* A request looks for its key without a lock, locks the user and the      *)
(* session, reads them, stores a message and an answer, and asks the model *)
(* after the commit.  Texts, sources and the context of the page are left  *)
(* out; a request that is refused changes nothing.                         *)
(***************************************************************************)
EXTENDS Naturals, FiniteSets

CONSTANTS
    Requests,               \* handlers of the API that run at a time
    Sessions,
    Messages,               \* client_message_id of the messages of the user
    Tokens,                 \* retry_token
    MaxAnswers,             \* bound
    ActiveLimit,            \* answers under way at a time, 3
    RateLimit,              \* workspace_ai_requests_per_minute
    MaxFaults,              \* bound: requests that die
    None

Answers == 1 .. MaxAnswers  \* in the order of created_at
Keys == Messages \cup Tokens

ASSUME AIChatAssumption ==
    /\ MaxAnswers \in Nat /\ MaxFaults \in Nat
    /\ ActiveLimit \in Nat \ {0} /\ RateLimit \in Nat \ {0}
    /\ Messages \cap Tokens = {} /\ IsFiniteSet(Messages)
    /\ None \notin Keys \cup Sessions

VARIABLES
    status,                 \* AIChatSession.status
    idle,                   \* sessions with last_activity_at before the cutoff
    count,                  \* AIChatSession.message_count
    of,                     \* the session of a message of the user
    answers,                \* AIChatMessage of the assistant
    cooling,                \* messages whose latest answer is not 5 seconds old
    stored,                 \* how often a key has brought an answer
    used,                   \* requests to the model in this minute
    selected,               \* sessions that close_inactive_chat_sessions has read
    pc, call,               \* requests
    faults

sessionVars == <<status, idle, count>>
messageVars == <<of, answers, cooling, stored>>
requestVars == <<pc, call>>
vars == <<sessionVars, messageVars, used, selected, requestVars, faults>>

NoAnswer == [to |-> None, status |-> "none"]

Init ==
    /\ \E s \in Sessions : status = [x \in Sessions |-> IF x = s THEN "open" ELSE "none"]
    /\ idle = {}
    /\ count = [s \in Sessions |-> 0]
    /\ of = [m \in Messages |-> None]
    /\ answers = [a \in Answers |-> NoAnswer]
    /\ cooling = {}
    /\ stored = [k \in Keys |-> 0]
    /\ used = 0
    /\ selected = {}
    /\ pc = [r \in Requests |-> "idle"]
    /\ call = [r \in Requests |-> None]
    /\ faults = 0

-----------------------------------------------------------------------------
Go(r, step, c) == pc' = [pc EXCEPT ![r] = step] /\ call' = [call EXCEPT ![r] = c]
End(r) == Go(r, "idle", None)

(* Mutant: get_chat_session without for_update.                            *)
SessionFree_NotLocked(s) == TRUE

SessionFree(s) == \A r \in Requests : pc[r] = "locked" => call[r].session # s

(* Mutant: the user is not locked.                                         *)
UserFree_NotLocked == TRUE

UserFree == \A r \in Requests : pc[r] # "locked"

Pending == {a \in Answers : answers[a].status = "pending"}
AnswersTo(m) == {a \in Answers : answers[a].to = m}
Unused == {a \in Answers : answers[a].status = "none"}
First(S) == CHOOSE a \in S : \A b \in S : a <= b

-----------------------------------------------------------------------------
(* Sessions *)

CreateSession(s) ==
    /\ status[s] = "none"
    /\ status' = [status EXCEPT ![s] = "open"]
    /\ UNCHANGED <<idle, count, messageVars, used, selected, requestVars, faults>>

CloseSession(s) ==
    /\ status[s] = "open" /\ SessionFree(s)
    /\ status' = [status EXCEPT ![s] = "closed"]
    /\ idle' = idle \ {s}
    /\ UNCHANGED <<count, messageVars, used, selected, requestVars, faults>>

Expired == {s \in idle : status[s] = "open"}

SelectInactive ==
    /\ selected = {} /\ Expired # {}
    /\ selected' = Expired
    /\ UNCHANGED <<sessionVars, messageVars, used, requestVars, faults>>

StillInactive == selected \cap Expired

(* The update repeats the conditions on the rows it has waited for.        *)
CloseInactive ==
    /\ selected # {}
    /\ \A s \in selected : SessionFree(s)
    /\ status' = [s \in Sessions |-> IF s \in StillInactive THEN "closed" ELSE status[s]]
    /\ selected' = {}
    /\ UNCHANGED <<idle, count, messageVars, used, requestVars, faults>>

-----------------------------------------------------------------------------
(* Messages and retries *)

(* A message that is stored is answered by its latest answer.              *)
Send(r, m, s) ==
    /\ pc[r] = "idle"
    /\ of[m] = None
    /\ Go(r, "asked", [message |-> m, session |-> s, key |-> m])
    /\ UNCHANGED <<sessionVars, messageVars, used, selected, faults>>

Retry(r, m, t) ==
    /\ pc[r] = "idle"
    /\ of[m] # None /\ stored[t] = 0
    /\ Go(r, "asked", [message |-> m, session |-> of[m], key |-> t])
    /\ UNCHANGED <<sessionVars, messageVars, used, selected, faults>>

(* The rows are locked; what is read here is what will be stored.          *)
Lock(r) ==
    LET c == call[r] IN
    /\ pc[r] = "asked"
    /\ UserFree /\ SessionFree(c.session)
    /\ IF status[c.session] = "open" /\ (c.key \in Tokens => c.message \notin cooling)
       THEN Go(r, "locked", [message |-> c.message, session |-> c.session, key |-> c.key,
                             count |-> count[c.session], active |-> Cardinality(Pending)])
       ELSE End(r)
    /\ UNCHANGED <<sessionVars, messageVars, used, selected, faults>>

(* Mutant: without unique_ai_chat_client_msg and unique_ai_chat_retry_token. *)
Fits_NotUnique(k) == TRUE

(* The unique index takes back a key that came first by another request.   *)
Fits(k) == stored[k] = 0

Full(n) == n >= ActiveLimit

Added(k) == IF k \in Messages THEN 2 ELSE 1

Store(r) ==
    LET c == call[r]
        a == First(Unused) IN
    /\ pc[r] = "locked"
    /\ IF ~Fits(c.key)
       THEN End(r) /\ UNCHANGED <<idle, count, messageVars>>
       ELSE /\ Unused # {}
            /\ of' = [of EXCEPT ![c.message] = c.session]
            /\ answers' = [answers EXCEPT ![a] =
                   [to |-> c.message,
                    status |-> IF Full(c.active) THEN "failed" ELSE "pending"]]
            /\ cooling' = cooling \cup {c.message}
            /\ stored' = [stored EXCEPT ![c.key] = @ + 1]
            /\ count' = [count EXCEPT ![c.session] =
                   c.count + Added(c.key)]
            /\ idle' = idle \ {c.session}
            /\ IF Full(c.active) THEN End(r)
               ELSE Go(r, "generate", [answer |-> a])
    /\ UNCHANGED <<status, used, selected, faults>>

-----------------------------------------------------------------------------
(* Generation *)

(* _mark_success and _mark_failure ask neither for the status of the       *)
(* answer nor for that of the session.                                     *)
Mark(r, result) ==
    LET a == call[r].answer
        s == of[answers[a].to] IN
    /\ SessionFree(s)
    /\ answers' = [answers EXCEPT ![a].status = result]
    /\ idle' = idle \ {s}
    /\ End(r)

Allowed == used < RateLimit

Consume(r) ==
    /\ pc[r] = "generate"
    /\ IF Allowed
       THEN /\ used' = used + 1
            /\ Go(r, "call", call[r])
            /\ UNCHANGED <<idle, answers>>
       ELSE Mark(r, "failed") /\ UNCHANGED used
    /\ UNCHANGED <<status, count, of, cooling, stored, selected, faults>>

(* The model answers, in time, or fails, is not configured or says nothing. *)
Answer(r) ==
    /\ pc[r] = "call"
    /\ \E result \in {"success", "timeout", "failed"} : Mark(r, result)
    /\ UNCHANGED <<status, count, of, cooling, stored, used, selected, faults>>

(* A handler dies, or raises what _generate_answer does not catch; before  *)
(* the commit nothing would be left of it.                                 *)
Dies(r) ==
    /\ pc[r] \in {"generate", "call"} /\ faults < MaxFaults
    /\ faults' = faults + 1
    /\ End(r)
    /\ UNCHANGED <<sessionVars, messageVars, used, selected>>

-----------------------------------------------------------------------------
(* Time *)

(* RETRY_COOLDOWN passes. *)
Cool(m) ==
    /\ m \in cooling
    /\ cooling' = cooling \ {m}
    /\ UNCHANGED <<sessionVars, of, answers, stored, used, selected, requestVars, faults>>

(* Nobody has used the session for AI_CHAT_SESSION_IDLE_MINUTES.  A         *)
(* maintenance that has selected it goes by the time it began at: that a   *)
(* session used since may grow idle again for it is more than the code     *)
(* does.                                                                   *)
GrowIdle(s) ==
    /\ status[s] = "open" /\ s \notin idle
    /\ idle' = idle \cup {s}
    /\ UNCHANGED <<status, count, messageVars, used, selected, requestVars, faults>>

NextMinute ==
    /\ used > 0
    /\ used' = 0
    /\ UNCHANGED <<sessionVars, messageVars, selected, requestVars, faults>>

Handler(r) ==
    \/ \E m \in Messages :
           \/ \E s \in Sessions : Send(r, m, s)
           \/ \E t \in Tokens : Retry(r, m, t)
    \/ Lock(r) \/ Store(r) \/ Consume(r) \/ Answer(r) \/ Dies(r)

Next ==
    \/ \E r \in Requests : Handler(r)
    \/ \E s \in Sessions : CreateSession(s) \/ CloseSession(s) \/ GrowIdle(s)
    \/ \E m \in Messages : Cool(m)
    \/ SelectInactive \/ CloseInactive \/ NextMinute

Spec == Init /\ [][Next]_vars

-----------------------------------------------------------------------------
(* Properties *)

(* The variables have their types, an answer belongs to a message that is  *)
(* stored (AIChatSession, AIChatMessage), and no more requests than        *)
(* RateLimit reach the model in a minute (consume_workspace_ai_request).   *)
TypeOK ==
    /\ status \in [Sessions -> {"none", "open", "closed"}]
    /\ idle \subseteq Sessions /\ selected \subseteq Sessions
    /\ count \in [Sessions -> Nat]
    /\ of \in [Messages -> Sessions \cup {None}]
    /\ answers \in [Answers -> [to : Messages \cup {None},
                                status : {"none", "pending", "success", "failed", "timeout"}]]
    /\ \A a \in Answers : answers[a].to # None => of[answers[a].to] # None
    /\ cooling \subseteq {m \in Messages : of[m] # None}
    /\ stored \in [Keys -> Nat]
    /\ used \in 0 .. RateLimit
    /\ pc \in [Requests -> {"idle", "asked", "locked", "generate", "call"}]
    /\ faults \in 0 .. MaxFaults

(* The user has at most ActiveLimit answers under way, however many        *)
(* messages and retries arrive at the same time in however many sessions:  *)
(* the count is taken under the lock of the user (_active_requests).       *)
ActiveWithinLimit == Cardinality(Pending) <= ActiveLimit

InSession(s) == {m \in Messages : of[m] = s}

(* message_count is the number of messages and answers of the session:     *)
(* no increment is lost, none is made for what was taken back.             *)
CountMatchesMessages ==
    \A s \in Sessions :
        count[s] = Cardinality(InSession(s))
                   + Cardinality({a \in Answers : answers[a].to \in InSession(s)})

(* A client_message_id and a retry_token bring one answer, however often   *)
(* and however fast the client repeats them.                               *)
OneAnswerPerKey == \A k \in Keys : stored[k] <= 1

(* The state of the chat is sound: types, counters, keys.                  *)
Inv == TypeOK /\ CountMatchesMessages /\ OneAnswerPerKey

(* A session that is closed is never open again, and from then on gets no  *)
(* message and no new answer, whoever closed it (send_chat_message,        *)
(* retry_chat_message, close_chat_session, close_inactive_chat_sessions);  *)
(* the maintenance closes none that was used after it was selected.        *)
ClosedIsFinal ==
    [][/\ \A s \in Sessions : status[s] = "closed" =>
              status'[s] = "closed" /\ count'[s] = count[s]
       /\ \A s \in selected : selected' = {} /\ status'[s] # status[s] => s \in idle]_vars

(* The properties below do not hold. *)

(* An answer under way has a request that will settle it: one that died    *)
(* leaves its answer pending for good, and it counts against the limit.    *)
PendingIsRunning ==
    \A a \in Pending : \E r \in Requests :
        pc[r] \in {"generate", "call"} /\ call[r].answer = a

(* A message has one successful answer: retry_chat_message does not look   *)
(* at the status of the latest one.                                        *)
OneSuccessPerMessage ==
    \A m \in Messages : Cardinality({a \in AnswersTo(m) : answers[a].status = "success"}) <= 1

(* A closed session gets no answer: one that was under way arrives later.  *)
NoAnswerAfterClose ==
    [][\A a \in Answers : answers'[a].status = "success" /\ answers[a].status # "success" =>
           status[of[answers[a].to]] = "open"]_vars

=============================================================================
