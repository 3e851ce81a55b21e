----------------------------- MODULE TelegramBot -----------------------------
(***************************************************************************)
(* The Telegram integrations of all workspaces                             *)
(* (workspaces/telegram_services.py): handlers connect and disconnect a    *)
(* bot, a command checks every connected one.  A token in the database and *)
(* the webhook that Telegram keeps for it are changed one after the other  *)
(* with no lock held across the calls, and each call may fail or take      *)
(* effect without an answer.                                               *)
(***************************************************************************)
EXTENDS Naturals

CONSTANTS
    Workspaces, Tokens,
    Handlers,               \* requests and runs of check_telegram_integrations
    MaxSecrets,             \* bound: calls of setWebhook
    MaxChecks,              \* bound: consecutive failed checks of a row
    MaxBotFaults,           \* bound: lost answers, failed calls, dead processes
    ErrorAfter,             \* failed checks that make the health ERROR
    None

Secrets == 1 .. MaxSecrets

ASSUME BotAssumption ==
    /\ MaxSecrets \in Nat /\ MaxChecks \in Nat /\ MaxBotFaults \in Nat
    /\ ErrorAfter \in Nat \ {0}
    /\ None \notin Tokens \cup Workspaces \cup Nat

VARIABLES
    exists,                 \* workspaces that have a WorkspaceIntegration row
    token, secret,          \* of each row; None when DISCONNECTED
    health, failures,       \* health_status and consecutive_failures
    webhook,                \* what Telegram has: the secret of each bot
    used,                   \* secrets given out
    pc, op, ws, tok, sec,   \* handlers: step, call, arguments, new secret
    prev,                   \* previous_token
    found,                  \* health that the calls found, or "failed"
    overlapped,             \* history: shared a bot or a workspace with another
    suspect,                \* history: bots whose webhook nobody vouches for
    botFaults

rowVars == <<exists, token, secret, health, failures>>
telegramVars == <<webhook, used>>
argumentVars == <<op, ws, tok>>
handlerVars == <<pc, argumentVars, sec, prev, found>>
historyVars == <<overlapped, suspect>>
botVars == <<rowVars, telegramVars, handlerVars, historyVars, botFaults>>

BotInit ==
    /\ exists = {}
    /\ token = [w \in Workspaces |-> None]
    /\ secret = [w \in Workspaces |-> None]
    /\ health = [w \in Workspaces |-> "none"]
    /\ failures = [w \in Workspaces |-> 0]
    /\ webhook = [t \in Tokens |-> None]
    /\ used = 0
    /\ pc = [h \in Handlers |-> "idle"]
    /\ op = [h \in Handlers |-> "none"]
    /\ ws = [h \in Handlers |-> None]
    /\ tok = [h \in Handlers |-> None]
    /\ sec = [h \in Handlers |-> None]
    /\ prev = [h \in Handlers |-> None]
    /\ found = [h \in Handlers |-> "none"]
    /\ overlapped = [h \in Handlers |-> FALSE]
    /\ suspect = {}
    /\ botFaults = 0

-----------------------------------------------------------------------------
BotFault == botFaults < MaxBotFaults /\ botFaults' = botFaults + 1

(* The handlers that change webhooks and share the workspace or a bot. *)
Rivals(h, w, t) ==
    {g \in Handlers \ {h} :
        op[g] \in {"connect", "disconnect"} /\ (ws[g] = w \/ t \in {tok[g], prev[g]})}

Start(h, o, w, t) ==
    LET rivals == IF o = "check" THEN {} ELSE Rivals(h, w, t) IN
    /\ pc[h] = "idle"
    /\ pc' = [pc EXCEPT ![h] = "calling"]
    /\ op' = [op EXCEPT ![h] = o]
    /\ ws' = [ws EXCEPT ![h] = w]
    /\ tok' = [tok EXCEPT ![h] = t]
    /\ overlapped' = [g \in Handlers |->
           IF g = h THEN rivals # {} ELSE overlapped[g] \/ g \in rivals]
    /\ suspect' = suspect \cup
           UNION {{t, tok[g], prev[g], token[w]} \ {None} : g \in rivals}
    /\ UNCHANGED <<rowVars, telegramVars, sec, prev, found, botFaults>>

Finish(h) ==
    /\ pc' = [pc EXCEPT ![h] = "idle"]
    /\ op' = [op EXCEPT ![h] = "none"]
    /\ ws' = [ws EXCEPT ![h] = None]
    /\ tok' = [tok EXCEPT ![h] = None]
    /\ sec' = [sec EXCEPT ![h] = None]
    /\ prev' = [prev EXCEPT ![h] = None]
    /\ found' = [found EXCEPT ![h] = "none"]

(* deleteWebhook, whose failure every caller swallows; it may still have   *)
(* taken effect.                                                           *)
CallDelete(t) ==
    \/ webhook' = [webhook EXCEPT ![t] = None] /\ UNCHANGED <<botFaults, suspect>>
    \/ /\ BotFault
       /\ suspect' = suspect \cup {t}
       /\ webhook' \in {webhook, [webhook EXCEPT ![t] = None]}

-----------------------------------------------------------------------------
(* connect_telegram *)

TakenByOther(w, t) == \E x \in Workspaces \ {w} : token[x] = t

StartConnect(h, w, t) ==
    /\ ~TakenByOther(w, t)
    /\ Start(h, "connect", w, t)

(* get_me fails: nothing has been changed. *)
Refuse(h) ==
    /\ pc[h] = "calling" /\ op[h] = "connect"
    /\ Finish(h)
    /\ UNCHANGED <<rowVars, telegramVars, historyVars, botFaults>>

(* setWebhook with a fresh secret; with the answer lost the handler ends   *)
(* and leaves the webhook behind.                                          *)
SetWebhook(h) ==
    /\ pc[h] = "calling" /\ op[h] = "connect"
    /\ used < MaxSecrets
    /\ used' = used + 1
    /\ webhook' = [webhook EXCEPT ![tok[h]] = used + 1]
    /\ \/ /\ pc' = [pc EXCEPT ![h] = "asking"]
          /\ sec' = [sec EXCEPT ![h] = used + 1]
          /\ UNCHANGED <<argumentVars, prev, found, suspect, botFaults>>
       \/ /\ BotFault
          /\ suspect' = suspect \cup {tok[h]}
          /\ Finish(h)
    /\ UNCHANGED <<rowVars, overlapped>>

(* _webhook_health: no address, or an error that Telegram reports. *)
HealthOf(t) ==
    IF webhook[t] = None THEN {"degraded"} ELSE {"healthy", "degraded"}

(* getWebhookInfo, then the previous token is read without a lock. *)
ReadPrevious(h) ==
    /\ pc[h] = "asking"
    /\ \E s \in HealthOf(tok[h]) : found' = [found EXCEPT ![h] = s]
    /\ prev' = [prev EXCEPT ![h] = token[ws[h]]]
    /\ pc' = [pc EXCEPT ![h] = "selecting"]
    /\ UNCHANGED <<rowVars, telegramVars, argumentVars, sec, historyVars,
                   botFaults>>

InfoFails(h) ==
    /\ pc[h] = "asking"
    /\ BotFault
    /\ suspect' = suspect \cup {tok[h]}
    /\ Finish(h)
    /\ UNCHANGED <<rowVars, telegramVars, overlapped>>

(* select_for_update() of a row that is not there locks nothing. *)
FindNoRow(h) ==
    /\ pc[h] = "selecting" /\ ws[h] \notin exists
    /\ pc' = [pc EXCEPT ![h] = "inserting"]
    /\ UNCHANGED <<rowVars, telegramVars, argumentVars, sec, prev, found,
                   historyVars, botFaults>>

(* Mutant: no unique index on the fingerprint of the token.                *)
Conflict_RowOnly(h) == pc[h] = "inserting" /\ ws[h] \in exists

(* The unique indexes: one row for each workspace, one row for each bot.   *)
Conflict(h) ==
    \/ pc[h] = "inserting" /\ ws[h] \in exists
    \/ TakenByOther(ws[h], tok[h])

(* Mutant: the webhook of the previous token is deleted even when it is    *)
(* the token that has just been connected.                                 *)
Replaced_EvenSame(h) == prev[h] # None

Replaced(h) == prev[h] # None /\ prev[h] # tok[h]

SaveRow(h) ==
    LET w == ws[h] IN
    /\ \/ pc[h] = "selecting" /\ w \in exists
       \/ pc[h] = "inserting"
    /\ ~Conflict(h)
    /\ exists' = exists \cup {w}
    /\ token' = [token EXCEPT ![w] = tok[h]]
    /\ secret' = [secret EXCEPT ![w] = sec[h]]
    /\ health' = [health EXCEPT ![w] = found[h]]
    /\ failures' = [failures EXCEPT ![w] = 0]
    /\ suspect' = IF overlapped[h] THEN suspect ELSE suspect \ {tok[h]}
    /\ IF Replaced(h)
       THEN /\ pc' = [pc EXCEPT ![h] = "releasing"]
            /\ UNCHANGED <<argumentVars, sec, prev, found>>
       ELSE Finish(h)
    /\ UNCHANGED <<telegramVars, overlapped, botFaults>>

(* IntegrityError: the webhook that was set is deleted again. *)
UndoConnect(h) ==
    /\ \/ pc[h] = "selecting" /\ ws[h] \in exists
       \/ pc[h] = "inserting"
    /\ Conflict(h)
    /\ pc' = [pc EXCEPT ![h] = "undoing"]
    /\ UNCHANGED <<rowVars, telegramVars, argumentVars, sec, prev, found,
                   historyVars, botFaults>>

DeleteWebhook(h) ==
    /\ \/ pc[h] = "undoing" /\ CallDelete(tok[h])
       \/ pc[h] = "releasing" /\ CallDelete(prev[h])
    /\ Finish(h)
    /\ UNCHANGED <<rowVars, used, overlapped>>

-----------------------------------------------------------------------------
(* disconnect_telegram *)

StartDisconnect(h, w) ==
    /\ token[w] # None
    /\ Start(h, "disconnect", w, token[w])

ReleaseBot(h) ==
    /\ pc[h] = "calling" /\ op[h] = "disconnect"
    /\ CallDelete(tok[h])
    /\ pc' = [pc EXCEPT ![h] = "clearing"]
    /\ UNCHANGED <<rowVars, used, argumentVars, sec, prev, found, overlapped>>

(* Under the lock: the row may have been disconnected, or connected to     *)
(* another bot, in the meantime.                                           *)
ClearRow(h) ==
    LET w == ws[h] IN
    /\ pc[h] = "clearing"
    /\ IF token[w] # None
       THEN /\ token' = [token EXCEPT ![w] = None]
            /\ secret' = [secret EXCEPT ![w] = None]
            /\ health' = [health EXCEPT ![w] = "none"]
            /\ failures' = [failures EXCEPT ![w] = 0]
       ELSE UNCHANGED <<token, secret, health, failures>>
    /\ Finish(h)
    /\ UNCHANGED <<exists, telegramVars, historyVars, botFaults>>

-----------------------------------------------------------------------------
(* check_telegram_integration for the rows check_all has listed *)

StartCheck(h, w) ==
    /\ token[w] # None /\ failures[w] < MaxChecks
    /\ Start(h, "check", w, token[w])

Probe(h) ==
    /\ pc[h] = "calling" /\ op[h] = "check"
    /\ \E s \in HealthOf(tok[h]) \cup {"failed"} : found' = [found EXCEPT ![h] = s]
    /\ pc' = [pc EXCEPT ![h] = "recording"]
    /\ UNCHANGED <<rowVars, telegramVars, argumentVars, sec, prev, historyVars,
                   botFaults>>

(* Mutant: the row is not read again under the lock.                       *)
StillConnected_NotReadAgain(w) == TRUE

StillConnected(w) == token[w] # None

RecordCheck(h) ==
    LET w == ws[h]
        count == IF found[h] = "failed" THEN failures[w] + 1 ELSE 0 IN
    /\ pc[h] = "recording"
    /\ IF StillConnected(w)
       THEN /\ failures' = [failures EXCEPT ![w] = count]
            /\ health' = [health EXCEPT ![w] =
                   IF found[h] # "failed" THEN found[h]
                   ELSE IF count >= ErrorAfter THEN "error" ELSE "degraded"]
       ELSE UNCHANGED <<health, failures>>
    /\ Finish(h)
    /\ UNCHANGED <<exists, token, secret, telegramVars, historyVars, botFaults>>

-----------------------------------------------------------------------------
(* The process of a handler ends between two of its steps. *)
HandlerDies(h) ==
    /\ pc[h] # "idle"
    /\ BotFault
    /\ suspect' = IF op[h] = "check" THEN suspect
                  ELSE suspect \cup ({tok[h], prev[h]} \ {None})
    /\ Finish(h)
    /\ UNCHANGED <<rowVars, telegramVars, overlapped>>

Connect(h) ==
    \/ \E w \in Workspaces, t \in Tokens : StartConnect(h, w, t)
    \/ Refuse(h)
    \/ SetWebhook(h)
    \/ ReadPrevious(h)
    \/ InfoFails(h)
    \/ FindNoRow(h)
    \/ SaveRow(h)
    \/ UndoConnect(h)
    \/ DeleteWebhook(h)

Disconnect(h) ==
    \/ \E w \in Workspaces : StartDisconnect(h, w)
    \/ ReleaseBot(h)
    \/ ClearRow(h)

Check(h) ==
    \/ \E w \in Workspaces : StartCheck(h, w)
    \/ Probe(h)
    \/ RecordCheck(h)

BotNext == \E h \in Handlers : Connect(h) \/ Disconnect(h) \/ Check(h) \/ HandlerDies(h)

BotSpec == BotInit /\ [][BotNext]_botVars

-----------------------------------------------------------------------------
(* Properties *)

(* The variables have their types, and a row has a secret exactly when it  *)
(* has a token.                                                            *)
BotTypeOK ==
    /\ exists \subseteq Workspaces
    /\ token \in [Workspaces -> Tokens \cup {None}]
    /\ secret \in [Workspaces -> Secrets \cup {None}]
    /\ \A w \in Workspaces : token[w] = None <=> secret[w] = None
    /\ health \in [Workspaces -> {"none", "healthy", "degraded", "error"}]
    /\ failures \in [Workspaces -> Nat]
    /\ webhook \in [Tokens -> Secrets \cup {None}]
    /\ used \in 0 .. MaxSecrets
    /\ pc \in [Handlers -> {"idle", "calling", "asking", "selecting", "inserting",
                            "undoing", "releasing", "clearing", "recording"}]
    /\ op \in [Handlers -> {"none", "connect", "disconnect", "check"}]
    /\ ws \in [Handlers -> Workspaces \cup {None}]
    /\ tok \in [Handlers -> Tokens \cup {None}]
    /\ sec \in [Handlers -> Secrets \cup {None}]
    /\ prev \in [Handlers -> Tokens \cup {None}]
    /\ found \in [Handlers -> {"none", "healthy", "degraded", "failed"}]
    /\ overlapped \in [Handlers -> BOOLEAN]
    /\ suspect \subseteq Tokens
    /\ botFaults \in 0 .. MaxBotFaults

(* What a handler knows at each of its steps: a secret once setWebhook was *)
(* called, a previous bot to release, a health to record.                  *)
HandlersStand ==
    \A h \in Handlers :
        /\ pc[h] # "idle" => ws[h] \in Workspaces /\ tok[h] \in Tokens
        /\ pc[h] \in {"asking", "selecting", "inserting"} => sec[h] \in Secrets
        /\ pc[h] \in {"selecting", "inserting"} => found[h] \in {"healthy", "degraded"}
        /\ pc[h] = "releasing" => prev[h] \in Tokens
        /\ pc[h] = "recording" => found[h] # "none"

(* A bot serves one workspace: the check at the start of connect_telegram  *)
(* is repeated by the index, whoever connects and disconnects meanwhile.   *)
OneWorkspacePerBot ==
    \A v, w \in Workspaces : token[v] = token[w] /\ token[v] # None => v = w

(* health_status and consecutive_failures of a row agree, whoever writes   *)
(* them: ERROR is exactly ErrorAfter failures or more.  A check that       *)
(* outlives a disconnection leaves nothing in the row.  Whose failures are *)
(* counted is another question: see ChecksCountForTheirBot.                *)
HealthMatchesFailures ==
    \A w \in Workspaces :
        /\ health[w] = "error" <=> failures[w] >= ErrorAfter
        /\ token[w] = None => health[w] = "none" /\ failures[w] = 0

(* The state of rows and handlers is sound: types, what a handler knows,   *)
(* health and counter.                                                     *)
BotInv == BotTypeOK /\ HandlersStand /\ HealthMatchesFailures

Busy(t) ==
    \E h \in Handlers : op[h] \in {"connect", "disconnect"}
                        /\ (t \in {tok[h], prev[h]} \/ token[ws[h]] = t)

(* Telegram posts with the secret of the row, and to nobody for a bot that *)
(* is connected nowhere, after any sequence of connects, reconnects, moves *)
(* and disconnects that did not overlap and whose calls were answered.     *)
WebhooksMatchRows ==
    \A t \in Tokens :
        t \notin suspect /\ ~Busy(t) =>
            IF \E w \in Workspaces : token[w] = t
            THEN \A w \in Workspaces : token[w] = t => webhook[t] = secret[w]
            ELSE webhook[t] = None

(* The properties below do not hold. *)

(* Without the proviso: two administrators who connect one bot, or connect *)
(* while another disconnects, leave a connected row whose webhook Telegram *)
(* has deleted or keeps with another secret.                               *)
ConnectedHasWebhook ==
    botFaults = 0 =>
        \A w \in Workspaces :
            token[w] # None /\ ~Busy(token[w]) => webhook[token[w]] = secret[w]

(* A failed check counts against the bot that was asked: the row may have  *)
(* been connected to another bot before the result is recorded             *)
(* (telegram_services.py:506-521 looks for a CONNECTED row only).          *)
ChecksCountForTheirBot ==
    [][\A h \in Handlers :
        pc[h] = "recording" /\ failures'[ws[h]] > failures[ws[h]]
            => token[ws[h]] = tok[h]]_botVars

=============================================================================
