# Prodavan: TLA+ specifications of the backend

Prodavan is the Django backend of a CRM for small sales teams: contacts, deals and
tasks, a chat with customers over a Telegram bot, an AI that answers customers and
keeps the CRM up to date, and a knowledge base the AI answers from.  This directory
holds specifications of the parts of it where several processes meet, the TLC
configurations that check them on small instances and the TLAPS proofs that hold for
every instance.  Paths are relative to the repository; "the code" is the code of the
commit the line numbers in `PROJECT.json` ("map") refer to.

## 1. The system

Three kinds of process share one PostgreSQL database (READ COMMITTED), one Redis and
one file storage:

* HTTP handlers (Django REST Framework), any number at a time;
* six queue workers (`config/worker.py`), each a loop over a `process_pending_*`
  function; README.md of the repository asks for a supervisor that restarts them,
  because an exception ends the process;
* one-shot commands started by cron (deadlines, missed messages, deals that need
  attention, health of the Telegram integration, clean-up).

They do not call each other.  They interact through rows (most queues are a status
column and a time when the row is due), through row locks (`select_for_update`),
through signals that run inside the transaction that creates a message
(`ai_assistant/automation_signals.py`), through hooks after a commit
(`transaction.on_commit`) and through two external services, Telegram and the AI
provider, which are called both inside and outside of transactions.

Two facts about the framework matter in nearly every component.  In PostgreSQL
`select_for_update()` together with `select_related()` locks the joined rows too, in
the order of the join, and so decides what waits for what.  And an `on_commit` hook
that raises does so after the commit: the caller sees an exception although the work
is done, and Django drops the hooks registered after it.  `broadcast_workspace_event`
raises when Redis is unreachable and most hooks are not registered as robust.

### Components

| component | state | operations | what makes it correct | module |
|---|---|---|---|---|
| Outgoing queue `messaging/outgoing.py` | `Message` (status, attempts, due time), idempotency records | send, deliver with retries | a customer gets a reply once unless an answer of Telegram was lost; no key creates two messages; every reply is delivered, failed with a notice, or deleted | `OutgoingQueue` |
| Chats `messaging/services.py` | `Chat` (deleted, unread, autopilot) | delete, read, switch the autopilot | nothing is sent from or arrives in a deleted chat; the counter of unread messages is exact | `OutgoingQueue`, `TelegramInbox`, `Autopilot` |
| Telegram inbox `messaging/telegram.py` | `TelegramWebhookLog`, contacts, chats, messages | receive, process with retries | one message per update, one contact per person, every update settles | `TelegramInbox` |
| Telegram integration `workspaces/telegram_services.py` | one row per workspace, the webhook at Telegram | connect, disconnect, check | a bot serves one workspace; the secret Telegram uses is the one in the row; a disconnected row keeps neither health nor failures (that the failures of a connected row are those of its bot does not hold) | `TelegramBot` |
| Knowledge base `ai_assistant/knowledge.py`, `processing.py` | documents, chunks, files | upload, delete, retry, index | answers come from the last run of documents that exist; limits; files and rows agree | `KnowledgeBase` |
| Onboarding `workspaces/onboarding.py` | one row per workspace | look, mark, complete | completed once both steps were done, and told so | `KnowledgeBase` |
| Autopilot `ai_assistant/autopilot.py` | `AIAutopilotJob`, daily usage, processed actions | schedule, cancel, answer, retry | one answer per question, within the limits, never over a manager's head | `Autopilot` |
| Automation `ai_assistant/automation.py`, `insights.py` | `AIAutomationEvent`, processed actions, usage | analyse, create deals and tasks, fill contacts and deals | no action twice, within the limits, nothing of a manager overwritten | `Automation` |
| AI chat `ai_assistant/chat_services.py` | sessions, messages | ask, retry, close | a limited number of answers under way, one per key, none in a closed session | `AIChat` |
| Auth `users/services.py` | users, refresh tokens, codes, counters | register, log in, refresh, reset | a refresh token is exchanged once; no session outlives its password; one code in force | `Accounts` |
| Auth e-mail `users/email_delivery.py` | letters | send, retry | only the newest code is mailed | `Accounts` |
| Profile `users/profile_services.py` | user, avatar files | update, avatar, delete | the avatar is on disk; an e-mail stays reserved | `Accounts` |
| Clean-up `users/maintenance.py` | expired rows | delete | nothing is deleted that is in use | `Accounts` |
| Deals `deals/services.py` | stages, deals, idempotency records | create, move, delete, stages | the system stage stays first, live stages have different orders; every version has its record; no lost update; a deleted deal is left alone (that a live deal is on a live stage, and orders have no gaps, does not hold) | `Crm` |
| Tasks `tasks/services.py` | tasks, idempotency records | create, update, delete | no key creates two tasks; no lost update | `Crm` |
| Contacts `contacts/services.py` | contacts | create, update, delete | no lost update, deals and tasks follow | `Crm` |
| Settings `workspaces/services.py` | one row per workspace | update | versions, keys | `Crm` |
| Notifications `notifications/services.py` | notifications, the counter sent to the user | create with aggregation, read, delete | nothing unread goes uncounted | `Notices` |
| Scans `notifications/*.py` | none | tasks that are due, deals, missed chats | one notice of each type a day, or one for an unread period | `Notices` |
| Worker loop `config/worker.py` | none | poll, stop | see the queues | the queues |
| HTTP, WebSocket, configuration | none | - | - | - |

What is hard here: a status read by one process and acted on by another after an
external call (knowledge base, autopilot, integration, AI chat); retries that do not
know whether the first attempt worked (outgoing queue, autopilot, automation); hooks
that run late, in another order or not at all (knowledge base, autopilot,
notifications); processes that die between two transactions, or after a file or a
letter has left the database; row locks taken in different orders, and statements
that insert behind a row somebody else holds (inbox, deals); values read before the
lock is granted; limits checked by reading and enforced by writing.  `PROJECT.json`
lists each of them at its line under "hazards".

## 2. Modules

| module | models | relation |
|---|---|---|
| `MessageDelivery` | what the outgoing queue promises for each message | abstract |
| `OutgoingQueue` | `messaging/outgoing.py`, deletion of chats | refines `MessageDelivery` |
| `OutgoingQueueProofs` | theorems about `OutgoingQueue` | |
| `KnowledgeBase` | `ai_assistant/knowledge.py`, `processing.py`, `workspaces/onboarding.py` | |
| `Autopilot` | `ai_assistant/autopilot.py` and the writes to chats and settings it depends on | |
| `AutopilotProofs` | theorems about `Autopilot` | |
| `TelegramInbox` | `messaging/telegram.py`, the webhook, reading and deleting chats | |
| `TelegramBot` | `workspaces/telegram_services.py` and the webhooks Telegram keeps | |
| `TelegramProofs` | theorems about `TelegramInbox` and `TelegramBot` | extends both, which share no name |
| `Automation` | `ai_assistant/automation.py`, `insights.py`, edits by managers | |
| `AutomationProofs` | theorems about `Automation` | |
| `Accounts` | `users/services.py`, `email_delivery.py`, `profile_services.py`, `maintenance.py` and their views | |
| `AccountsProofs` | theorems about `Accounts` | |
| `Crm` | `deals/`, `tasks/`, `contacts/`, settings of `workspaces/services.py` | |
| `CrmProofs` | theorems about `Crm` | |
| `AIChat` | `ai_assistant/chat_services.py`, `rate_limits.py`, `maintenance.py` | |
| `AIChatProofs` | theorems about `AIChat` | |
| `Notices` | `notifications/` | |
| `KnowledgeAndNoticesProofs` | theorems about `KnowledgeBase` and `Notices` | extends both, which share no name |
| `MC*` | symmetry sets and sizes for TLC | `MCLimitsAndNotices` puts `KnowledgeBase` and `Notices` side by side, which share no name |

The specifications share one style.  A transaction is one action when nothing can
come between its statements that matters, and is split where it waits for a row or
makes an external call.  A row lock is not a variable: whoever is between the locking
statement and the commit holds it, so the program counters (`rpc` for requests, `wpc`
for workers, `pc` where there is one kind of process) say who holds what, and
`MessageFree`, `ChatFree`, `DocFree`, `UserFree` and the like read them (in `Automation`
a lock is a variable: `held` is the usage row as its holder has read it).  A process that
dies is one action that resets its local variables and leaves every committed row as
it is.  History variables (copies, answers, enriched, effects, mailed ...) stand for
what the outside world has seen.  A request that is refused changes nothing and is not
a step, except where being refused has a trace (failed logins, attempts of an update).

`Accounts`, `Crm`, `Notices` and `Automation` have many operations that seldom meet.
Their constant `Menus` is a set of sets of operations (of tasks and chats in `Notices`,
of the actions the AI wants in `Automation`): a behaviour chooses one and mixes what is
in it.  The actions do not depend on it otherwise; with the one menu of all operations
the specification is the whole component.

### OutgoingQueue

| code | specification |
|---|---|
| `enqueue_outgoing_message` | `Arrive`, `RequestLocksChat`, `LookupRecord`, `InsertMessage`, `RollBack` |
| `delete_chat` | `Arrive`, `RequestLocksChat`, `DeleteChat`, `RollBack` |
| `process_pending_outgoing_messages` | `SelectBatch`, `EndTransaction` |
| `process_outgoing_message` | `LockMessage`, `WorkerLocksChat`, `Skip`, `StartCall`, `TelegramAccepts`, `CallSucceeds`, `FailPermanently`, `CallUnavailable` |
| process death, deadlock victim | `WorkerDies` |
| connect and disconnect of the integration | `ToggleIntegration` |

The query of the worker locks the message, then its chat, then the workspace; the
request locks the chat first and the message of the idempotency record second.  The
two can deadlock; PostgreSQL then makes one of them a victim (`RollBack`,
`WorkerDies`).  Because the workspace row is locked for the time of the Telegram
call, sends of one workspace exclude each other (`WorkspaceFree`).

`MessageDelivery` is the contract: a message moves from waiting to delivered, failed
or cancelled, every copy the customer gets is accounted for, and nothing is sent after
it settled.  `OutgoingQueue` implements it under the mapping of `open` to the messages
in the hands of a worker whose call Telegram has accepted.

### KnowledgeBase

| code | specification |
|---|---|
| `create_knowledge_documents` | `BeginUpload`, `SaveFile`, `CommitUpload`, `EndUpload`, `AbortUpload` |
| `retry_knowledge_document` | `Retry` |
| `delete_knowledge_document` | `BeginDelete`, `CommitDelete`, `BroadcastDeletion`, `NotifyDeletion`, `Unlink`, `SkipNotifyDeletion` |
| `fail_timed_out_knowledge_documents` | `FailTimedOut` |
| `process_pending_knowledge_documents` | `SelectPending`, `EndDocument` |
| `_claim_document` | `Claim`, `SkipDocument` |
| `process_knowledge_document` | `Embed`, `LockResult`, `DropResult`, `PublishResult`, `NotifyReady`, `SkipNotifyReady`, `MarkFailed` |
| `get_onboarding_status`, `mark_materials_viewed`, `onboarding_knowledge_state_changed` | `GetOnboardingStatus`, `MarkMaterialsViewed`, `KnowledgeBecameReady` |

A run of a document is identified by its attempt: `chunks[d]` is the run that made the
chunks retrieval finds.  Text, vectors and similarity are not modelled; a run ends well
or fails.  `Size` gives each document its size, so that the limit on bytes can be
reached before the limit on files.

### Autopilot

| code | specification |
|---|---|
| `schedule_autopilot_for_message` with the message that triggers it | `ContactWrites` |
| `cancel_pending_fallback_jobs` with the reply of the manager | `ManagerWrites` |
| `delete_chat`, `update_chat_autopilot`, `update_ai_settings`, connect and disconnect | `DeleteChat`, `ToggleChat`, `ChangeSettings`, `ToggleIntegration` |
| `process_pending_autopilot_jobs` | `SelectJobs`, `EndJob` |
| `_claim_job` | `Claim`, `SkipJob` |
| `_validate_job`, `_batch_messages` | `Validate`, `MustNotAnswer`, `OverLimit`, `TooManyInRow`, `Gather` |
| `_retrieve_sources`, `_generate_reply` | `Generate` |
| `_send_autopilot_reply` | `LockChat`, `RefuseReply`, `StoreReply`, `ReplyFails` |
| `_mark_sent`, `_mark_skipped`, `_mark_failed`, `_mark_technical_retry` | `MarkSent`, `MarkSkipped`, `MarkFailed`, `Reschedule` |

A job is named by the message that triggered it, and messages are numbered in the
order of `created_at`, which the primary key of neither is.  `AutopilotJobStatus` has
one CANCELLED; the model tells the jobs replaced by a batch apart as "superseded".
`enabled` is the effective switch of a chat (its own, or that of the workspace).
`answers`, `charged` and `unheard` are history: the replies stored for each trigger
and date, and those whose broadcast raised behind the commit.  The transaction that
stores a reply locks chat, contact and workspace, so everybody who inserts a row of
the workspace waits for it (`WorkspaceFree`).
Left out: the audit log, the expiry of processed actions after 24 hours, the context
of the prompt, a workspace without an active user, a contact without a Telegram chat.

### TelegramInbox

| code | specification |
|---|---|
| `receive_telegram_webhook` | `Receive` |
| `process_pending_telegram_webhooks` | `Pending`, `SelectBatch`, `Proceed` |
| `process_telegram_webhook_log`, `_find_contact` | `LockLog`, `SkipUpdate`, `Settled`, `ContactOf`, `SaveContact`, `StoreMessage`, `Deliver`, `ProcessFails`, `Abort` |
| `_record_webhook_failure` | `RecordFailure` |
| process death, deadlock victim | `WorkerDies`, `BreakDeadlock` |
| `mark_chat_read`, `delete_chat` | `LockChat`, `MarkRead`, `DeleteChat`, `EndRequest` |
| contacts entered and edited by managers | `AddContact`, `EditContact` |

The query that locks a log row joins the workspace and locks its row: updates of one
workspace exclude each other.  The chat is
read without a lock; the insert of the message waits for whoever holds it, and
`delete_chat` holds it while the insert of its audit record waits for the workspace: the
two may deadlock, and PostgreSQL takes one of them back.  A payload is a sender, or nobody, and a
handle (phone, e-mail or user name).

### TelegramBot

| code | specification |
|---|---|
| `connect_telegram` | `StartConnect`, `Refuse`, `SetWebhook`, `InfoFails`, `ReadPrevious`, `FindNoRow`, `Conflict`, `SaveRow`, `UndoConnect`, `DeleteWebhook` |
| `disconnect_telegram` | `StartDisconnect`, `ReleaseBot`, `ClearRow` |
| `check_telegram_integration` | `StartCheck`, `Probe`, `StillConnected`, `RecordCheck` |
| process death | `HandlerDies` |

Two administrators and the check run at the same time, with no lock held across a call.
`webhook` is what Telegram has.  `overlapped` and `suspect` are history: the bots for
which two handlers met or a call went unanswered.  `WebhooksMatchRows` speaks of the
others, that is of every sequence of operations that did not overlap; without the
proviso it is `ConnectedHasWebhook`, which does not hold.

### Automation

| code | specification |
|---|---|
| `enqueue_automation_event` (signal of the message); the delays | `Enqueue`, `BecomesDue`, `ThrottleEnds` |
| `process_pending_automation_events` | `SelectEvents`, `Proceed` |
| `_claim_event`, `_should_ignore_event` | `ClaimEvent`, `ThrottleEvent`, `IgnoreEvent`, `SkipEvent` |
| `_mark_business_failure`, `_mark_technical_failure` | `AnalysisFails`, `RejectEvent`, `MarkTechnical` |
| the five actions, what they check before their transaction | `ReadRow` (contact, deal), `CheckDeal`, `CheckTask`, `SkipAction` |
| `_usage_for_update`, the first statement of a transaction | `LockUsage`, `UsageFree` |
| the rest of the transaction, with its `AIProcessedEvent` and the write of the counter | `WriteRow` (contact, deal), `CreateDeal`, `CreateTask`, `Release` |
| the insight, in three commits | `StoreInsight`, `ApplyInsight`, `RecordInsight` |
| end of an event, failure of an action, death | `CompleteEvent`, `ActionFails`, `WorkerDies` |
| managers edit rows and erase messages | `EditRow`, `EraseMessages` |

A worker that has locked the usage row keeps what it read in `held`, and writes the
counter from there: without the exclusion two workers would read the same number.
What the AI finds is a free choice at every action.  A behaviour is shorter than the 24
hours after which records and limits are forgotten.  Time is the order in which delays
end: a waiting event becomes due, and a throttled chat free, at any moment.

### Accounts

| code | specification |
|---|---|
| `login_is_blocked`, `record_failed_login`, `issue_token_pair` | `Login`, `RecordFailedLogin`, `ForgetCounts`, `IssueTokens` |
| `refresh_session`, `logout_session` | `LockToken`, `Rotate` |
| `change_password`, `reset_password` | `LockForPassword`, `ChangePassword`, `ResetPassword`, `SetPassword` |
| `start_password_reset`, `start_registration` and their mails | `ForgotPassword`, `LockForgotten`, `Register`, `Mail`, `CommitCode`, `RecordRequest` |
| `confirm_password_reset_code`, `confirm_registration` | `ConfirmReset`, `ConfirmRegistration`, `ExpireCode` |
| clean-up | `SelectExpired`, `DeleteSelected` |
| profile | `EditEmail`, `SaveProfile`, `UploadAvatar`, `SaveAvatar`, `UploadFails`, `RemoveAvatar`, `DeleteFiles`, `DeleteProfile`, `CloseAccount`, `ReleaseEmail` |
| `process_auth_email_queue` | `SelectLetters`, `TakeLetter`, `SendLetter`, `WorkerDies` |
| death of a handler, deadlock victim | `RequestDies`, `BreakDeadlock` |

A session is the chain of refresh tokens that one login began; each token remembers the
password with which it was opened.  Left out: the version check of the profile (it is
that of `Crm`), the audit rows, the rows of the clean-up nothing reads any more, the
upgrade of a password hash at login, letters that are not codes.

### Crm

| code | specification |
|---|---|
| a client reads a row, sends an edit, the view locks it | `Open`, `LockOpened`, `Agrees` |
| `update_deal`, `move_deal`, `update_task`, `update_contact`, settings | `SaveDeal`, `MoveDeal`, `SaveTask`, `SaveContact`, `SaveSettings` |
| `create_*` with an idempotency key | `FindKey`, `CreateDeal`, `CreateTask`, `CreateContact` |
| `delete_deal`, `delete_contact`, `delete_task` | `LockToDelete`, `DeleteDeal`, `DeleteContacts`, `DeleteTasks` |
| `create_stage`, `update_stage`, `delete_stage`, `_reorder` | `ListStages`, `CreateStage`, `UpdateStage`, `DeleteStage`, `Places`, `Put`, `Reordered` |
| deadlock victim | `BreakDeadlock` |

`version` stands for all a row says of itself and `records` counts the rows of history
that tell of a version.  A list of stages is the orders they had when it was read, and
its numbering is the place of each among those that are left (`Places`).  Four things
are abstracted.  The locks of one statement are
taken at once.  Idempotency keys do not expire within a behaviour.  The audit rows of a
change of the settings count as one.  `update_task` and `update_task_status` combine
`select_for_update()` with `select_related()` on nullable relations without
`of=("self",)`, a statement PostgreSQL rejects ("FOR UPDATE cannot be applied to the
nullable side of an outer join"); they are modelled as they are meant, locking the
task.  A change that changes nothing is no step, and neither is a reordering that hits
the unique index half-way (the transaction is rolled back).

### AIChat

| code | specification |
|---|---|
| `create_chat_session`, `close_chat_session` | `CreateSession`, `CloseSession` |
| `close_inactive_chat_sessions` | `SelectInactive`, `CloseInactive`, `GrowIdle` |
| `send_chat_message`, `retry_chat_message` | `Send`, `Retry` (look-up without a lock), `Lock`, `Store` |
| `consume_workspace_ai_request` | `Consume`, `NextMinute` |
| the call of the model and its outcome | `Answer`, `Mark`, `Dies` |

The sessions of one user; other users of the workspace, who share the bucket of a
minute, are left out.  The bucket is counted atomically, as the `incr` of the cache is.

### Notices

| code | specification |
|---|---|
| `create_notification` with aggregation in a window | `Arrive`, `UpdateRecent`, `FindNone`, `Insert` |
| the hook that counts unread notices and sends the number | `Count` |
| `create_task_deadline_notifications`, `create_deal_attention_notifications` | `StartDailyScan`, `SkipItem`, `NotifyItem` |
| `create_missed_chat_notifications` | `StartMissedScan`, `SkipItem`, `NotifyItem` |
| `mark_notification_read`, `mark_all_read`, `delete_notification`, `delete_all_notifications` | `MarkRead`, `MarkAllRead`, `Delete`, `StartDeleteAll`, `DeleteAll` |
| a scan or a request that stops half-way | `Stop` |

`due` is what a scan would say of a task: a task with an exact time is due soon before
it and overdue after it, and both may happen on one day (`DailyKinds`, `ChangeTask`).
`_already_notified_today` looks for a notice of the same type.  One user: users share only the tasks and chats they are notified of.  A scan lists its
subjects, with one time, before the first notice.  `_find_contact` locks the row of the
contact before the message gets its time and until it is committed, so `Arrive` waits
for the event before it of the same chat (`Writing`): the messages of a chat are
committed in the order of their times.  Without that guard TLC refutes `OncePerPeriod`:
a message that is older than a notice could turn up behind it.

## 3. Runs

`tlc -config X.cfg M` in this directory repeats a run; none takes more than three
minutes with two workers.  Deadlock is not checked where the bounds stop the system
(`CHECK_DEADLOCK FALSE`): the clock, the number of messages or rows and the faults are
bounded, and a model that has used them up stops.

| run | question | bounds and why they are enough |
|---|---|---|
| `delivery` | copies accounted, nothing after deletion, one message per live key, the contract | two workers, two requests from two chats with one key, two messages, one attempt, clock past the TTL: batches overlap, inserts race with each other and with the purge, a delivery meets a deletion |
| `settles` | liveness of replies | two attempts, a dead worker or a lost answer: a retry, a deletion and the deadlock are all reachable |
| `index` | late results, claims, liveness of documents | two workers, one document with up to three runs, a timeout of one tick, one crash or failed broadcast: a late result meets the next run, its own deletion and the timeout |
| `limits` | limits and files; notices | two concurrent uploads of documents of different sizes at both limits, with deletions. Beside it, and sharing nothing with it: two handlers, each an event or the user, and a scan; three notices of a task or of a chat, the task due soon, then overdue; two instants of one day and one of the next; one process that stops; of the handlers one at a time is busy where the task is scanned. A document PROCESSING may be retried as timed out at any moment |
| `autopilot_claims` | claims, usage, replies, daily limit, a cancelled job | two workers, both modes, one reply a day, four messages (of the customer and answers, at most; a reply of the manager cancels the job that waits for it in the fallback mode), one switch of the chat or the integration, one crash or failed broadcast: both workers hold the same batch and check the limit before either stores |
| `autopilot_settles` | liveness of jobs | two workers, both modes, one failed broadcast, one change of the settings, the chat or the integration, technical failures to the last attempt |
| `inbox` | updates, contacts, unread counter, liveness of updates | two workers with batches of two, one request, two updates of one or two customers (one gives a phone, which managers give to contacts too), one failure, two attempts: the last attempt, the overlap of two batches and every deadlock of two are reached |
| `bot` | one workspace per bot, health and count of failures, webhooks | two workspaces, two bots, two handlers, three calls of setWebhook, one fault: connect, reconnect and move, and any two operations at once |
| `automation` | workers, records, counters and limits, data of managers | two workers, two events of one chat at limits of one, one retry; of the failures, deaths and changes by a manager two in a behaviour, of which one a change; three menus of what the AI wants: a contact, a task, a deal with its details. Both workers come to the usage row of the day together, read and write being two steps |
| `accounts` | sessions, codes, letters, avatars | two requests, two users with two e-mails, three tokens, two codes, two files, the limits of one or two, one request that dies; nine menus put together the operations that touch the same rows |
| `crm` | versions, history, keys, stages | two requests, two deals, tasks and contacts, four stages at a limit of three, one key; seven menus |
| `ai_chat` | limit, keys, counters, closing | two requests of one user in two sessions, two messages, one retry token, three answers at a limit of one, one fault |

Two of a kind are enough for most of these properties because each of them is about a
pair: two workers with one batch, two requests with one key, an operation and the one
that invalidates what it has read.  The limits are set to one or two so that every run
reaches them.  Each property has a mutant in `PROJECT.json`: a plausible bug in one
definition (a dropped lock, an off-by-one, a check that is not repeated) with which TLC
finds the property violated under the same configuration.

### Fairness

The live specifications (`settles`, `index`, `autopilot_settles`, `inbox`) assume what a
supervised deployment gives: a worker takes another batch while there is one (weak
fairness of the selection), a row lock is granted in turn (strong fairness of the steps
that wait for one), a deadlock is broken, a call to Telegram or to the AI provider ends
because it has a timeout, requests end and the clock runs.  Nothing is assumed about
clients, about the verdicts of Telegram and the AI provider or about crashes, which are
only bounded in number.  `autopilot_settles` has no crashes, because the property does
not survive one.  The automation, the integration and the AI chat have no liveness
property for the same reason: a process that dies between two of its transactions
leaves an event PROCESSING or an answer pending for good.

### Properties that do not hold

The modules also state what one would expect of the code and what it does not do.
These have no run; one INVARIANT or PROPERTY line in a cfg repeats the counterexample.
Whether each is acceptable is for the owners of the code to say.

| property | what happens instead |
|---|---|
| `CommittedFilesStay` (KnowledgeBase) | the broadcasts of an upload are non-robust hooks inside the `try` block that deletes the files: when one raises, after the commit, the rows stay and the files go |
| `DeletedFilesGo` | the broadcast of a deletion is registered before the hook that deletes the file: when it raises the file stays |
| `CompletedWithReadyDocument` | the hook that tells the onboarding that a document is READY trusts what its caller read before the commit; the document may be deleted by then |
| `OnboardingEventsFollow` | hooks of two transactions run in an order of their own and carry the flag of theirs: the last event may be the older truth |
| `OneReplyPerQuestion` (Autopilot) | the broadcast of a reply is a non-robust hook inside the `try` block of the job: when it raises, the retry stores another reply |
| `FallbackYields` | whether a manager has replied is asked before the AI is, and not again |
| `DeletedChatIsSilent` | the transaction of the reply locks the chat without looking at `is_deleted` |
| `SupersededIsBatched` | each message prolongs the wait of a batch, but the batch gathers one window back from its last message |
| `EveryJobSettles` with `"crash"` in `Faults` | nothing takes back a job whose worker died after the claim |
| `ContactKeepsPerson` (TelegramInbox) | an update that gives the phone of another customer is put in the chat of that customer and takes the contact over |
| `ConnectedHasWebhook` (TelegramBot) | two connects, or a connect and a disconnect, of one bot that overlap leave a row whose webhook is deleted or has another secret |
| `ChecksCountForTheirBot` | a failed check of a bot that was replaced meanwhile counts against the new one |
| `OneDealPerContact` (Automation) | two events of one chat pass the check, which is outside the transaction, together |
| `InsightsAreApplied` | an insight is committed before it is applied to the contact; after a failure in between the retry skips it |
| `ReservedEmailNotTaken` (Accounts) | `update_profile` looks for the reservation before, and for the user after, the commit of `delete_profile` |
| `NoLostFile` | a handler that dies leaves its avatar files |
| `CleanupTakesExpired` | the clean-up reads keys first and deletes a registration renewed since |
| `NoLateLetter` | the worker compares the expiry of a code with the time its batch began |
| `DealsOnLiveStages` (Crm) | `move_deal` reads its target without a lock while `delete_stage` empties it |
| `TasksHaveLiveRelations` | a task is given a deal or a contact that is being deleted |
| `WithinStageLimit`, `DenseOrders` | two `create_stage` count the stages of their own snapshots |
| `NoDeadlock` | `update_task` waits for the deal that `delete_deal` holds while it waits for the task; two changes of the board wait for each other |
| `PendingIsRunning` (AIChat) | a handler that dies leaves its answer pending, and it counts against the limit |
| `OneSuccessPerMessage` | `retry_chat_message` does not look at the status of the latest answer |
| `NoAnswerAfterClose` | an answer under way when the session is closed arrives in it |
| `CountIsUnread` (Notices) | `delete_all_notifications` may delete a notice that arrived after it looked for unread ones, and sends no count |
| `NoticesAreCurrent` | a scan does not read a task again before it notifies |
| `OneNoticePerDay` | a task due at a time of the day has a notice before it (TASK_DUE_SOON) and another after it (TASK_OVERDUE) |
| `OncePerDay`, `OncePerPeriod` with two `Scanners` | nothing unique keeps two scans that overlap from notifying twice |

The hourly limit and the limit of consecutive replies of the autopilot are read without a
lock.  They are in the model (`OverLimit`, `TooManyInRow`) and no property states them:
two workers can pass the check together.


## 4. Proofs

`tlapm M.tla` checks the proofs.  They hold for every value of the constants that
satisfies the named assumptions at the head of each module (bounds are naturals, the
null values are outside of the sets they extend); nothing else is assumed.

* `OutgoingQueueProofs`.  `Inv` is inductive: types, exclusion of the row locks
  (`LocksExclude`), what a locked row guarantees until the commit (`LockedRowsStand`),
  attempts left (`AttemptsLeft`), records that outlive the requests of their messages
  (`RecordsCover`).  `CopiesAccounted` needs the first three: the status read under the
  lock is still the status when the answer arrives.  `OneMessagePerLiveKey` needs
  `RecordsCover`: the record of a key expires no earlier than a day after every message
  created under it, and the purge is held by one request at a time.  From `Inv` follow
  the two action properties and the refinement of `MessageDelivery`.
* `KnowledgeAndNoticesProofs`, of `KnowledgeBase`.  `Inv` is inductive: a worker that locked a result still has
  the claim its fence saw (`ResultLocked`), what a request is about to delete is locked
  (`TargetsStand`), rows and runs fit (`RowsStand`), a claim has its time and attempt
  (`ClaimsStand`).  From it follow `IndexIsOfLastRun` and `ClaimHonoured`.
  `WithinLimits` and `FilesMatchRows` need more.  `RoomInv` says that an upload has
  checked the limits for what it will commit: uploads exclude each other, so that what
  it counted can only have shrunk, and its documents are disjoint from those that are
  there.  Bytes are counted as the cardinality of a set of pairs of a document and a
  byte, which adds up without recursion (`SizesAdd`).  `FilesInv` says that, as long as
  nothing has failed, a file without a row is in the hands of an upload or a deletion.
* `AutopilotProofs`.  `Inv` is inductive: `ClaimsExclude` (a job in hand is PROCESSING
  and in one pair of hands), `UsageLocked` (the usage read under the lock of the
  workspace is still the usage, and the counter is the number of replies stored),
  `JobsStand` (attempts left), `AnswersAccounted` (a reply to a trigger follows
  another only if the broadcast of that one failed).  Types alone are not inductive:
  the bound on attempts needs `JobsStand`, the bound on replies `UsageLocked`.  From
  `Inv` follow `DailyLimit` and `CancelledStaysSilent`.
* `AIChatProofs`.  The types are not inductive, because an answer is created in a free
  place: the inductive invariant adds that the places in use come first
  (`AnswersInOrder`) and that an unused one has no message (`UnusedIsEmpty`), that a
  message exists from the commit of its key on (`KeysStored`), and that one request at a
  time is behind the lock of the user (`OneLocked`), where what it has read stands until
  it stores (`Stands`): the session is open, its counter is the same, and there are no
  more pending answers than it counted.  That is what keeps `ActiveWithinLimit`.
* `TelegramProofs`.  Of `TelegramInbox`, the types are not inductive: a new contact or chat needs a
  free place, and the counter of unread messages is written by two parties.  The
  inductive invariant says that an update nobody has seen has no attempts (`LogInv`),
  that places not in use are empty (`ContactInv`, `ChatInv`), that the updates still open
  leave room for what they may create (`Room`), that one worker at a time is behind the
  lock of the integration and that the contact and chat it found, or the fact that there
  is none, still hold when it writes (`WorkInv`), and that a reader of a chat is alone
  with the counter it locked (`RequestInv`).  `MessagesMatchLog` and
  `OneContactPerPerson` are parts of it or follow from it.
  Of `TelegramBot`, `BotInv` is inductive as it stands: a handler in the middle of a
  connect, disconnect or check has a bot, a workspace and a secret of the kind its step
  needs (`HandlersStand`, stated for one handler as `Sound`), and the health of a row
  follows from its count of failed checks (`HealthMatchesFailures`; whose checks they
  were it does not say, because a late check counts against the bot that came after).
  `OneWorkspacePerBot` is inductive relative to it: a row gets a bot only in `SaveRow`,
  and `Conflict` sees the rows of all workspaces there.
  `WebhooksMatchRows` speaks of bots whose handlers did not overlap and whose calls were
  answered, and is proved from what the history knows.  `WebhookInv` says how far each
  handler is (`StepsOfCalls`), that the history has every two handlers that share a
  workspace or a bot (`Known`), what Telegram has of the bot in a handler's hands at each
  of its steps (`HandsStand`), and that a bot in nobody's hands has the webhook of its
  row, or none without a row (`RestMatches`).
* `AutomationProofs`.  The inductive invariant: an event is in the hands of one worker
  and PROCESSING (`OneWorkerPerEvent`, `WorkHasEvent`); the field a worker read as empty
  is empty as long as the row has the version it read (`WriteStands`), which is all that
  is left of the read when the conditional UPDATE runs; the actions before the one a
  worker is at have their results (`RecordsStand`); and records, rows and counters fit
  (`EffectInv`, with `RecordsMatchEffects` and `UsageWithinLimits`); and the usage row is
  locked by one worker, whose copy is the row (`LockInv`), so that the counter it writes
  is one more than the counter there is.  The action property
  `ManagersDataStays` follows from `WriteStands`.
* `AccountsProofs`.  `SessionsKnowPassword` is not inductive: a login that read the user
  before a change would issue its token after it.  `TokenInv` says that a token, a
  session behind it and a login on its way know the password of a version (`Known`), and
  that the version is never ahead of the user's.  `LockInv` is what a request checked
  while it held a user; it still holds at its commit, because nobody else holds that
  user (`OthersHold`).  `CodeInv` adds that a request about to store a reset code closes
  all the open ones (`Closes`) and that its own number is not in use yet; `LetterInv`
  that a pending letter is of the newest code of its kind (`NoneAfter`) and that a
  request which stores a code cancels all the pending letters of that kind and not the
  one the worker has in its hands (`Cancels`); `FileInv` that nobody else refers to a
  file that is being uploaded or deleted; `CountInv` that the requests let through by a
  counter leave room for themselves, which bounds it for any finite number of requests.
  From these follow `Inv`, `SessionsKnowPassword` and `NoStaleLetter`.
* `KnowledgeAndNoticesProofs`, of `Notices`.  `NoticesInv` needs that a process about to create a notice finds a row
  (`RowsSuffice`).  `OncePerDay`, of each type of notice, and `OncePerPeriod` are proved for scans that do not
  overlap (`OneScan`: there is one scanner), which is how a scheduler runs them; with two
  TLC refutes both.  Requests, events and the user remain any number, and a scan may
  stop anywhere and begin again.  `ScanInv` says that messages of a chat are committed
  in the order of their times (`MessagesInOrder`), that the time a scan looks back to is
  no later than any time from which the unread period of the chat may still come to
  count, that of a message on its way included (`ScansStand`, `Starts`), and that what
  the scan found before it creates a notice still holds when it does (`NotNotifiedYet`).
  `OncePerPeriod` is not inductive, because reading a chat moves the start of the period
  forwards: `OncePerStart` states it for every start that may still come.

* `CrmProofs`.  None of the properties is inductive.  `RequestInv` says what a request
  knows at each of its steps: the locked row of an edit is live and has the version and
  the key its client submitted (`EditStands`), the rows of a deletion are live
  (`DeletionStands`), a list of stages begins with the system stage (`Lists`), and no two
  requests hold the same row (`LocksExclude`).  What a step does to the rows is one of
  two things (`RowEffect`): live rows that nobody else holds get their next version and
  record, and some of them are deleted (`Renewal`), or one new row is there (`Arrival`).
  Everything that a request knows survives both (`OtherCallStands`), so that the proof of
  each action shows its effect and never looks at the other requests.  The order of the
  board is kept by counting: the places of a list are different and within its length
  (`PlacesOfList`), putting a stage in keeps that (`PutInList`), and a stage that is not
  in the list ends up behind it, because fewer stages are listed than the gap is wide
  (`Renumbering`).

Only model-checked: liveness, which is out of the provers' reach.  The properties that
do not hold were refuted by TLC.

## 5. Not modelled, and the plan

`PROJECT.json` lists every component with its status.  Left out for good:

* the HTTP layer, permissions and serialisation: a handler is the service it calls, and
  has no state of its own;
* configuration, health checks, logging and the bootstrap scripts;
* WebSocket consumers, which only read; a broadcast is modelled where it can raise
  behind a commit or carries a number that was read (`Notices`);
* extraction, splitting and embedding of text and the search by similarity: numerical,
  abstracted to success or failure;
* cryptography: the envelopes of tokens and letters, signatures of sessions;
* the records of the audit logs that nothing reads, and the DELETEs of rows that nothing
  reads any more;
* texts: names, titles, prompts, error messages.

Planned, in this order:

1. An abstract specification of the index (a document is absent, searchable with the
   text of one run, or gone) refined by `KnowledgeBase`, and one of a session (open or
   revoked) refined by `Accounts`.
2. `Automation` and `Autopilot` on one `AIUsageDaily`: they count tasks together.
