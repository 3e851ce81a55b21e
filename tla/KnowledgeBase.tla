---------------------------- MODULE KnowledgeBase ----------------------------
(***************************************************************************)
(* The knowledge base of one workspace: the documents and their files      *)
(* (ai_assistant/knowledge.py), the workers that index them                *)
(* (ai_assistant/processing.py) and the onboarding state that depends on   *)
(* there being a READY document (workspaces/onboarding.py).                *)
(*                                                                         *)
(* A worker claims a document in one transaction, extracts and embeds its  *)
(* text outside any transaction, and publishes the result in another one   *)
(* that is fenced by the time of the claim.  In between the document may   *)
(* be timed out by another worker, retried, claimed again or deleted.      *)
(*                                                                         *)
(* What follows a commit (the on_commit hooks) is a step of its own: a     *)
(* process may die before it, and a hook that is not robust and raises     *)
(* (broadcast_document_status does when Redis is down) makes Django drop   *)
(* the hooks after it and raises out of the transaction block.             *)
(*                                                                         *)
(* Row locks are held by whoever is between the locking statement and the  *)
(* commit, so the program counters say who holds what.  Whoever inserts a  *)
(* row that refers to the workspace waits for an upload, which holds the   *)
(* workspace row while it stores its files.                                *)
(***************************************************************************)
EXTENDS Naturals, FiniteSets

CONSTANTS
    Workers,                \* process_knowledge_documents processes
    Requests,               \* HTTP request handlers that may run at once
    MaxDocs,                \* bound: documents ever created
    Size,                   \* size_bytes of each document
    MaxFiles,               \* MAX_FILES_PER_WORKSPACE
    MaxStorage,             \* MAX_WORKSPACE_STORAGE
    ProcessingTimeout,
    BatchLimit,             \* --limit of the worker command
    MaxAttempts,            \* bound: processing runs of one document
    MaxFaults,              \* bound: dead processes and failed hooks
    NoDoc                   \* no document (NoDoc \notin 1..MaxDocs)

Docs == 1 .. MaxDocs        \* in the order of created_at
Statuses == {"none", "processing", "ready", "failed"}

ASSUME LimitsAssumption ==
    /\ MaxDocs \in Nat /\ MaxFiles \in Nat /\ MaxStorage \in Nat
    /\ ProcessingTimeout \in Nat
    /\ BatchLimit \in Nat \ {0}
    /\ MaxAttempts \in Nat /\ MaxFaults \in Nat
    /\ Size \in [Docs -> Nat]

ASSUME NoDocAssumption == NoDoc \notin Docs

VARIABLES
    now,                    \* timezone.now(), from 1 on
    status,                 \* KnowledgeDocument.status, none before the row exists
    deleted,                \* the documents with is_deleted
    started,                \* processing_started_at, 0 for NULL
    attempts,               \* processing_attempts
    chunks,                 \* the run that made the document's chunks, 0 for none
    files,                  \* the documents whose file is in the storage
    wpc, timedOut, todo, cur, claimedAt, run, sawReady,     \* workers
    rpc, target, last,      \* requests
    viewed, completed,      \* WorkspaceOnboarding
    shown,                  \* knowledge_base_completed of the last event sent
    faults

docVars == <<status, deleted, started, attempts, chunks>>
workerVars == <<wpc, timedOut, todo, cur, claimedAt, run, sawReady>>
requestVars == <<rpc, target, last>>
onboardingVars == <<viewed, completed, shown>>
vars == <<now, docVars, files, workerVars, requestVars, onboardingVars, faults>>

Init ==
    /\ now = 1
    /\ status = [d \in Docs |-> "none"]
    /\ deleted = {}
    /\ started = [d \in Docs |-> 0]
    /\ attempts = [d \in Docs |-> 0]
    /\ chunks = [d \in Docs |-> 0]
    /\ files = {}
    /\ wpc = [w \in Workers |-> "idle"]
    /\ timedOut = [w \in Workers |-> 0]
    /\ todo = [w \in Workers |-> {}]
    /\ cur = [w \in Workers |-> NoDoc]
    /\ claimedAt = [w \in Workers |-> 0]
    /\ run = [w \in Workers |-> 0]
    /\ sawReady = [w \in Workers |-> FALSE]
    /\ rpc = [r \in Requests |-> "idle"]
    /\ target = [r \in Requests |-> {}]
    /\ last = [r \in Requests |-> FALSE]
    /\ viewed = FALSE /\ completed = FALSE /\ shown = FALSE
    /\ faults = 0

-----------------------------------------------------------------------------
(* What the queries see and who holds which row. *)

Active(d) == status[d] # "none" /\ d \notin deleted
ActiveDocs == {d \in Docs : Active(d)}
ReadyDocs == {d \in ActiveDocs : status[d] = "ready"}
UsedBytes(S) == Cardinality(UNION {{d} \X (1 .. Size[d]) : d \in S})

(* Mutant: the limits are checked without locking the workspace.           *)
WorkspaceFree_NotLocked == TRUE

WorkspaceFree == \A r \in Requests : rpc[r] # "saving"
(* Mutant: the final transaction reads the document without locking it.    *)
DocFree_ResultNotLocked(d) ==
    \A r \in Requests : rpc[r] = "deleting" => d \notin target[r]

DocFree(d) ==
    /\ \A w \in Workers : wpc[w] = "finishing" => cur[w] # d
    /\ \A r \in Requests : rpc[r] = "deleting" => d \notin target[r]

(* Something went wrong that no code controls. *)
Fault == faults < MaxFaults /\ faults' = faults + 1
FaultUnless(fine) == IF fine THEN UNCHANGED faults ELSE Fault

-----------------------------------------------------------------------------
(* Requests. *)

EndRequest(r) ==
    /\ rpc' = [rpc EXCEPT ![r] = "idle"]
    /\ target' = [target EXCEPT ![r] = {}]
    /\ last' = [last EXCEPT ![r] = FALSE]

Unused == {d \in Docs : status[d] = "none" /\ d \notin files}

(* create_knowledge_documents locks the workspace and checks both limits;  *)
(* an upload over a limit is refused and changes nothing.                  *)
BeginUpload(r, S) ==
    /\ rpc[r] = "idle"
    /\ WorkspaceFree
    /\ S # {} /\ \A d \in S, e \in Unused \ S : d < e
    /\ Cardinality(ActiveDocs) + Cardinality(S) <= MaxFiles
    /\ UsedBytes(ActiveDocs) + UsedBytes(S) <= MaxStorage
    /\ rpc' = [rpc EXCEPT ![r] = "saving"]
    /\ target' = [target EXCEPT ![r] = S]
    /\ UNCHANGED <<now, docVars, files, workerVars, last, onboardingVars, faults>>

SaveFile(r, d) ==
    /\ rpc[r] = "saving"
    /\ d \in target[r] \ files
    /\ files' = files \cup {d}
    /\ UNCHANGED <<now, docVars, workerVars, requestVars, onboardingVars, faults>>

CommitUpload(r) ==
    /\ rpc[r] = "saving"
    /\ target[r] \subseteq files
    /\ status' = [d \in Docs |-> IF d \in target[r] THEN "processing" ELSE status[d]]
    /\ rpc' = [rpc EXCEPT ![r] = "uploaded"]
    /\ UNCHANGED <<now, deleted, started, attempts, chunks, files, workerVars,
                   target, last, onboardingVars, faults>>

(* The broadcasts of the new documents are the last thing an upload does.  *)
EndUpload(r) ==
    /\ rpc[r] = "uploaded"
    /\ EndRequest(r)
    /\ UNCHANGED <<now, docVars, files, workerVars, onboardingVars, faults>>

(* except Exception: the files stored so far are removed.  The block also  *)
(* catches what a broadcast raises, when the rows are already committed.   *)
AbortUpload(r) ==
    /\ rpc[r] \in {"saving", "uploaded"}
    /\ Fault
    /\ files' = files \ target[r]
    /\ EndRequest(r)
    /\ UNCHANGED <<now, docVars, workerVars, onboardingVars>>

(* retry_knowledge_document: one transaction. *)
Retry(d) ==
    /\ Active(d)
    /\ DocFree(d)
    /\ WorkspaceFree
    /\ status[d] = "failed"
    /\ attempts[d] < MaxAttempts
    /\ status' = [status EXCEPT ![d] = "processing"]
    /\ started' = [started EXCEPT ![d] = 0]
    /\ chunks' = [chunks EXCEPT ![d] = 0]
    /\ UNCHANGED <<now, deleted, attempts, files, workerVars, requestVars,
                   onboardingVars, faults>>

(* delete_knowledge_document locks the document and looks, without a lock, *)
(* for another READY one.                                                  *)
BeginDelete(r, d) ==
    /\ rpc[r] = "idle"
    /\ Active(d)
    /\ DocFree(d)
    /\ rpc' = [rpc EXCEPT ![r] = "deleting"]
    /\ target' = [target EXCEPT ![r] = {d}]
    /\ last' = [last EXCEPT ![r] = ReadyDocs = {d}]
    /\ UNCHANGED <<now, docVars, files, workerVars, onboardingVars, faults>>

CommitDelete(r) ==
    /\ rpc[r] = "deleting"
    /\ WorkspaceFree
    /\ deleted' = deleted \cup target[r]
    /\ chunks' = [d \in Docs |-> IF d \in target[r] THEN 0 ELSE chunks[d]]
    /\ rpc' = [rpc EXCEPT ![r] = "deleted"]
    /\ UNCHANGED <<now, status, started, attempts, files, workerVars, target,
                   last, onboardingVars, faults>>

(* The hooks of a deletion, in this order: the broadcast of the event,     *)
(* which is not robust ...                                                 *)
BroadcastDeletion(r) ==
    /\ rpc[r] = "deleted"
    /\ rpc' = [rpc EXCEPT ![r] = IF last[r] THEN "notify" ELSE "unlink"]
    /\ UNCHANGED <<now, docVars, files, workerVars, target, last,
                   onboardingVars, faults>>

(* ... the onboarding, told that there is no READY document any more ...   *)
NotifyDeletion(r) ==
    /\ rpc[r] = "notify"
    /\ WorkspaceFree
    /\ shown' = IF completed THEN shown ELSE FALSE
    /\ rpc' = [rpc EXCEPT ![r] = "unlink"]
    /\ UNCHANGED <<now, docVars, files, workerVars, target, last, viewed,
                   completed, faults>>

(* Mutant: the file goes only with the last READY document.                *)
Unlink_OnlyWithLast(r) ==
    /\ rpc[r] = "unlink"
    /\ files' = IF last[r] THEN files \ target[r] ELSE files
    /\ EndRequest(r)
    /\ UNCHANGED <<now, docVars, workerVars, onboardingVars, faults>>

(* ... and the file. *)
Unlink(r) ==
    /\ rpc[r] = "unlink"
    /\ files' = files \ target[r]
    /\ EndRequest(r)
    /\ UNCHANGED <<now, docVars, workerVars, onboardingVars, faults>>

(* A robust hook that raises is skipped. *)
SkipNotifyDeletion(r) ==
    /\ rpc[r] = "notify"
    /\ Fault
    /\ rpc' = [rpc EXCEPT ![r] = "unlink"]
    /\ UNCHANGED <<now, docVars, files, workerVars, target, last, onboardingVars>>

(* The deletion is rolled back, its broadcast or its last hook raises, or  *)
(* the process serving any request dies: nothing more is done.             *)
RequestStops(r) ==
    /\ rpc[r] # "idle"
    /\ Fault
    /\ EndRequest(r)
    /\ UNCHANGED <<now, docVars, files, workerVars, onboardingVars>>

-----------------------------------------------------------------------------
(* Onboarding: its rows are read and written under the workspace lock. *)

(* GET /onboarding-status; it announces only a completion. *)
GetOnboardingStatus ==
    /\ WorkspaceFree
    /\ viewed /\ ReadyDocs # {} /\ ~completed
    /\ completed' = TRUE
    /\ shown' = TRUE
    /\ UNCHANGED <<now, docVars, files, workerVars, requestVars, viewed, faults>>

(* POST /materials-viewed. *)
MarkMaterialsViewed ==
    /\ WorkspaceFree
    /\ ~completed
    /\ viewed' = TRUE
    /\ completed' = (ReadyDocs # {})
    /\ shown' = IF viewed /\ ~completed' THEN shown ELSE ReadyDocs # {}
    /\ UNCHANGED <<now, docVars, files, workerVars, requestVars, faults>>

(* onboarding_knowledge_state_changed(previous_has_ready, True) relies on  *)
(* what its caller saw before the commit.                                  *)
KnowledgeBecameReady(previous) ==
    IF previous \/ completed
    THEN UNCHANGED onboardingVars
    ELSE /\ completed' = viewed
         /\ shown' = TRUE
         /\ UNCHANGED viewed

-----------------------------------------------------------------------------
(* Workers. *)

IsFirst(d, S) == d \in S /\ \A e \in S : d <= e
Prefix(S, n) == {d \in S : Cardinality({e \in S : e < d}) < n}

Pending == {d \in ActiveDocs : status[d] = "processing" /\ started[d] = 0}
(* Mutant: a claim exactly PROCESSING_TIMEOUT old is overdue.              *)
Overdue_AtBoundary ==
    {d \in ActiveDocs : /\ status[d] = "processing" /\ started[d] # 0
                        /\ started[d] + ProcessingTimeout <= now}

(* Mutant: nobody looks for abandoned claims.                              *)
Overdue_NotReaped == {}

Overdue ==
    {d \in ActiveDocs : /\ status[d] = "processing" /\ started[d] # 0
                        /\ started[d] + ProcessingTimeout < now}

(* ORDER BY processing_started_at, id. *)
Oldest(S, n) ==
    {d \in S : Cardinality({e \in S : \/ started[e] < started[d]
                                      \/ started[e] = started[d] /\ e < d}) < n}

(* fail_timed_out_knowledge_documents.  Its broadcasts may end the process. *)
FailTimedOut(w, survives) ==
    LET S == Oldest(Overdue, BatchLimit)
        full == Cardinality(S) = BatchLimit
    IN /\ wpc[w] = "idle"
       /\ \A d \in S : DocFree(d)
       /\ S = {} => survives
       /\ status' = [d \in Docs |-> IF d \in S THEN "failed" ELSE status[d]]
       /\ started' = [d \in Docs |-> IF d \in S THEN 0 ELSE started[d]]
       /\ wpc' = [wpc EXCEPT ![w] = IF survives /\ ~full THEN "scan" ELSE "idle"]
       /\ timedOut' = [timedOut EXCEPT ![w] = IF survives /\ ~full THEN Cardinality(S) ELSE 0]
       /\ FaultUnless(survives)
       /\ UNCHANGED <<now, deleted, attempts, chunks, files, todo, cur, claimedAt,
                      run, sawReady, requestVars, onboardingVars>>

(* The rest of the batch, read without a lock. *)
SelectPending(w) ==
    /\ wpc[w] = "scan"
    /\ todo' = [todo EXCEPT ![w] = Prefix(Pending, BatchLimit - timedOut[w])]
    /\ wpc' = [wpc EXCEPT ![w] = IF Pending = {} THEN "idle" ELSE "batch"]
    /\ timedOut' = [timedOut EXCEPT ![w] = 0]
    /\ UNCHANGED <<now, docVars, files, cur, claimedAt, run, sawReady,
                   requestVars, onboardingVars, faults>>

(* The document is done with; unless an exception ended the process, the   *)
(* batch goes on.                                                          *)
EndDocument(w, d, survives) ==
    LET rest == todo[w] \ {d}
        goesOn == survives /\ rest # {}
    IN /\ wpc' = [wpc EXCEPT ![w] = IF goesOn THEN "batch" ELSE "idle"]
       /\ todo' = [todo EXCEPT ![w] = IF goesOn THEN rest ELSE {}]
       /\ timedOut' = [timedOut EXCEPT ![w] = 0]
       /\ cur' = [cur EXCEPT ![w] = NoDoc]
       /\ claimedAt' = [claimedAt EXCEPT ![w] = 0]
       /\ run' = [run EXCEPT ![w] = 0]
       /\ sawReady' = [sawReady EXCEPT ![w] = FALSE]

Claimable(d) == Active(d) /\ status[d] = "processing" /\ started[d] = 0

(* _claim_document: one transaction that locks the document and the        *)
(* workspace (select_related).                                             *)
Claim(w) ==
    /\ wpc[w] = "batch"
    /\ WorkspaceFree
    /\ \E d \in todo[w] :
        /\ IsFirst(d, todo[w])
        /\ DocFree(d)
        /\ Claimable(d)
        /\ started' = [started EXCEPT ![d] = now]
        /\ attempts' = [attempts EXCEPT ![d] = @ + 1]
        /\ cur' = [cur EXCEPT ![w] = d]
        /\ claimedAt' = [claimedAt EXCEPT ![w] = now]
        /\ run' = [run EXCEPT ![w] = attempts[d] + 1]
    /\ wpc' = [wpc EXCEPT ![w] = "claimed"]
    /\ UNCHANGED <<now, status, deleted, chunks, files, timedOut, todo, sawReady,
                   requestVars, onboardingVars, faults>>

SkipDocument(w) ==
    /\ wpc[w] = "batch"
    /\ \E d \in todo[w] :
        /\ IsFirst(d, todo[w])
        /\ DocFree(d)
        /\ ~Claimable(d)
        /\ EndDocument(w, d, TRUE)
    /\ UNCHANGED <<now, docVars, files, requestVars, onboardingVars, faults>>

(* The text was extracted, split and embedded. *)
Embed(w) ==
    /\ wpc[w] = "claimed"
    /\ cur[w] \in files
    /\ wpc' = [wpc EXCEPT ![w] = "embedded"]
    /\ UNCHANGED <<now, docVars, files, timedOut, todo, cur, claimedAt, run, sawReady,
                   requestVars, onboardingVars, faults>>

(* Mutant: the status without the time of the claim.                       *)
Fence_StatusOnly(w) ==
    /\ cur[w] \notin deleted
    /\ status[cur[w]] = "processing"

(* The condition under which a result may be written. *)
Fence(w) ==
    LET d == cur[w] IN
    /\ d \notin deleted
    /\ status[d] = "processing"
    /\ started[d] = claimedAt[w]

LockResult(w) ==
    /\ wpc[w] = "embedded"
    /\ DocFree(cur[w])
    /\ Fence(w)
    /\ sawReady' = [sawReady EXCEPT ![w] = ReadyDocs # {}]
    /\ wpc' = [wpc EXCEPT ![w] = "finishing"]
    /\ UNCHANGED <<now, docVars, files, timedOut, todo, cur, claimedAt, run,
                   requestVars, onboardingVars, faults>>

DropResult(w) ==
    /\ wpc[w] = "embedded"
    /\ DocFree(cur[w])
    /\ ~Fence(w)
    /\ EndDocument(w, cur[w], TRUE)
    /\ UNCHANGED <<now, docVars, files, requestVars, onboardingVars, faults>>

PublishResult(w) ==
    /\ wpc[w] = "finishing"
    /\ WorkspaceFree
    /\ status' = [status EXCEPT ![cur[w]] = "ready"]
    /\ started' = [started EXCEPT ![cur[w]] = 0]
    /\ chunks' = [chunks EXCEPT ![cur[w]] = run[w]]
    /\ wpc' = [wpc EXCEPT ![w] = "notify"]
    /\ UNCHANGED <<now, deleted, attempts, files, timedOut, todo, cur, claimedAt, run,
                   sawReady, requestVars, onboardingVars, faults>>

(* The hooks: the onboarding, then a broadcast.  If that one raises,       *)
(* _mark_failed finds the document no longer PROCESSING and the batch goes *)
(* on as well.                                                             *)
NotifyReady(w) ==
    /\ wpc[w] = "notify"
    /\ WorkspaceFree
    /\ KnowledgeBecameReady(sawReady[w])
    /\ EndDocument(w, cur[w], TRUE)
    /\ UNCHANGED <<now, docVars, files, requestVars, faults>>

SkipNotifyReady(w) ==
    /\ wpc[w] = "notify"
    /\ Fault
    /\ EndDocument(w, cur[w], TRUE)
    /\ UNCHANGED <<now, docVars, files, requestVars, onboardingVars>>

(* An exception of the extraction, of the embeddings service or of the     *)
(* final transaction: _mark_failed, fenced in the same way.  Its broadcast *)
(* may end the process.                                                    *)
MarkFailed(w, survives) ==
    LET d == cur[w] IN
    /\ wpc[w] \in {"claimed", "embedded", "finishing"}
    /\ wpc[w] # "finishing" => DocFree(d)
    /\ IF Fence(w)
       THEN /\ status' = [status EXCEPT ![d] = "failed"]
            /\ started' = [started EXCEPT ![d] = 0]
       ELSE survives /\ UNCHANGED <<status, started>>
    /\ EndDocument(w, d, survives)
    /\ FaultUnless(survives)
    /\ UNCHANGED <<now, deleted, attempts, chunks, files, requestVars, onboardingVars>>

(* A claim survives the process that made it. *)
WorkerDies(w) ==
    /\ wpc[w] # "idle"
    /\ Fault
    /\ EndDocument(w, cur[w], FALSE)
    /\ UNCHANGED <<now, docVars, files, requestVars, onboardingVars>>

-----------------------------------------------------------------------------

(* Bound: time passes only while the age of some claim matters. *)
Tick ==
    /\ \E d \in Docs : started[d] # 0 /\ now <= started[d] + ProcessingTimeout
    /\ now' = now + 1
    /\ UNCHANGED <<docVars, files, workerVars, requestVars, onboardingVars, faults>>

RequestStep(r) ==
    \/ \E d \in Docs : SaveFile(r, d)
    \/ CommitUpload(r) \/ EndUpload(r)
    \/ CommitDelete(r) \/ BroadcastDeletion(r) \/ NotifyDeletion(r) \/ Unlink(r)

RequestFault(r) == AbortUpload(r) \/ SkipNotifyDeletion(r) \/ RequestStops(r)

WorkerStep(w) ==
    \/ FailTimedOut(w, TRUE) \/ SelectPending(w)
    \/ Claim(w) \/ SkipDocument(w)
    \/ Embed(w) \/ LockResult(w) \/ DropResult(w)
    \/ PublishResult(w) \/ NotifyReady(w)
    \/ MarkFailed(w, TRUE)

WorkerFault(w) ==
    \/ FailTimedOut(w, FALSE) \/ MarkFailed(w, FALSE)
    \/ SkipNotifyReady(w) \/ WorkerDies(w)

Next ==
    \/ \E r \in Requests :
        \/ \E S \in SUBSET Unused : BeginUpload(r, S)
        \/ \E d \in Docs : BeginDelete(r, d)
        \/ RequestStep(r) \/ RequestFault(r)
    \/ \E d \in Docs : Retry(d)
    \/ \E w \in Workers : WorkerStep(w) \/ WorkerFault(w)
    \/ GetOnboardingStatus \/ MarkMaterialsViewed
    \/ Tick

Spec == Init /\ [][Next]_vars

(* Requests end, workers loop (the supervisor restarts them), and the      *)
(* clock runs.                                                             *)
Fairness ==
    /\ WF_vars(Tick)
    /\ \A r \in Requests : WF_vars(RequestStep(r))
    /\ \A w \in Workers : WF_vars(WorkerStep(w))

LiveSpec == Spec /\ Fairness

-----------------------------------------------------------------------------
(* Properties. *)

DocTypes ==
    /\ status \in [Docs -> Statuses]
    /\ started \in [Docs -> Nat]
    /\ attempts \in [Docs -> Nat]
    /\ chunks \in [Docs -> Nat]

WorkerTypes ==
    /\ wpc \in [Workers -> {"idle", "scan", "batch", "claimed", "embedded",
                            "finishing", "notify"}]
    /\ timedOut \in [Workers -> Nat]
    /\ todo \in [Workers -> SUBSET Docs]
    /\ cur \in [Workers -> Docs \cup {NoDoc}]
    /\ claimedAt \in [Workers -> Nat]
    /\ run \in [Workers -> Nat]
    /\ sawReady \in [Workers -> BOOLEAN]

RequestTypes ==
    /\ rpc \in [Requests -> {"idle", "saving", "uploaded", "deleting", "deleted",
                             "notify", "unlink"}]
    /\ target \in [Requests -> SUBSET Docs]
    /\ last \in [Requests -> BOOLEAN]

WorldTypes ==
    /\ now \in Nat \ {0}
    /\ deleted \in SUBSET Docs
    /\ files \in SUBSET Docs
    /\ viewed \in BOOLEAN /\ completed \in BOOLEAN /\ shown \in BOOLEAN
    /\ faults \in Nat

(* The type invariant. *)
TypeOK == DocTypes /\ WorkerTypes /\ RequestTypes /\ WorldTypes

(* What retrieval can find is exactly the text of the READY documents, and *)
(* each document's chunks are those of its latest processing run: a worker *)
(* that comes late, after a timeout, a retry and another claim, publishes  *)
(* nothing and destroys nothing (_mark_failed and the final transaction of *)
(* process_knowledge_document).                                            *)
IndexIsOfLastRun ==
    \A d \in Docs : chunks[d] = IF d \in ReadyDocs THEN attempts[d] ELSE 0

(* The inductive invariant behind it, by its parts. *)

Busy(w) == wpc[w] \in {"claimed", "embedded", "finishing"}

(* From the lock of a result to its commit nobody else moves the document. *)
ResultLocked ==
    /\ \A w \in Workers : wpc[w] = "finishing" => Fence(w)
    /\ \A v, w \in Workers :
        wpc[v] = "finishing" /\ wpc[w] = "finishing" /\ cur[v] = cur[w] => v = w
    /\ \A w \in Workers, r \in Requests :
        wpc[w] = "finishing" /\ rpc[r] = "deleting" => cur[w] \notin target[r]

(* Uploads exclude each other and make rows that do not exist yet.         *)
TargetsStand ==
    /\ \A q, r \in Requests : rpc[q] = "saving" /\ rpc[r] = "saving" => q = r
    /\ \A r \in Requests : \A d \in target[r] :
        /\ rpc[r] = "saving" => status[d] = "none"
        /\ rpc[r] = "deleting" => status[d] # "none"

RowsStand ==
    \A d \in Docs :
        /\ started[d] # 0 => status[d] = "processing"
        /\ started[d] <= now
        /\ status[d] = "none" => d \notin deleted

(* Why the time of the claim is a fence: a claim that is still in the row  *)
(* is of the latest run, and one that is not was made strictly earlier, so *)
(* no later claim of the document can carry the same time.                 *)
ClaimStands(w) ==
    LET d == cur[w] IN
    /\ d \in Docs
    /\ claimedAt[w] \in 1 .. now
    /\ run[w] \in 1 .. attempts[d]
    /\ status[d] # "none"
    /\ started[d] = claimedAt[w] => run[w] = attempts[d]
    /\ started[d] = claimedAt[w] \/ claimedAt[w] < now

ClaimsStand ==
    /\ \A w \in Workers : Busy(w) => ClaimStands(w)
    /\ \A v, w \in Workers :
        Busy(v) /\ Busy(w) /\ cur[v] = cur[w] /\ run[v] = run[w] => v = w

Inv ==
    /\ TypeOK
    /\ ResultLocked
    /\ TargetsStand
    /\ RowsStand
    /\ ClaimsStand
    /\ IndexIsOfLastRun

(* Within the processing timeout nobody but the worker itself ends its     *)
(* claim, save the deletion of the document: no retry, no second worker    *)
(* and no early timeout takes it away.                                     *)
ClaimHonoured ==
    [][\A w \in Workers :
        Busy(w) /\ Fence(w) /\ Busy(w)' /\ cur'[w] = cur[w] /\ ~Fence(w)'
            => cur[w] \in deleted' \/ claimedAt[w] + ProcessingTimeout < now]_vars

(* The limits of a workspace hold for what is committed, also when uploads *)
(* run at the same time.                                                   *)
WithinLimits ==
    /\ Cardinality(ActiveDocs) <= MaxFiles
    /\ UsedBytes(ActiveDocs) <= MaxStorage

(* No document is PROCESSING for ever: it becomes READY or FAILED or is    *)
(* deleted, whichever worker dies with its claim.                          *)
EveryDocumentSettles ==
    \A d \in Docs :
        status[d] = "processing" ~> status[d] \in {"ready", "failed"} \/ d \in deleted

(* When no request is under way the storage holds the files of the active  *)
(* documents and nothing else, as long as nothing fails.                   *)
FilesMatchRows ==
    (\A r \in Requests : rpc[r] = "idle") => files = ActiveDocs

(* The properties below do not hold. *)

(* The upload test's claim (ai_assistant/test_knowledge_base.py:203-204):  *)
(* every document that exists has its file in the storage.                 *)
CommittedFilesStay == ActiveDocs \subseteq files

(* The deletion test's claim (ai_assistant/test_knowledge_base.py:356):    *)
(* once the deletion of a document has ended, its file is gone.            *)
DeletedFilesGo ==
    \A d \in deleted : d \in files => \E r \in Requests : d \in target[r]

(* README.md:35-37: the onboarding is completed when both steps are done,  *)
(* and the knowledge base step is that some active document is READY.      *)
CompletedWithReadyDocument ==
    [][completed' /\ ~completed => viewed' /\ ReadyDocs # {}]_vars

(* README.md:38: changes of the steps are sent to the clients.  When every *)
(* request and hook has ended, the last event tells the truth.             *)
OnboardingEventsFollow ==
    /\ \A r \in Requests : rpc[r] = "idle"
    /\ \A w \in Workers : wpc[w] # "notify"
    /\ ~completed
    => shown = (ReadyDocs # {})
=============================================================================
