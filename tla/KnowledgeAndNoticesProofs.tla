---------------------- MODULE KnowledgeAndNoticesProofs ----------------------
(* Theorems about KnowledgeBase (the time of the claim is a sufficient      *)
(* fence for the index, for any number of workers, requests and documents)  *)
(* and about Notices, for any number of requests, tasks and chats.  The two *)
(* modules share no name.                                                   *)
EXTENDS KnowledgeBase, Notices, FiniteSetTheorems, WellFoundedInduction, Functions, TLAPS

USE LimitsAssumption DEF LimitsAssumption

-----------------------------------------------------------------------------
(* Lemmas about the helpers of the actions. *)

LEMMA DocsFinite == ASSUME NEW S, S \subseteq Docs
                    PROVE  Cardinality(S) \in Nat
<1>1. IsFiniteSet(Docs)
  BY FS_Interval DEF Docs
<1>2. IsFiniteSet(S)
  BY <1>1, FS_Subset
<1> QED BY <1>2, FS_CardinalityType

LEMMA EndDocumentEffect ==
    ASSUME WorkerTypes, NEW w \in Workers, NEW d, NEW s \in BOOLEAN,
           EndDocument(w, d, s)
    PROVE  /\ WorkerTypes'
           /\ ~Busy(w)'
           /\ \A v \in Workers \ {w} :
                /\ wpc'[v] = wpc[v] /\ cur'[v] = cur[v]
                /\ claimedAt'[v] = claimedAt[v] /\ run'[v] = run[v]
<1>1. wpc' \in [Workers -> {"idle", "scan", "batch", "claimed", "embedded",
                            "finishing", "notify"}]
  BY DEF WorkerTypes, EndDocument
<1>2. timedOut' \in [Workers -> Nat] /\ claimedAt' \in [Workers -> Nat]
      /\ run' \in [Workers -> Nat] /\ sawReady' \in [Workers -> BOOLEAN]
  BY DEF WorkerTypes, EndDocument
<1>3. todo' \in [Workers -> SUBSET Docs]
  BY DEF WorkerTypes, EndDocument
<1>4. cur' \in [Workers -> Docs \cup {NoDoc}]
  BY DEF WorkerTypes, EndDocument
<1>5. ~Busy(w)'
  BY DEF WorkerTypes, EndDocument, Busy
<1>6. \A v \in Workers \ {w} :
                /\ wpc'[v] = wpc[v] /\ cur'[v] = cur[v]
                /\ claimedAt'[v] = claimedAt[v] /\ run'[v] = run[v]
  BY DEF WorkerTypes, EndDocument
<1> QED BY <1>1, <1>2, <1>3, <1>4, <1>5, <1>6 DEF WorkerTypes

LEMMA EndRequestEffect ==
    ASSUME RequestTypes, NEW r \in Requests, EndRequest(r)
    PROVE  /\ RequestTypes'
           /\ rpc'[r] = "idle" /\ target'[r] = {}
           /\ \A q \in Requests \ {r} : rpc'[q] = rpc[q] /\ target'[q] = target[q]
BY DEF RequestTypes, EndRequest

LEMMA FaultType == ASSUME WorldTypes, NEW b \in BOOLEAN, Fault \/ FaultUnless(b)
                   PROVE  faults' \in Nat
BY DEF WorldTypes, Fault, FaultUnless

-----------------------------------------------------------------------------
(* Types. *)

LEMMA InitTypes == Init => TypeOK
<1> SUFFICES ASSUME Init PROVE TypeOK
  OBVIOUS
<1>1. DocTypes BY DEF Init, DocTypes, Statuses
<1>2. WorkerTypes BY DEF Init, WorkerTypes
<1>3. RequestTypes BY DEF Init, RequestTypes
<1>4. now \in Nat \ {0} /\ faults \in Nat BY DEF Init
<1>5. deleted \in SUBSET Docs /\ files \in SUBSET Docs BY DEF Init
<1>6. viewed \in BOOLEAN /\ completed \in BOOLEAN /\ shown \in BOOLEAN BY DEF Init
<1> QED BY <1>1, <1>2, <1>3, <1>4, <1>5, <1>6 DEF TypeOK, WorldTypes

(* A step of a request changes no worker. *)
LEMMA RequestTypesStep ==
    ASSUME TypeOK, NEW r \in Requests,
           \/ \E S \in SUBSET Unused : BeginUpload(r, S)
           \/ \E d \in Docs : BeginDelete(r, d)
           \/ RequestStep(r) \/ RequestFault(r)
    PROVE  TypeOK'
<1> USE DEF TypeOK
<1>0. ASSUME UNCHANGED workerVars PROVE WorkerTypes'
  BY <1>0 DEF workerVars, WorkerTypes
<1>1. ASSUME NEW S \in SUBSET Unused, BeginUpload(r, S) PROVE TypeOK'
  <2>1. DocTypes' BY <1>1 DEF BeginUpload, docVars, DocTypes
  <2>2. WorkerTypes' BY <1>1, <1>0 DEF BeginUpload
  <2>3. S \subseteq Docs BY DEF Unused
  <2>4. RequestTypes' BY <1>1, <2>3 DEF BeginUpload, RequestTypes
  <2>5. WorldTypes' BY <1>1 DEF BeginUpload, docVars, onboardingVars, WorldTypes
  <2> QED BY <2>1, <2>2, <2>4, <2>5
<1>2. ASSUME NEW d \in Docs, BeginDelete(r, d) PROVE TypeOK'
  <2>1. DocTypes' BY <1>2 DEF BeginDelete, docVars, DocTypes
  <2>2. WorkerTypes' BY <1>2, <1>0 DEF BeginDelete
  <2>3. (ReadyDocs = {d}) \in BOOLEAN OBVIOUS
  <2>4. RequestTypes' BY <1>2, <2>3 DEF BeginDelete, RequestTypes
  <2>5. WorldTypes' BY <1>2 DEF BeginDelete, docVars, onboardingVars, WorldTypes
  <2> QED BY <2>1, <2>2, <2>4, <2>5
<1>3. ASSUME NEW d \in Docs, SaveFile(r, d) PROVE TypeOK'
  <2>1. DocTypes' BY <1>3 DEF SaveFile, docVars, DocTypes
  <2>2. WorkerTypes' BY <1>3, <1>0 DEF SaveFile
  <2>3. RequestTypes' BY <1>3 DEF SaveFile, requestVars, RequestTypes
  <2>4. WorldTypes' BY <1>3 DEF SaveFile, docVars, onboardingVars, WorldTypes
  <2> QED BY <2>1, <2>2, <2>3, <2>4
<1>4. ASSUME CommitUpload(r) PROVE TypeOK'
  <2>1. DocTypes' BY <1>4 DEF CommitUpload, DocTypes, Statuses
  <2>2. WorkerTypes' BY <1>4, <1>0 DEF CommitUpload
  <2>3. RequestTypes' BY <1>4 DEF CommitUpload, RequestTypes
  <2>4. WorldTypes' BY <1>4 DEF CommitUpload, onboardingVars, WorldTypes
  <2> QED BY <2>1, <2>2, <2>3, <2>4
<1>5. ASSUME EndUpload(r) PROVE TypeOK'
  <2>1. DocTypes' BY <1>5 DEF EndUpload, docVars, DocTypes
  <2>2. WorkerTypes' BY <1>5, <1>0 DEF EndUpload
  <2>3. RequestTypes' BY <1>5, EndRequestEffect DEF EndUpload
  <2>4. WorldTypes' BY <1>5 DEF EndUpload, docVars, onboardingVars, WorldTypes
  <2> QED BY <2>1, <2>2, <2>3, <2>4
<1>6. ASSUME CommitDelete(r) PROVE TypeOK'
  <2>1. DocTypes' BY <1>6 DEF CommitDelete, DocTypes
  <2>2. WorkerTypes' BY <1>6, <1>0 DEF CommitDelete
  <2>3. RequestTypes' BY <1>6 DEF CommitDelete, RequestTypes
  <2>4. target[r] \subseteq Docs BY DEF RequestTypes
  <2>5. WorldTypes' BY <1>6, <2>4 DEF CommitDelete, onboardingVars, WorldTypes
  <2> QED BY <2>1, <2>2, <2>3, <2>5
<1>7. ASSUME BroadcastDeletion(r) PROVE TypeOK'
  <2>1. DocTypes' BY <1>7 DEF BroadcastDeletion, docVars, DocTypes
  <2>2. WorkerTypes' BY <1>7, <1>0 DEF BroadcastDeletion
  <2>3. RequestTypes' BY <1>7 DEF BroadcastDeletion, RequestTypes
  <2>4. WorldTypes' BY <1>7 DEF BroadcastDeletion, docVars, onboardingVars, WorldTypes
  <2> QED BY <2>1, <2>2, <2>3, <2>4
<1>8. ASSUME NotifyDeletion(r) PROVE TypeOK'
  <2>1. DocTypes' BY <1>8 DEF NotifyDeletion, docVars, DocTypes
  <2>2. WorkerTypes' BY <1>8, <1>0 DEF NotifyDeletion
  <2>3. RequestTypes' BY <1>8 DEF NotifyDeletion, RequestTypes
  <2>4. WorldTypes' BY <1>8 DEF NotifyDeletion, docVars, WorldTypes
  <2> QED BY <2>1, <2>2, <2>3, <2>4
<1>9. ASSUME Unlink(r) PROVE TypeOK'
  <2>1. DocTypes' BY <1>9 DEF Unlink, docVars, DocTypes
  <2>2. WorkerTypes' BY <1>9, <1>0 DEF Unlink
  <2>3. RequestTypes' BY <1>9, EndRequestEffect DEF Unlink
  <2>4. WorldTypes' BY <1>9 DEF Unlink, docVars, onboardingVars, WorldTypes
  <2> QED BY <2>1, <2>2, <2>3, <2>4
<1>10. ASSUME AbortUpload(r) PROVE TypeOK'
  <2>1. DocTypes' BY <1>10 DEF AbortUpload, docVars, DocTypes
  <2>2. WorkerTypes' BY <1>10, <1>0 DEF AbortUpload
  <2>3. RequestTypes' BY <1>10, EndRequestEffect DEF AbortUpload
  <2>4. faults' \in Nat BY <1>10, FaultType DEF AbortUpload
  <2>5. WorldTypes' BY <1>10, <2>4 DEF AbortUpload, docVars, onboardingVars, WorldTypes
  <2> QED BY <2>1, <2>2, <2>3, <2>5
<1>11. ASSUME SkipNotifyDeletion(r) PROVE TypeOK'
  <2>1. DocTypes' BY <1>11 DEF SkipNotifyDeletion, docVars, DocTypes
  <2>2. WorkerTypes' BY <1>11, <1>0 DEF SkipNotifyDeletion
  <2>3. RequestTypes' BY <1>11 DEF SkipNotifyDeletion, RequestTypes
  <2>4. faults' \in Nat BY <1>11, FaultType DEF SkipNotifyDeletion
  <2>5. WorldTypes' BY <1>11, <2>4
        DEF SkipNotifyDeletion, docVars, onboardingVars, WorldTypes
  <2> QED BY <2>1, <2>2, <2>3, <2>5
<1>12. ASSUME RequestStops(r) PROVE TypeOK'
  <2>1. DocTypes' BY <1>12 DEF RequestStops, docVars, DocTypes
  <2>2. WorkerTypes' BY <1>12, <1>0 DEF RequestStops
  <2>3. RequestTypes' BY <1>12, EndRequestEffect DEF RequestStops
  <2>4. faults' \in Nat BY <1>12, FaultType DEF RequestStops
  <2>5. WorldTypes' BY <1>12, <2>4
        DEF RequestStops, docVars, onboardingVars, WorldTypes
  <2> QED BY <2>1, <2>2, <2>3, <2>5
<1> QED BY <1>1, <1>2, <1>3, <1>4, <1>5, <1>6, <1>7, <1>8, <1>9, <1>10, <1>11,
           <1>12 DEF RequestStep, RequestFault
(* A step of a worker changes no request. *)
LEMMA WorkerTypesStep ==
    ASSUME TypeOK, NEW w \in Workers, WorkerStep(w) \/ WorkerFault(w)
    PROVE  TypeOK'
<1> USE DEF TypeOK
<1>0. ASSUME UNCHANGED requestVars PROVE RequestTypes'
  BY <1>0 DEF requestVars, RequestTypes
<1>1. ASSUME NEW s \in BOOLEAN, FailTimedOut(w, s) PROVE TypeOK'
  <2> DEFINE S == Oldest(Overdue, BatchLimit)
  <2>1. DocTypes' BY <1>1 DEF FailTimedOut, DocTypes, Statuses
  <2>2. Cardinality(S) \in Nat
    <3>1. S \subseteq Docs BY DEF Oldest, Overdue, ActiveDocs
    <3> QED BY <3>1, DocsFinite
  <2>3. WorkerTypes'
    <3>1. timedOut' \in [Workers -> Nat] BY <1>1, <2>2 DEF FailTimedOut, WorkerTypes
    <3>2. wpc' \in [Workers -> {"idle", "scan", "batch", "claimed", "embedded",
                                "finishing", "notify"}]
      BY <1>1 DEF FailTimedOut, WorkerTypes
    <3> QED BY <1>1, <3>1, <3>2 DEF FailTimedOut, WorkerTypes
  <2>4. RequestTypes' BY <1>1, <1>0 DEF FailTimedOut
  <2>5. faults' \in Nat BY <1>1, FaultType DEF FailTimedOut
  <2>6. WorldTypes' BY <1>1, <2>5 DEF FailTimedOut, onboardingVars, WorldTypes
  <2> QED BY <2>1, <2>3, <2>4, <2>6
<1>2. ASSUME SelectPending(w) PROVE TypeOK'
  <2>1. DocTypes' BY <1>2 DEF SelectPending, docVars, DocTypes
  <2>2. Prefix(Pending, BatchLimit - timedOut[w]) \subseteq Docs
    BY DEF Prefix, Pending, ActiveDocs
  <2>3. todo' \in [Workers -> SUBSET Docs] BY <1>2, <2>2 DEF SelectPending, WorkerTypes
  <2>4. WorkerTypes' BY <1>2, <2>3 DEF SelectPending, WorkerTypes
  <2>5. RequestTypes' BY <1>2, <1>0 DEF SelectPending
  <2>6. WorldTypes' BY <1>2 DEF SelectPending, docVars, onboardingVars, WorldTypes
  <2> QED BY <2>1, <2>4, <2>5, <2>6
<1>3. ASSUME Claim(w) PROVE TypeOK'
  <2>1. PICK d \in todo[w] :
            /\ started' = [started EXCEPT ![d] = now]
            /\ attempts' = [attempts EXCEPT ![d] = @ + 1]
            /\ cur' = [cur EXCEPT ![w] = d]
            /\ claimedAt' = [claimedAt EXCEPT ![w] = now]
            /\ run' = [run EXCEPT ![w] = attempts[d] + 1]
    BY <1>3 DEF Claim
  <2>2. d \in Docs BY DEF WorkerTypes
  <2>3. now \in Nat /\ attempts[d] + 1 \in Nat BY <2>2 DEF WorldTypes, DocTypes
  <2>4. DocTypes' BY <1>3, <2>1, <2>2, <2>3 DEF Claim, DocTypes
  <2>5. WorkerTypes'
    <3>1. claimedAt' \in [Workers -> Nat] /\ run' \in [Workers -> Nat]
      BY <2>1, <2>3 DEF WorkerTypes
    <3>2. cur' \in [Workers -> Docs \cup {NoDoc}]
      BY <2>1, <2>2 DEF WorkerTypes
    <3>3. wpc' \in [Workers -> {"idle", "scan", "batch", "claimed", "embedded",
                                "finishing", "notify"}]
      BY <1>3 DEF Claim, WorkerTypes
    <3> QED BY <1>3, <3>1, <3>2, <3>3 DEF Claim, WorkerTypes
  <2>6. RequestTypes' BY <1>3, <1>0 DEF Claim
  <2>7. WorldTypes' BY <1>3 DEF Claim, onboardingVars, WorldTypes
  <2> QED BY <2>4, <2>5, <2>6, <2>7
<1>4. ASSUME SkipDocument(w) PROVE TypeOK'
  <2>1. DocTypes' BY <1>4 DEF SkipDocument, docVars, DocTypes
  <2>2. PICK d \in todo[w] : EndDocument(w, d, TRUE) BY <1>4 DEF SkipDocument
  <2>3. WorkerTypes' BY <2>2, EndDocumentEffect
  <2>4. RequestTypes' BY <1>4, <1>0 DEF SkipDocument
  <2>5. WorldTypes' BY <1>4 DEF SkipDocument, docVars, onboardingVars, WorldTypes
  <2> QED BY <2>1, <2>3, <2>4, <2>5
<1>5. ASSUME Embed(w) PROVE TypeOK'
  <2>1. DocTypes' BY <1>5 DEF Embed, docVars, DocTypes
  <2>2. WorkerTypes' BY <1>5 DEF Embed, WorkerTypes
  <2>3. RequestTypes' BY <1>5, <1>0 DEF Embed
  <2>4. WorldTypes' BY <1>5 DEF Embed, docVars, onboardingVars, WorldTypes
  <2> QED BY <2>1, <2>2, <2>3, <2>4
<1>6. ASSUME LockResult(w) PROVE TypeOK'
  <2>1. DocTypes' BY <1>6 DEF LockResult, docVars, DocTypes
  <2>2. (ReadyDocs # {}) \in BOOLEAN OBVIOUS
  <2>3. sawReady' \in [Workers -> BOOLEAN] BY <1>6, <2>2 DEF LockResult, WorkerTypes
  <2>4. WorkerTypes' BY <1>6, <2>3 DEF LockResult, WorkerTypes
  <2>5. RequestTypes' BY <1>6, <1>0 DEF LockResult
  <2>6. WorldTypes' BY <1>6 DEF LockResult, docVars, onboardingVars, WorldTypes
  <2> QED BY <2>1, <2>4, <2>5, <2>6
<1>7. ASSUME DropResult(w) PROVE TypeOK'
  <2>1. DocTypes' BY <1>7 DEF DropResult, docVars, DocTypes
  <2>2. WorkerTypes' BY <1>7, EndDocumentEffect DEF DropResult
  <2>3. RequestTypes' BY <1>7, <1>0 DEF DropResult
  <2>4. WorldTypes' BY <1>7 DEF DropResult, docVars, onboardingVars, WorldTypes
  <2> QED BY <2>1, <2>2, <2>3, <2>4
<1>8. ASSUME PublishResult(w) PROVE TypeOK'
  <2>1. run[w] \in Nat BY DEF WorkerTypes
  <2>2. DocTypes' BY <1>8, <2>1 DEF PublishResult, DocTypes, Statuses
  <2>3. WorkerTypes' BY <1>8 DEF PublishResult, WorkerTypes
  <2>4. RequestTypes' BY <1>8, <1>0 DEF PublishResult
  <2>5. WorldTypes' BY <1>8 DEF PublishResult, onboardingVars, WorldTypes
  <2> QED BY <2>2, <2>3, <2>4, <2>5
<1>9. ASSUME NotifyReady(w) PROVE TypeOK'
  <2>1. DocTypes' BY <1>9 DEF NotifyReady, docVars, DocTypes
  <2>2. WorkerTypes' BY <1>9, EndDocumentEffect DEF NotifyReady
  <2>3. RequestTypes' BY <1>9, <1>0 DEF NotifyReady
  <2>4. viewed' \in BOOLEAN /\ completed' \in BOOLEAN /\ shown' \in BOOLEAN
    BY <1>9 DEF NotifyReady, KnowledgeBecameReady, onboardingVars, WorldTypes
  <2>5. WorldTypes' BY <1>9, <2>4 DEF NotifyReady, docVars, WorldTypes
  <2> QED BY <2>1, <2>2, <2>3, <2>5
<1>10. ASSUME SkipNotifyReady(w) PROVE TypeOK'
  <2>1. DocTypes' BY <1>10 DEF SkipNotifyReady, docVars, DocTypes
  <2>2. WorkerTypes' BY <1>10, EndDocumentEffect DEF SkipNotifyReady
  <2>3. RequestTypes' BY <1>10, <1>0 DEF SkipNotifyReady
  <2>4. faults' \in Nat BY <1>10, FaultType DEF SkipNotifyReady
  <2>5. WorldTypes' BY <1>10, <2>4
        DEF SkipNotifyReady, docVars, onboardingVars, WorldTypes
  <2> QED BY <2>1, <2>2, <2>3, <2>5
<1>11. ASSUME NEW s \in BOOLEAN, MarkFailed(w, s) PROVE TypeOK'
  <2>1. DocTypes' BY <1>11 DEF MarkFailed, DocTypes, Statuses
  <2>2. WorkerTypes' BY <1>11, EndDocumentEffect DEF MarkFailed
  <2>3. RequestTypes' BY <1>11, <1>0 DEF MarkFailed
  <2>4. faults' \in Nat BY <1>11, FaultType DEF MarkFailed
  <2>5. WorldTypes' BY <1>11, <2>4 DEF MarkFailed, onboardingVars, WorldTypes
  <2> QED BY <2>1, <2>2, <2>3, <2>5
<1>12. ASSUME WorkerDies(w) PROVE TypeOK'
  <2>1. DocTypes' BY <1>12 DEF WorkerDies, docVars, DocTypes
  <2>2. WorkerTypes' BY <1>12, EndDocumentEffect DEF WorkerDies
  <2>3. RequestTypes' BY <1>12, <1>0 DEF WorkerDies
  <2>4. faults' \in Nat BY <1>12, FaultType DEF WorkerDies
  <2>5. WorldTypes' BY <1>12, <2>4
        DEF WorkerDies, docVars, onboardingVars, WorldTypes
  <2> QED BY <2>1, <2>2, <2>3, <2>5
<1> QED BY <1>1, <1>2, <1>3, <1>4, <1>5, <1>6, <1>7, <1>8, <1>9, <1>10, <1>11,
           <1>12 DEF WorkerStep, WorkerFault

LEMMA OtherTypesStep ==
    ASSUME TypeOK,
           \/ \E d \in Docs : Retry(d)
           \/ GetOnboardingStatus \/ MarkMaterialsViewed \/ Tick
           \/ UNCHANGED vars
    PROVE  TypeOK'
<1> USE DEF TypeOK
<1>1. ASSUME NEW d \in Docs, Retry(d) PROVE TypeOK'
  <2>1. DocTypes' BY <1>1 DEF Retry, DocTypes, Statuses
  <2>2. WorkerTypes' BY <1>1 DEF Retry, workerVars, WorkerTypes
  <2>3. RequestTypes' BY <1>1 DEF Retry, requestVars, RequestTypes
  <2>4. WorldTypes' BY <1>1 DEF Retry, onboardingVars, WorldTypes
  <2> QED BY <2>1, <2>2, <2>3, <2>4
<1>2. ASSUME GetOnboardingStatus \/ MarkMaterialsViewed \/ Tick \/ UNCHANGED vars
      PROVE  TypeOK'
  <2> USE DEF GetOnboardingStatus, MarkMaterialsViewed, Tick, vars
  <2>1. DocTypes' BY <1>2 DEF docVars, DocTypes
  <2>2. WorkerTypes' BY <1>2 DEF workerVars, WorkerTypes
  <2>3. RequestTypes' BY <1>2 DEF requestVars, RequestTypes
  <2>4. now' \in Nat \ {0} BY <1>2 DEF WorldTypes
  <2>5. viewed' \in BOOLEAN /\ completed' \in BOOLEAN /\ shown' \in BOOLEAN
    BY <1>2 DEF onboardingVars, WorldTypes
  <2>6. WorldTypes' BY <1>2, <2>4, <2>5 DEF docVars, WorldTypes
  <2> QED BY <2>1, <2>2, <2>3, <2>6
<1> QED BY <1>1, <1>2

LEMMA TypesStep == TypeOK /\ [Next]_vars => TypeOK'
BY RequestTypesStep, WorkerTypesStep, OtherTypesStep DEF Next

(* The program only ever holds values of the types the code gives them.    *)
THEOREM TypeCorrectness == Spec => []TypeOK
BY InitTypes, TypesStep, PTL DEF Spec
-----------------------------------------------------------------------------
(* Most steps leave the rows alone and let no worker begin with a document. *)

SameWork(w) ==
    /\ wpc'[w] \in {"claimed", "embedded", "finishing"} => Busy(w)
    /\ cur'[w] = cur[w] /\ claimedAt'[w] = claimedAt[w] /\ run'[w] = run[w]

QuietStep ==
    /\ UNCHANGED docVars
    /\ now' \in Nat /\ now' >= now
    /\ \A w \in Workers : SameWork(w) \/ ~Busy(w)'

LEMMA QuietStepKeeps ==
    ASSUME Inv, TypeOK', QuietStep
    PROVE  RowsStand' /\ ClaimsStand' /\ IndexIsOfLastRun'
<1>0. now \in Nat /\ \A d \in Docs : started[d] \in Nat
  BY DEF Inv, TypeOK, WorldTypes, DocTypes
<1>1. RowsStand'
  BY <1>0 DEF Inv, RowsStand, QuietStep, docVars
<1>2. IndexIsOfLastRun'
  BY DEF Inv, QuietStep, docVars, IndexIsOfLastRun, ReadyDocs, ActiveDocs, Active
<1>3. ASSUME NEW w \in Workers, Busy(w)' PROVE Busy(w) /\ SameWork(w)
  BY <1>3 DEF QuietStep, SameWork, Busy
<1>4. ASSUME NEW w \in Workers, Busy(w)' PROVE ClaimStands(w)'
  <2>1. ClaimStands(w) BY <1>3, <1>4 DEF Inv, ClaimsStand
  <2>2. claimedAt[w] \in Nat BY DEF Inv, TypeOK, WorkerTypes
  <2> QED BY <1>0, <1>3, <1>4, <2>1, <2>2 DEF ClaimStands, SameWork, QuietStep, docVars
<1>5. ClaimsStand'
  BY <1>3, <1>4 DEF Inv, ClaimsStand, SameWork
<1> QED BY <1>1, <1>2, <1>5

LEMMA QuietActions ==
    ASSUME Inv,
           \/ \E r \in Requests :
                \/ \E S \in SUBSET Unused : BeginUpload(r, S)
                \/ \E d \in Docs : BeginDelete(r, d) \/ SaveFile(r, d)
                \/ EndUpload(r) \/ BroadcastDeletion(r) \/ NotifyDeletion(r)
                \/ Unlink(r) \/ RequestFault(r)
           \/ GetOnboardingStatus \/ MarkMaterialsViewed \/ Tick
           \/ UNCHANGED vars
           \/ \E w \in Workers :
                \/ SelectPending(w) \/ SkipDocument(w) \/ Embed(w) \/ LockResult(w)
                \/ DropResult(w) \/ NotifyReady(w) \/ SkipNotifyReady(w) \/ WorkerDies(w)
    PROVE  QuietStep
<1>0. now \in Nat BY DEF Inv, TypeOK, WorldTypes
<1>1. WorkerTypes BY DEF Inv, TypeOK
<1>2. ASSUME UNCHANGED workerVars PROVE \A w \in Workers : SameWork(w)
  BY <1>2 DEF workerVars, SameWork, Busy
<1>3. ASSUME NEW r \in Requests,
             \/ \E S \in SUBSET Unused : BeginUpload(r, S)
             \/ \E d \in Docs : BeginDelete(r, d) \/ SaveFile(r, d)
             \/ EndUpload(r) \/ BroadcastDeletion(r) \/ NotifyDeletion(r)
             \/ Unlink(r) \/ RequestFault(r)
      PROVE  UNCHANGED docVars /\ UNCHANGED workerVars /\ now' = now
  BY <1>3 DEF BeginUpload, BeginDelete, SaveFile, EndUpload, BroadcastDeletion,
              NotifyDeletion, Unlink, RequestFault, AbortUpload,
              SkipNotifyDeletion, RequestStops
<1>4. ASSUME GetOnboardingStatus \/ MarkMaterialsViewed \/ Tick \/ UNCHANGED vars
      PROVE  UNCHANGED docVars /\ UNCHANGED workerVars /\ now' \in Nat /\ now' >= now
  BY <1>0, <1>4 DEF GetOnboardingStatus, MarkMaterialsViewed, Tick, vars
<1>5. ASSUME NEW w \in Workers, NEW d, EndDocument(w, d, TRUE) \/ EndDocument(w, d, FALSE)
      PROVE  \A v \in Workers : SameWork(v) \/ ~Busy(v)'
  BY <1>1, <1>5, EndDocumentEffect DEF SameWork, Busy
<1>6. ASSUME NEW w \in Workers,
             \/ SkipDocument(w) \/ DropResult(w) \/ NotifyReady(w)
             \/ SkipNotifyReady(w) \/ WorkerDies(w)
      PROVE  QuietStep
  <2>1. UNCHANGED docVars /\ now' = now
    BY <1>6 DEF SkipDocument, DropResult, NotifyReady, SkipNotifyReady, WorkerDies
  <2>2. \E d : EndDocument(w, d, TRUE) \/ EndDocument(w, d, FALSE)
    BY <1>6 DEF SkipDocument, DropResult, NotifyReady, SkipNotifyReady, WorkerDies
  <2>3. PICK d : EndDocument(w, d, TRUE) \/ EndDocument(w, d, FALSE) BY <2>2
  <2>4. \A v \in Workers : SameWork(v) \/ ~Busy(v)' BY <1>5, <2>3
  <2> QED BY <1>0, <2>1, <2>4 DEF QuietStep
<1>7. ASSUME NEW w \in Workers, SelectPending(w) \/ Embed(w) \/ LockResult(w)
      PROVE  QuietStep
  <2>1. UNCHANGED docVars /\ now' = now
    BY <1>7 DEF SelectPending, Embed, LockResult
  <2>2. \A v \in Workers : SameWork(v) \/ ~Busy(v)'
    BY <1>1, <1>7 DEF SelectPending, Embed, LockResult, SameWork, Busy, WorkerTypes
  <2> QED BY <1>0, <2>1, <2>2 DEF QuietStep
<1>8. ASSUME UNCHANGED docVars, UNCHANGED workerVars, now' \in Nat /\ now' >= now
      PROVE  QuietStep
  BY <1>2, <1>8 DEF QuietStep
<1> QED BY <1>0, <1>3, <1>4, <1>6, <1>7, <1>8

-----------------------------------------------------------------------------
(* Claims and chunks. *)

(* A step that changes some rows, but neither attempts nor any worker that  *)
(* stays busy, and releases a claim only when it is over.                   *)
LEMMA ReleasesKeepClaims ==
    ASSUME Inv, TypeOK', now' = now, attempts' = attempts,
           \A w \in Workers : SameWork(w) \/ ~Busy(w)',
           \A d \in Docs : status[d] # "none" => status'[d] # "none",
           \A d \in Docs : started'[d] = started[d] \/ started'[d] = 0,
           \A w \in Workers : Busy(w)' /\ started'[cur[w]] # started[cur[w]]
                                => claimedAt[w] < now \/ started[cur[w]] # claimedAt[w]
    PROVE  ClaimsStand'
<1>1. ASSUME NEW w \in Workers, Busy(w)' PROVE Busy(w) /\ SameWork(w)
  BY <1>1 DEF SameWork, Busy
<1>2. ASSUME NEW w \in Workers, Busy(w)' PROVE ClaimStands(w)'
  <2>1. ClaimStands(w) /\ SameWork(w) BY <1>1, <1>2 DEF Inv, ClaimsStand
  <2>2. cur[w] \in Docs /\ cur'[w] = cur[w] BY <2>1 DEF ClaimStands, SameWork
  <2>3. claimedAt[w] \in Nat /\ claimedAt[w] # 0 /\ now \in Nat
    BY <2>1 DEF ClaimStands, Inv, TypeOK, WorkerTypes, WorldTypes
  <2>4. started'[cur[w]] = started[cur[w]] \/ started'[cur[w]] = 0 BY <2>2
  <2> QED BY <1>2, <2>1, <2>2, <2>3, <2>4 DEF ClaimStands, SameWork
<1> QED BY <1>1, <1>2 DEF Inv, ClaimsStand, SameWork

LEMMA RowsStep == Inv /\ TypeOK' /\ [Next]_vars => RowsStand' /\ ClaimsStand' /\ IndexIsOfLastRun'
<1> SUFFICES ASSUME Inv, TypeOK', [Next]_vars
             PROVE  RowsStand' /\ ClaimsStand' /\ IndexIsOfLastRun'
  OBVIOUS
<1> DEFINE Goal == RowsStand' /\ ClaimsStand' /\ IndexIsOfLastRun'
<1>0. /\ TypeOK /\ DocTypes /\ WorkerTypes /\ RequestTypes /\ now \in Nat /\ now # 0
      /\ deleted \in SUBSET Docs
      /\ ResultLocked /\ TargetsStand /\ RowsStand /\ ClaimsStand /\ IndexIsOfLastRun
  BY DEF Inv, TypeOK, WorldTypes
<1>1. ASSUME QuietStep PROVE Goal
  BY <1>1, QuietStepKeeps
<1>2. ASSUME UNCHANGED workerVars PROVE \A w \in Workers : SameWork(w)
  BY <1>2 DEF workerVars, SameWork, Busy
<1>3. ASSUME NEW r \in Requests, CommitUpload(r) PROVE Goal
  <2>1. target[r] \subseteq Docs /\ \A d \in target[r] : status[d] = "none"
    BY <1>0, <1>3 DEF CommitUpload, TargetsStand, RequestTypes
  <2>2. \A d \in Docs : status'[d] = IF d \in target[r] THEN "processing" ELSE status[d]
    BY <1>3 DEF CommitUpload
  <2>3. RowsStand'
    BY <1>0, <1>3, <2>2 DEF CommitUpload, RowsStand
  <2>4. IndexIsOfLastRun'
    BY <1>0, <1>3, <2>1, <2>2
       DEF CommitUpload, IndexIsOfLastRun, ReadyDocs, ActiveDocs, Active
  <2>5. ClaimsStand'
    BY <1>2, <1>3, <2>2, ReleasesKeepClaims DEF CommitUpload
  <2> QED BY <2>3, <2>4, <2>5
<1>4. ASSUME NEW d \in Docs, Retry(d) PROVE Goal
  <2>1. /\ status' = [status EXCEPT ![d] = "processing"]
        /\ started' = [started EXCEPT ![d] = 0]
        /\ chunks' = [chunks EXCEPT ![d] = 0]
        /\ status[d] = "failed" /\ UNCHANGED <<now, deleted, attempts, workerVars>>
    BY <1>4 DEF Retry
  <2>2. started[d] = 0
    BY <1>0, <2>1 DEF RowsStand
  <2>3. RowsStand'
    BY <1>0, <2>1, <2>2 DEF RowsStand, DocTypes
  <2>4. IndexIsOfLastRun'
    BY <1>0, <2>1 DEF IndexIsOfLastRun, ReadyDocs, ActiveDocs, Active, DocTypes
  <2>5. started' = started
    BY <1>0, <2>1, <2>2 DEF DocTypes
  <2>6. \A e \in Docs : status[e] # "none" => status'[e] # "none"
    BY <1>0, <2>1 DEF DocTypes
  <2>7. ClaimsStand'
    BY <1>2, <2>1, <2>5, <2>6, ReleasesKeepClaims
  <2> QED BY <2>3, <2>4, <2>7
<1>5. ASSUME NEW r \in Requests, CommitDelete(r) PROVE Goal
  <2>1. /\ target[r] \subseteq Docs /\ \A d \in target[r] : status[d] # "none"
        /\ deleted' = deleted \cup target[r]
        /\ \A d \in Docs : chunks'[d] = IF d \in target[r] THEN 0 ELSE chunks[d]
        /\ UNCHANGED <<now, status, started, attempts, workerVars>>
    BY <1>0, <1>5 DEF CommitDelete, TargetsStand, RequestTypes
  <2>2. RowsStand'
    BY <1>0, <2>1 DEF RowsStand
  <2>3. IndexIsOfLastRun'
    BY <1>0, <2>1 DEF IndexIsOfLastRun, ReadyDocs, ActiveDocs, Active
  <2>4. ClaimsStand'
    BY <1>2, <2>1, ReleasesKeepClaims
  <2> QED BY <2>2, <2>3, <2>4
<1>6. ASSUME NEW w \in Workers, NEW s \in BOOLEAN, FailTimedOut(w, s) PROVE Goal
  <2> DEFINE S == Oldest(Overdue, BatchLimit)
  <2>1. /\ \A d \in Docs : status'[d] = IF d \in S THEN "failed" ELSE status[d]
        /\ \A d \in Docs : started'[d] = IF d \in S THEN 0 ELSE started[d]
        /\ UNCHANGED <<now, deleted, attempts, chunks, cur, claimedAt, run>>
    BY <1>6 DEF FailTimedOut
  <2>2. \A d \in S : /\ d \in Docs /\ status[d] = "processing" /\ d \notin deleted
                     /\ started[d] # 0 /\ started[d] + ProcessingTimeout < now
    BY DEF Oldest, Overdue, ActiveDocs, Active
  <2>3. \A v \in Workers : SameWork(v) \/ ~Busy(v)'
    BY <1>0, <1>6 DEF FailTimedOut, SameWork, Busy, WorkerTypes
  <2>4. RowsStand'
    BY <1>0, <2>1 DEF RowsStand
  <2>5. IndexIsOfLastRun'
    BY <1>0, <2>1, <2>2 DEF IndexIsOfLastRun, ReadyDocs, ActiveDocs, Active
  <2>6. ASSUME NEW v \in Workers, Busy(v)', started'[cur[v]] # started[cur[v]]
        PROVE  claimedAt[v] < now \/ started[cur[v]] # claimedAt[v]
    <3>1. Busy(v) BY <2>3, <2>6 DEF SameWork, Busy
    <3>2. cur[v] \in Docs BY <1>0, <3>1 DEF ClaimsStand, ClaimStands
    <3>3. cur[v] \in S BY <2>1, <2>6, <3>2
    <3>4. started[cur[v]] \in Nat BY <1>0, <3>2 DEF DocTypes
    <3>5. started[cur[v]] < now BY <1>0, <2>2, <3>3, <3>4
    <3> QED BY <3>5
  <2>7. ClaimsStand'
    BY <2>1, <2>3, <2>6, ReleasesKeepClaims
  <2> QED BY <2>4, <2>5, <2>7
<1>7. ASSUME NEW w \in Workers, Claim(w) PROVE Goal
  <2>1. PICK d \in todo[w] :
            /\ Claimable(d)
            /\ started' = [started EXCEPT ![d] = now]
            /\ attempts' = [attempts EXCEPT ![d] = @ + 1]
            /\ cur' = [cur EXCEPT ![w] = d]
            /\ claimedAt' = [claimedAt EXCEPT ![w] = now]
            /\ run' = [run EXCEPT ![w] = attempts[d] + 1]
    BY <1>7 DEF Claim
  <2>2. /\ d \in Docs /\ status[d] = "processing" /\ started[d] = 0
        /\ attempts[d] \in Nat
    BY <1>0, <2>1 DEF WorkerTypes, DocTypes, Claimable
  <2>3. UNCHANGED <<now, status, deleted, chunks>>
    BY <1>7 DEF Claim
  <2>4. RowsStand'
    BY <1>0, <2>1, <2>2, <2>3 DEF RowsStand, DocTypes
  <2>5. IndexIsOfLastRun'
    BY <1>0, <2>1, <2>2, <2>3 DEF IndexIsOfLastRun, ReadyDocs, ActiveDocs, Active, DocTypes
  <2>6. ClaimStands(w)'
    BY <1>0, <2>1, <2>2, <2>3 DEF ClaimStands, WorkerTypes, DocTypes
  <2>7. ASSUME NEW v \in Workers, v # w, Busy(v)'
        PROVE  /\ Busy(v) /\ ClaimStands(v) /\ ClaimStands(v)'
               /\ cur'[v] = cur[v] /\ run'[v] = run[v]
    <3>1. /\ wpc'[v] = wpc[v] /\ cur'[v] = cur[v]
          /\ claimedAt'[v] = claimedAt[v] /\ run'[v] = run[v]
      BY <1>0, <1>7, <2>1, <2>7 DEF Claim, WorkerTypes
    <3>2. Busy(v) /\ ClaimStands(v)
      BY <1>0, <2>7, <3>1 DEF Busy, ClaimsStand
    <3>3. ClaimStands(v)'
      <4>1. cur[v] # d => /\ started'[cur[v]] = started[cur[v]]
                          /\ attempts'[cur[v]] = attempts[cur[v]]
        BY <1>0, <2>1, <3>2 DEF ClaimStands, DocTypes
      <4>2. CASE cur[v] # d
        BY <2>3, <3>1, <3>2, <4>1, <4>2 DEF ClaimStands
      <4>3. CASE cur[v] = d
        <5>1. claimedAt[v] # 0 /\ claimedAt[v] < now
          BY <2>2, <3>2, <4>3 DEF ClaimStands
        <5>2. started'[d] = now /\ attempts'[d] = attempts[d] + 1
          BY <1>0, <2>1, <2>2 DEF DocTypes
        <5>3. run[v] \in 1 .. attempts[d] BY <3>2, <4>3 DEF ClaimStands
        <5>4. run[v] \in 1 .. attempts'[d] BY <2>2, <5>2, <5>3
        <5> QED BY <1>0, <2>2, <2>3, <3>1, <3>2, <4>3, <5>1, <5>2, <5>4 DEF ClaimStands
      <4> QED BY <4>2, <4>3
    <3> QED BY <3>1, <3>2, <3>3
  <2>8. ASSUME NEW v \in Workers, v # w, Busy(v)', cur'[v] = cur'[w], run'[v] = run'[w]
        PROVE  FALSE
    <3>1. cur[v] = d /\ run[v] = attempts[d] + 1
      BY <1>0, <2>1, <2>7, <2>8 DEF WorkerTypes
    <3>2. run[v] \in 1 .. attempts[d]
      BY <2>7, <2>8, <3>1 DEF ClaimStands
    <3> QED BY <2>2, <3>1, <3>2
  <2>9. ClaimsStand'
    <3>1. \A v \in Workers : Busy(v)' => ClaimStands(v)'
      BY <2>6, <2>7
    <3>2. ASSUME NEW u \in Workers, NEW v \in Workers, Busy(u)', Busy(v)',
                 cur'[u] = cur'[v], run'[u] = run'[v]
          PROVE  u = v
      <4>1. CASE u = w \/ v = w BY <2>8, <3>2, <4>1
      <4>2. CASE u # w /\ v # w BY <1>0, <2>7, <3>2, <4>2 DEF ClaimsStand
      <4> QED BY <4>1, <4>2
    <3> QED BY <3>1, <3>2 DEF ClaimsStand
  <2> QED BY <2>4, <2>5, <2>9
<1>8. ASSUME NEW w \in Workers, PublishResult(w) PROVE Goal
  <2> DEFINE d == cur[w]
  <2>1. /\ status' = [status EXCEPT ![d] = "ready"]
        /\ started' = [started EXCEPT ![d] = 0]
        /\ chunks' = [chunks EXCEPT ![d] = run[w]]
        /\ UNCHANGED <<now, deleted, attempts, cur, claimedAt, run>>
    BY <1>8 DEF PublishResult
  <2>2. Busy(w) /\ Fence(w) BY <1>0, <1>8 DEF PublishResult, Busy, ResultLocked
  <2>3. d \in Docs /\ status[d] = "processing" /\ d \notin deleted
        /\ started[d] = claimedAt[w] /\ run[w] = attempts[d]
    BY <1>0, <2>2 DEF Fence, ClaimsStand, ClaimStands
  <2>4. RowsStand'
    BY <1>0, <2>1, <2>3 DEF RowsStand, DocTypes
  <2>5. IndexIsOfLastRun'
    BY <1>0, <2>1, <2>3 DEF IndexIsOfLastRun, ReadyDocs, ActiveDocs, Active, DocTypes
  <2>6. \A v \in Workers : SameWork(v) \/ ~Busy(v)'
    BY <1>0, <1>8, <2>1 DEF PublishResult, SameWork, Busy, WorkerTypes
  <2>7. \A e \in Docs : status[e] # "none" => status'[e] # "none"
    BY <1>0, <2>1 DEF DocTypes
  <2>8. \A e \in Docs : started'[e] = started[e] \/ started'[e] = 0
    BY <1>0, <2>1 DEF DocTypes
  <2>9. ASSUME NEW v \in Workers, Busy(v)', started'[cur[v]] # started[cur[v]]
        PROVE  started[cur[v]] # claimedAt[v]
    <3>0. Busy(v) BY <2>6, <2>9 DEF SameWork, Busy
    <3>1. Busy(v) /\ ClaimStands(v) BY <1>0, <3>0 DEF ClaimsStand
    <3>2. cur[v] = d BY <1>0, <2>1, <2>9, <3>1 DEF DocTypes, ClaimStands
    <3>3. v # w BY <1>0, <1>8, <2>9 DEF PublishResult, Busy, WorkerTypes
    <3> QED BY <1>0, <2>2, <2>3, <3>1, <3>2, <3>3 DEF ClaimsStand, ClaimStands
  <2>10. ClaimsStand'
    BY <2>1, <2>6, <2>7, <2>8, <2>9, ReleasesKeepClaims
  <2> QED BY <2>4, <2>5, <2>10
<1>9. ASSUME NEW w \in Workers, NEW s \in BOOLEAN, MarkFailed(w, s) PROVE Goal
  <2> DEFINE d == cur[w]
  <2>0. /\ Busy(w) /\ EndDocument(w, d, s)
        /\ UNCHANGED <<now, deleted, attempts, chunks>>
    BY <1>9 DEF MarkFailed, Busy
  <2>1. \A v \in Workers : SameWork(v) \/ ~Busy(v)'
    BY <1>0, <2>0, EndDocumentEffect DEF SameWork, Busy
  <2>2. CASE ~Fence(w)
    <3>1. UNCHANGED docVars BY <1>9, <2>0, <2>2 DEF MarkFailed, docVars
    <3> QED BY <1>0, <1>1, <2>0, <2>1, <3>1 DEF QuietStep
  <2>3. CASE Fence(w)
    <3>1. /\ status' = [status EXCEPT ![d] = "failed"]
          /\ started' = [started EXCEPT ![d] = 0]
      BY <1>9, <2>3 DEF MarkFailed
    <3>2. /\ d \in Docs /\ status[d] = "processing" /\ d \notin deleted
          /\ started[d] = claimedAt[w] /\ run[w] = attempts[d]
      BY <1>0, <2>0, <2>3 DEF Fence, ClaimsStand, ClaimStands
    <3>3. RowsStand'
      BY <1>0, <2>0, <3>1, <3>2 DEF RowsStand, DocTypes
    <3>4. IndexIsOfLastRun'
      BY <1>0, <2>0, <3>1, <3>2
         DEF IndexIsOfLastRun, ReadyDocs, ActiveDocs, Active, DocTypes
    <3>5. \A e \in Docs : status[e] # "none" => status'[e] # "none"
      BY <1>0, <3>1 DEF DocTypes
    <3>6. \A e \in Docs : started'[e] = started[e] \/ started'[e] = 0
      BY <1>0, <3>1 DEF DocTypes
    <3>7. ASSUME NEW v \in Workers, Busy(v)', started'[cur[v]] # started[cur[v]]
          PROVE  started[cur[v]] # claimedAt[v]
      <4>0. Busy(v) BY <2>1, <3>7 DEF SameWork, Busy
      <4>1. Busy(v) /\ ClaimStands(v) BY <1>0, <4>0 DEF ClaimsStand
      <4>2. cur[v] = d BY <1>0, <3>1, <3>7, <4>1 DEF DocTypes, ClaimStands
      <4>3. v # w BY <1>0, <2>0, <3>7, EndDocumentEffect
      <4> QED BY <1>0, <2>0, <3>2, <4>1, <4>2, <4>3 DEF ClaimsStand, ClaimStands
    <3>8. ClaimsStand'
      BY <2>0, <2>1, <3>5, <3>6, <3>7, ReleasesKeepClaims
    <3> QED BY <3>3, <3>4, <3>8
  <2> QED BY <2>2, <2>3
<1> QED
  BY <1>1, <1>3, <1>4, <1>5, <1>6, <1>7, <1>8, <1>9, QuietActions
     DEF Next, RequestStep, WorkerStep, WorkerFault
-----------------------------------------------------------------------------
(* Row locks. *)

(* Workers do not touch targets and requests do not touch workers, so a     *)
(* step can disturb TargetsStand only through the rows or the requests.     *)
LEMMA TargetsStep == Inv /\ TypeOK' /\ [Next]_vars => TargetsStand'
<1> SUFFICES ASSUME Inv, TypeOK', [Next]_vars PROVE TargetsStand'
  OBVIOUS
<1>0. /\ DocTypes /\ WorkerTypes /\ RequestTypes /\ TargetsStand /\ RowsStand
      /\ ClaimsStand /\ ResultLocked
  BY DEF Inv, TypeOK
<1>1. ASSUME UNCHANGED <<rpc, target>>,
             \A d \in Docs : status'[d] = "none" <=> status[d] = "none"
      PROVE  TargetsStand'
  BY <1>0, <1>1 DEF TargetsStand, RequestTypes
<1>2. ASSUME NEW r \in Requests, NEW S \in SUBSET Unused, BeginUpload(r, S)
      PROVE  TargetsStand'
  <2>1. /\ rpc' = [rpc EXCEPT ![r] = "saving"]
        /\ target' = [target EXCEPT ![r] = S]
        /\ status' = status
        /\ \A q \in Requests : rpc[q] # "saving"
    BY <1>2 DEF BeginUpload, docVars, WorkspaceFree
  <2>2. \A d \in S : status[d] = "none" BY DEF Unused
  <2> QED BY <1>0, <2>1, <2>2 DEF TargetsStand, RequestTypes
<1>3. ASSUME NEW r \in Requests, NEW d \in Docs, BeginDelete(r, d) PROVE TargetsStand'
  BY <1>0, <1>3 DEF BeginDelete, TargetsStand, RequestTypes, docVars, Active
<1>4. ASSUME NEW r \in Requests, CommitUpload(r) PROVE TargetsStand'
  <2>1. /\ rpc[r] = "saving"
        /\ rpc' = [rpc EXCEPT ![r] = "uploaded"] /\ target' = target
        /\ \A d \in Docs : status'[d] = IF d \in target[r] THEN "processing" ELSE status[d]
    BY <1>4 DEF CommitUpload
  <2>2. \A q \in Requests : rpc'[q] = "saving" => FALSE
    BY <1>0, <2>1 DEF TargetsStand, RequestTypes
  <2>3. \A q \in Requests : rpc'[q] = "deleting" => rpc[q] = "deleting"
    BY <1>0, <2>1 DEF RequestTypes
  <2>4. \A q \in Requests : target[q] \subseteq Docs
    BY <1>0 DEF RequestTypes
  <2> QED BY <1>0, <2>1, <2>2, <2>3, <2>4 DEF TargetsStand
<1>5. ASSUME NEW r \in Requests, status' = status,
             \A q \in Requests \ {r} : rpc'[q] = rpc[q] /\ target'[q] = target[q],
             rpc'[r] \notin {"saving", "deleting"}
      PROVE  TargetsStand'
  BY <1>0, <1>5 DEF TargetsStand
<1>6. ASSUME NEW r \in Requests,
             \/ CommitDelete(r) \/ EndUpload(r) \/ BroadcastDeletion(r)
             \/ NotifyDeletion(r) \/ Unlink(r) \/ RequestFault(r)
      PROVE  TargetsStand'
  <2>1. status' = status
    BY <1>6 DEF CommitDelete, EndUpload, BroadcastDeletion, NotifyDeletion, Unlink,
                RequestFault, AbortUpload, SkipNotifyDeletion, RequestStops, docVars
  <2>2. CASE EndRequest(r)
    BY <1>0, <1>5, <2>1, <2>2, EndRequestEffect
  <2>3. CASE CommitDelete(r) \/ BroadcastDeletion(r) \/ NotifyDeletion(r)
                \/ SkipNotifyDeletion(r)
    <3>1. /\ \A q \in Requests \ {r} : rpc'[q] = rpc[q] /\ target'[q] = target[q]
          /\ rpc'[r] \notin {"saving", "deleting"}
      BY <1>0, <2>3 DEF CommitDelete, BroadcastDeletion, NotifyDeletion,
                        SkipNotifyDeletion, RequestTypes
    <3> QED BY <1>5, <2>1, <3>1
  <2> QED BY <1>6, <2>2, <2>3 DEF EndUpload, Unlink, RequestFault, AbortUpload,
                                  RequestStops
<1>7. ASSUME NEW w \in Workers, WorkerStep(w) \/ WorkerFault(w) PROVE TargetsStand'
  <2>1. UNCHANGED <<rpc, target>>
    BY <1>7 DEF WorkerStep, WorkerFault, FailTimedOut, SelectPending, Claim,
                SkipDocument, Embed, LockResult, DropResult, PublishResult,
                NotifyReady, SkipNotifyReady, MarkFailed, WorkerDies, requestVars
  <2>2. \A d \in Docs : status'[d] = "none" <=> status[d] = "none"
    <3>1. CASE UNCHANGED status BY <3>1
    <3>2. CASE PublishResult(w)
      <4>1. Fence(w) BY <1>0, <3>2 DEF PublishResult, ResultLocked
      <4> QED BY <1>0, <3>2, <4>1 DEF PublishResult, DocTypes, Fence
    <3>3. CASE \E s \in BOOLEAN : MarkFailed(w, s)
      BY <1>0, <3>3 DEF MarkFailed, DocTypes, Fence
    <3>4. CASE \E s \in BOOLEAN : FailTimedOut(w, s)
      <4>1. \A d \in Oldest(Overdue, BatchLimit) : status[d] = "processing"
        BY DEF Oldest, Overdue
      <4> QED BY <3>4, <4>1 DEF FailTimedOut
    <3> QED
      BY <1>7, <3>1, <3>2, <3>3, <3>4
         DEF WorkerStep, WorkerFault, SelectPending, Claim, SkipDocument, Embed,
             LockResult, DropResult, NotifyReady, SkipNotifyReady, WorkerDies, docVars
  <2> QED BY <1>1, <2>1, <2>2
<1>8. ASSUME NEW d \in Docs, Retry(d) PROVE TargetsStand'
  BY <1>0, <1>1, <1>8 DEF Retry, requestVars, DocTypes
<1>9. ASSUME \/ GetOnboardingStatus \/ MarkMaterialsViewed \/ Tick \/ UNCHANGED vars
             \/ \E r \in Requests, d \in Docs : SaveFile(r, d)
      PROVE  TargetsStand'
  <2>1. UNCHANGED <<rpc, target, status>>
    BY <1>9 DEF GetOnboardingStatus, MarkMaterialsViewed, Tick, vars, SaveFile,
                requestVars, docVars
  <2> QED BY <1>1, <2>1
<1> QED
  BY <1>2, <1>3, <1>4, <1>6, <1>7, <1>8, <1>9 DEF Next, RequestStep

LEMMA LocksStep == Inv /\ TypeOK' /\ [Next]_vars => ResultLocked'
<1> SUFFICES ASSUME Inv, TypeOK', [Next]_vars PROVE ResultLocked'
  OBVIOUS
<1> DEFINE SameClaim(v) == cur'[v] = cur[v] /\ claimedAt'[v] = claimedAt[v]
           SameRow(d) == /\ status'[d] = status[d] /\ started'[d] = started[d]
                         /\ d \in deleted' <=> d \in deleted
<1>0. /\ DocTypes /\ WorkerTypes /\ RequestTypes /\ TargetsStand /\ RowsStand
      /\ ClaimsStand /\ ResultLocked
  BY DEF Inv, TypeOK
(* It is kept by a step that neither locks anything nor moves a row that a  *)
(* finishing worker holds.                                                  *)
<1>1. ASSUME \A v \in Workers : wpc'[v] = "finishing" =>
                  wpc[v] = "finishing" /\ SameClaim(v) /\ SameRow(cur[v]),
             \A q \in Requests : rpc'[q] = "deleting" =>
                  rpc[q] = "deleting" /\ target'[q] = target[q]
      PROVE  ResultLocked'
  <2>1. ASSUME NEW v \in Workers, wpc'[v] = "finishing" PROVE Fence(v)'
    <3>1. Fence(v) /\ SameClaim(v) /\ SameRow(cur[v])
      BY <1>0, <1>1, <2>1 DEF ResultLocked
    <3> QED BY <3>1 DEF Fence
  <2>2. \A u, v \in Workers :
            wpc'[u] = "finishing" /\ wpc'[v] = "finishing" /\ cur'[u] = cur'[v] => u = v
    BY <1>0, <1>1 DEF ResultLocked
  <2>3. \A v \in Workers, q \in Requests :
            wpc'[v] = "finishing" /\ rpc'[q] = "deleting" => cur'[v] \notin target'[q]
    BY <1>0, <1>1 DEF ResultLocked
  <2> QED BY <2>1, <2>2, <2>3 DEF ResultLocked
<1>2. ASSUME NEW r \in Requests,
             \/ \E S \in SUBSET Unused : BeginUpload(r, S)
             \/ RequestStep(r) \/ RequestFault(r)
      PROVE  ResultLocked'
  <2>1. \A v \in Workers : wpc'[v] = wpc[v] /\ SameClaim(v)
    BY <1>2 DEF BeginUpload, RequestStep, RequestFault, SaveFile, CommitUpload,
                EndUpload, CommitDelete, BroadcastDeletion, NotifyDeletion, Unlink,
                AbortUpload, SkipNotifyDeletion, RequestStops, workerVars
  <2>2. \A q \in Requests : rpc'[q] = "deleting" =>
                  rpc[q] = "deleting" /\ target'[q] = target[q]
    <3>1. CASE EndRequest(r) BY <1>0, <3>1, EndRequestEffect
    <3>2. CASE \/ \E S \in SUBSET Unused : BeginUpload(r, S)
               \/ \E d \in Docs : SaveFile(r, d)
               \/ CommitUpload(r) \/ CommitDelete(r) \/ BroadcastDeletion(r)
               \/ NotifyDeletion(r) \/ SkipNotifyDeletion(r)
      BY <1>0, <3>2 DEF BeginUpload, SaveFile, CommitUpload, CommitDelete,
                        BroadcastDeletion, NotifyDeletion, SkipNotifyDeletion,
                        RequestTypes, requestVars
    <3> QED BY <1>2, <3>1, <3>2 DEF RequestStep, RequestFault, EndUpload, Unlink,
                                    AbortUpload, RequestStops
  <2>3. ASSUME NEW v \in Workers, wpc[v] = "finishing" PROVE SameRow(cur[v])
    <3>1. cur[v] \in Docs /\ Fence(v)
      BY <1>0, <2>3 DEF ResultLocked, ClaimsStand, ClaimStands, Busy
    <3>2. CASE CommitUpload(r)
      <4>1. cur[v] \notin target[r]
        BY <1>0, <3>1, <3>2 DEF CommitUpload, TargetsStand, Fence
      <4> QED BY <3>1, <3>2, <4>1 DEF CommitUpload
    <3>3. CASE CommitDelete(r)
      <4>1. cur[v] \notin target[r]
        BY <1>0, <2>3, <3>3 DEF CommitDelete, ResultLocked
      <4> QED BY <3>3, <4>1 DEF CommitDelete
    <3>4. CASE UNCHANGED docVars BY <3>4 DEF docVars
    <3> QED
      BY <1>2, <3>2, <3>3, <3>4
         DEF BeginUpload, RequestStep, RequestFault, SaveFile, EndUpload,
             BroadcastDeletion, NotifyDeletion, Unlink, AbortUpload,
             SkipNotifyDeletion, RequestStops
  <2> QED BY <1>1, <2>1, <2>2, <2>3
<1>3. ASSUME NEW r \in Requests, NEW d \in Docs, BeginDelete(r, d) PROVE ResultLocked'
  <2>1. /\ UNCHANGED <<wpc, cur, claimedAt, status, deleted, started>>
        /\ rpc' = [rpc EXCEPT ![r] = "deleting"]
        /\ target' = [target EXCEPT ![r] = {d}]
        /\ \A v \in Workers : wpc[v] = "finishing" => cur[v] # d
    BY <1>3 DEF BeginDelete, workerVars, docVars, DocFree
  <2>2. \A v \in Workers : Fence(v)' <=> Fence(v)
    BY <2>1 DEF Fence
  <2>3. \A v \in Workers, q \in Requests :
            wpc'[v] = "finishing" /\ rpc'[q] = "deleting" => cur'[v] \notin target'[q]
    BY <1>0, <2>1 DEF ResultLocked, RequestTypes
  <2> QED BY <1>0, <2>1, <2>2, <2>3 DEF ResultLocked
<1>4. ASSUME NEW w \in Workers, LockResult(w) PROVE ResultLocked'
  <2>1. /\ UNCHANGED <<cur, claimedAt, status, deleted, started, rpc, target>>
        /\ wpc' = [wpc EXCEPT ![w] = "finishing"]
        /\ Fence(w) /\ DocFree(cur[w])
    BY <1>4 DEF LockResult, docVars, requestVars
  <2>2. \A v \in Workers : Fence(v)' <=> Fence(v)
    BY <2>1 DEF Fence
  <2>3. \A v \in Workers \ {w} : wpc'[v] = wpc[v]
    BY <1>0, <2>1 DEF WorkerTypes
  <2> QED BY <1>0, <2>1, <2>2, <2>3 DEF ResultLocked, DocFree
<1>5. ASSUME NEW w \in Workers,
             \/ WorkerStep(w) /\ ~LockResult(w)
             \/ WorkerFault(w)
      PROVE  ResultLocked'
  <2>1. UNCHANGED <<rpc, target, deleted>>
    BY <1>5 DEF WorkerStep, WorkerFault, FailTimedOut, SelectPending, Claim,
                SkipDocument, Embed, DropResult, PublishResult, docVars,
                NotifyReady, SkipNotifyReady, MarkFailed, WorkerDies, requestVars
  <2>2. /\ wpc'[w] # "finishing"
        /\ \A v \in Workers \ {w} : wpc'[v] = wpc[v] /\ SameClaim(v)
    <3>1. CASE \E d : EndDocument(w, d, TRUE) \/ EndDocument(w, d, FALSE)
      BY <1>0, <3>1 DEF EndDocument, WorkerTypes
    <3>0. ASSUME \/ SkipDocument(w) \/ DropResult(w) \/ NotifyReady(w)
                 \/ SkipNotifyReady(w) \/ WorkerDies(w)
                 \/ MarkFailed(w, TRUE) \/ MarkFailed(w, FALSE)
          PROVE  \E d : EndDocument(w, d, TRUE) \/ EndDocument(w, d, FALSE)
      BY <3>0 DEF SkipDocument, DropResult, NotifyReady, SkipNotifyReady, MarkFailed,
                  WorkerDies
    <3>2. CASE \/ \E s \in BOOLEAN : FailTimedOut(w, s)
               \/ SelectPending(w) \/ Claim(w) \/ Embed(w) \/ PublishResult(w)
      BY <1>0, <3>2 DEF FailTimedOut, SelectPending, Claim, Embed, PublishResult,
                        WorkerTypes
    <3> QED
      BY <1>5, <3>0, <3>1, <3>2 DEF WorkerStep, WorkerFault
  <2>3. ASSUME NEW v \in Workers, v # w, wpc[v] = "finishing" PROVE SameRow(cur[v])
    <3>1. cur[v] \in Docs /\ Fence(v) /\ claimedAt[v] # 0
      BY <1>0, <2>3 DEF ResultLocked, ClaimsStand, ClaimStands, Busy
    <3>2. CASE Claim(w)
      BY <1>0, <3>1, <3>2 DEF Claim, Claimable, Fence, DocTypes
    <3>3. CASE \E s \in BOOLEAN : FailTimedOut(w, s)
      BY <2>3, <3>1, <3>3 DEF FailTimedOut, DocFree
    <3>4. CASE PublishResult(w)
      <4>1. cur[v] # cur[w] BY <1>0, <2>3, <3>4 DEF PublishResult, ResultLocked
      <4> QED BY <1>0, <3>1, <3>4, <4>1 DEF PublishResult, DocTypes
    <3>5. CASE \E s \in BOOLEAN : MarkFailed(w, s)
      <4>1. cur[v] # cur[w]
        BY <1>0, <2>3, <3>5 DEF MarkFailed, ResultLocked, DocFree
      <4> QED BY <1>0, <2>1, <3>1, <3>5, <4>1 DEF MarkFailed, DocTypes
    <3>6. CASE UNCHANGED docVars BY <3>6 DEF docVars
    <3> QED
      BY <1>5, <3>2, <3>3, <3>4, <3>5, <3>6
         DEF WorkerStep, WorkerFault, SelectPending, SkipDocument, Embed,
             DropResult, NotifyReady, SkipNotifyReady, WorkerDies
  <2> QED BY <1>1, <2>1, <2>2, <2>3
<1>6. ASSUME NEW d \in Docs, Retry(d) PROVE ResultLocked'
  <2>1. \A v \in Workers : wpc'[v] = wpc[v] /\ SameClaim(v)
    BY <1>6 DEF Retry, workerVars
  <2>2. UNCHANGED <<rpc, target, deleted>>
    BY <1>6 DEF Retry, requestVars
  <2>3. ASSUME NEW v \in Workers, wpc[v] = "finishing" PROVE SameRow(cur[v])
    <3>1. cur[v] \in Docs /\ cur[v] # d
      BY <1>0, <1>6, <2>3 DEF Retry, DocFree, ClaimsStand, ClaimStands, Busy
    <3> QED BY <1>0, <1>6, <2>2, <3>1 DEF Retry, DocTypes
  <2> QED BY <1>1, <2>1, <2>2, <2>3
<1>7. ASSUME GetOnboardingStatus \/ MarkMaterialsViewed \/ Tick \/ UNCHANGED vars
      PROVE  ResultLocked'
  <2>1. UNCHANGED docVars /\ UNCHANGED workerVars /\ UNCHANGED requestVars
    BY <1>7 DEF GetOnboardingStatus, MarkMaterialsViewed, Tick, vars
  <2> QED BY <1>1, <2>1 DEF docVars, workerVars, requestVars
<1> QED
  BY <1>2, <1>3, <1>4, <1>5, <1>6, <1>7 DEF Next

-----------------------------------------------------------------------------
(* The theorems. *)

LEMMA InitInv == Init => Inv
<1> SUFFICES ASSUME Init PROVE Inv
  OBVIOUS
<1>1. TypeOK BY InitTypes
<1>2. ResultLocked BY DEF Init, ResultLocked
<1>3. TargetsStand BY DEF Init, TargetsStand
<1>4. RowsStand BY DEF Init, RowsStand
<1>5. ClaimsStand BY DEF Init, ClaimsStand, Busy
<1>6. IndexIsOfLastRun BY DEF Init, IndexIsOfLastRun, ReadyDocs, ActiveDocs, Active
<1> QED BY <1>1, <1>2, <1>3, <1>4, <1>5, <1>6 DEF Inv

LEMMA InvStep == Inv /\ [Next]_vars => Inv'
<1> SUFFICES ASSUME Inv, [Next]_vars PROVE Inv'
  OBVIOUS
<1>1. TypeOK' BY TypesStep DEF Inv
<1> QED BY <1>1, RowsStep, TargetsStep, LocksStep DEF Inv

(* The inductive invariant: row locks, claims and chunks fit together in    *)
(* every state the workers, the requests and their crashes can reach.       *)
THEOREM Invariance == Spec => []Inv
BY InitInv, InvStep, PTL DEF Spec

(* Whatever the workers do and however late they are, retrieval finds the   *)
(* chunks of the latest run of each READY document and no others (the final *)
(* transaction of process_knowledge_document).                              *)
THEOREM IndexIsCurrent == Spec => []IndexIsOfLastRun
<1>1. Inv => IndexIsOfLastRun BY DEF Inv
<1> QED BY <1>1, Invariance, PTL

LEMMA ClaimHonouredStep ==
    ASSUME Inv, [Next]_vars, NEW w \in Workers,
           Busy(w), Fence(w), Busy(w)', cur'[w] = cur[w], ~Fence(w)',
           cur[w] \notin deleted'
    PROVE  claimedAt[w] + ProcessingTimeout < now
<1> DEFINE d == cur[w]
<1>0. /\ DocTypes /\ WorkerTypes /\ RequestTypes /\ ResultLocked
      /\ TargetsStand /\ RowsStand /\ ClaimsStand
  BY DEF Inv, TypeOK
<1>1. /\ d \in Docs /\ status[d] = "processing" /\ d \notin deleted
      /\ started[d] = claimedAt[w] /\ claimedAt[w] # 0 /\ run[w] = attempts[d]
  BY <1>0 DEF ClaimsStand, ClaimStands, Fence
<1>2. ASSUME claimedAt'[w] = claimedAt[w], status'[d] = status[d], started'[d] = started[d]
      PROVE  FALSE
  BY <1>1, <1>2 DEF Fence
<1>3. ASSUME QuietStep PROVE FALSE
  BY <1>2, <1>3 DEF QuietStep, SameWork, docVars
<1>4. ASSUME NEW r \in Requests, CommitUpload(r) PROVE FALSE
  <2>1. d \notin target[r] BY <1>0, <1>1, <1>4 DEF CommitUpload, TargetsStand
  <2> QED BY <1>1, <1>2, <1>4, <2>1 DEF CommitUpload, workerVars
<1>5. ASSUME NEW r \in Requests, CommitDelete(r) PROVE FALSE
  BY <1>2, <1>5 DEF CommitDelete, workerVars
<1>6. ASSUME NEW e \in Docs, Retry(e) PROVE FALSE
  BY <1>0, <1>1, <1>2, <1>6 DEF Retry, workerVars, DocTypes
<1>7. ASSUME NEW v \in Workers, NEW s \in BOOLEAN, FailTimedOut(v, s)
      PROVE  claimedAt[w] + ProcessingTimeout < now
  <2>1. CASE d \in Oldest(Overdue, BatchLimit)
    BY <1>1, <2>1 DEF Oldest, Overdue
  <2>2. CASE d \notin Oldest(Overdue, BatchLimit)
    BY <1>1, <1>2, <1>7, <2>2 DEF FailTimedOut
  <2> QED BY <2>1, <2>2
<1>8. ASSUME NEW v \in Workers, Claim(v) PROVE FALSE
  <2>1. v # w BY <1>8 DEF Claim, Busy
  <2>2. PICK e \in todo[v] :
            /\ Claimable(e)
            /\ started' = [started EXCEPT ![e] = now]
            /\ claimedAt' = [claimedAt EXCEPT ![v] = now]
    BY <1>8 DEF Claim
  <2>3. e # d BY <1>1, <2>2 DEF Claimable
  <2> QED BY <1>0, <1>1, <1>2, <1>8, <2>1, <2>2, <2>3 DEF Claim, DocTypes, WorkerTypes
<1>9. ASSUME NEW v \in Workers, Busy(v), Fence(v), cur[v] = d PROVE v = w
  BY <1>0, <1>1, <1>9 DEF Fence, ClaimsStand, ClaimStands
<1>10. ASSUME NEW v \in Workers, PublishResult(v) PROVE FALSE
  <2>1. v # w BY <1>0, <1>10 DEF PublishResult, Busy, WorkerTypes
  <2>2. cur[v] # d
    BY <1>0, <1>9, <1>10, <2>1 DEF PublishResult, ResultLocked, Busy
  <2> QED BY <1>0, <1>1, <1>2, <1>10, <2>2 DEF PublishResult, DocTypes
<1>11. ASSUME NEW v \in Workers, NEW s \in BOOLEAN, MarkFailed(v, s) PROVE FALSE
  <2>1. Busy(v) /\ EndDocument(v, cur[v], s) BY <1>11 DEF MarkFailed, Busy
  <2>2. v # w BY <1>0, <2>1, EndDocumentEffect
  <2>3. claimedAt'[w] = claimedAt[w] BY <1>0, <2>1, <2>2, EndDocumentEffect
  <2>4. CASE Fence(v)
    <3>1. cur[v] # d BY <1>9, <2>1, <2>2, <2>4
    <3> QED BY <1>0, <1>1, <1>2, <1>11, <2>3, <2>4, <3>1 DEF MarkFailed, DocTypes
  <2>5. CASE ~Fence(v)
    BY <1>2, <1>11, <2>3, <2>5 DEF MarkFailed
  <2> QED BY <2>4, <2>5
<1> QED
  BY <1>3, <1>4, <1>5, <1>6, <1>7, <1>8, <1>10, <1>11, QuietActions
     DEF Next, RequestStep, WorkerStep, WorkerFault

(* A worker that is within PROCESSING_TIMEOUT keeps its document until it   *)
(* has finished with it, unless the document is deleted                     *)
(* (fail_timed_out_knowledge_documents, retry_knowledge_document,           *)
(* _claim_document and _mark_failed of everybody else).                     *)
THEOREM ClaimsAreHonoured == Spec => ClaimHonoured
<1>1. Inv /\ [Next]_vars =>
        [\A w \in Workers :
            Busy(w) /\ Fence(w) /\ Busy(w)' /\ cur'[w] = cur[w] /\ ~Fence(w)'
                => cur[w] \in deleted' \/ claimedAt[w] + ProcessingTimeout < now]_vars
  BY ClaimHonouredStep
<1> QED BY <1>1, Invariance, PTL DEF Spec, ClaimHonoured
-----------------------------------------------------------------------------
(* Bytes and files.  The limits and the storage are beside the index: they  *)
(* have an invariant of their own, on top of Inv.                           *)

Bytes(S) == UNION {{d} \X (1 .. Size[d]) : d \in S}

LEMMA BytesFinite ==
    ASSUME NEW S, S \subseteq Docs PROVE IsFiniteSet(S) /\ IsFiniteSet(Bytes(S))
<1> DEFINE f == [d \in S |-> {d} \X (1 .. Size[d])]
           T == {{d} \X (1 .. Size[d]) : d \in S}
<1>1. IsFiniteSet(S)
  <2>1. IsFiniteSet(Docs) BY FS_Interval DEF Docs
  <2> QED BY <2>1, FS_Subset
<1>2. f \in Surjection(S, T) BY DEF Surjection
<1>3. IsFiniteSet(T)
  <2> HIDE DEF f, T
  <2> QED BY <1>1, <1>2, FS_Surjection
<1>4. ASSUME NEW B \in T PROVE IsFiniteSet(B)
  <2>1. PICK d \in S : B = {d} \X (1 .. Size[d]) OBVIOUS
  <2>2. IsFiniteSet({d}) BY FS_Singleton
  <2>3. Size[d] \in Nat OBVIOUS
  <2>4. IsFiniteSet(1 .. Size[d]) BY <2>3, FS_Interval
  <2> QED BY <2>1, <2>2, <2>4, FS_Product
<1>5. IsFiniteSet(UNION T)
  <2> HIDE DEF T
  <2> QED BY <1>3, <1>4, FS_UNION
<1> QED BY <1>1, <1>5 DEF Bytes

(* Documents and bytes are counted once. *)
LEMMA Sizes ==
    ASSUME NEW S, S \subseteq Docs
    PROVE  /\ Cardinality(S) \in Nat /\ UsedBytes(S) \in Nat
           /\ \A T \in SUBSET S : /\ Cardinality(T) <= Cardinality(S)
                                  /\ UsedBytes(T) <= UsedBytes(S)
<1>1. IsFiniteSet(S) /\ IsFiniteSet(Bytes(S)) BY BytesFinite
<1>2. UsedBytes(S) = Cardinality(Bytes(S)) BY DEF UsedBytes, Bytes
<1>3. ASSUME NEW T \in SUBSET S
      PROVE  Cardinality(T) <= Cardinality(S) /\ UsedBytes(T) <= UsedBytes(S)
  <2>1. Bytes(T) \subseteq Bytes(S) BY DEF Bytes
  <2>2. UsedBytes(T) = Cardinality(Bytes(T)) BY DEF UsedBytes, Bytes
  <2>3. Cardinality(Bytes(T)) <= Cardinality(Bytes(S)) BY <1>1, <2>1, FS_Subset
  <2>4. Cardinality(T) <= Cardinality(S) BY <1>1, FS_Subset
  <2> QED BY <1>2, <2>2, <2>3, <2>4
<1> QED BY <1>1, <1>2, <1>3, FS_CardinalityType

LEMMA DisjointUnion ==
    ASSUME NEW S, NEW T, IsFiniteSet(S), IsFiniteSet(T), S \cap T = {}
    PROVE  Cardinality(S \cup T) = Cardinality(S) + Cardinality(T)
<1>1. Cardinality(S \cup T) = Cardinality(S) + Cardinality(T) - Cardinality(S \cap T)
  BY FS_Union
<1>2. Cardinality(S \cap T) = 0 BY FS_EmptySet
<1>3. Cardinality(S) \in Nat /\ Cardinality(T) \in Nat BY FS_CardinalityType
<1> QED BY <1>1, <1>2, <1>3

LEMMA SizesAdd ==
    ASSUME NEW S, S \subseteq Docs, NEW T, T \subseteq Docs, S \cap T = {}
    PROVE  /\ Cardinality(S \cup T) = Cardinality(S) + Cardinality(T)
           /\ UsedBytes(S \cup T) = UsedBytes(S) + UsedBytes(T)
<1>1. /\ IsFiniteSet(S) /\ IsFiniteSet(T)
      /\ IsFiniteSet(Bytes(S)) /\ IsFiniteSet(Bytes(T))
  BY BytesFinite
<1>2. Bytes(S \cup T) = Bytes(S) \cup Bytes(T) BY DEF Bytes
<1>3. Bytes(S) \cap Bytes(T) = {}
  <2> SUFFICES ASSUME NEW b, b \in Bytes(S), b \in Bytes(T) PROVE FALSE OBVIOUS
  <2>1. PICK d \in S : b \in {d} \X (1 .. Size[d]) BY DEF Bytes
  <2>2. PICK e \in T : b \in {e} \X (1 .. Size[e]) BY DEF Bytes
  <2>3. b[1] = d /\ b[1] = e BY <2>1, <2>2
  <2> QED BY <2>3
<1>4. Cardinality(S \cup T) = Cardinality(S) + Cardinality(T) BY <1>1, DisjointUnion
<1>5. Cardinality(Bytes(S) \cup Bytes(T)) = Cardinality(Bytes(S)) + Cardinality(Bytes(T))
  <2> QED BY <1>1, <1>3, DisjointUnion
<1> QED BY <1>2, <1>4, <1>5 DEF UsedBytes, Bytes

Ending == {"deleted", "notify", "unlink"}

(* An upload has checked the limits for what it will commit. *)
UploadFits(r) ==
    rpc[r] = "saving" =>
        /\ Cardinality(ActiveDocs) + Cardinality(target[r]) <= MaxFiles
        /\ UsedBytes(ActiveDocs) + UsedBytes(target[r]) <= MaxStorage

RoomInv == WithinLimits /\ \A r \in Requests : UploadFits(r)

(* As long as nothing fails, a file without a row is in the hands of an    *)
(* upload that will commit the row, or of a deletion that will remove it.  *)
Handled(d) == \E r \in Requests : d \in target[r] /\ rpc[r] \in Ending \cup {"saving"}

FilesInv ==
    /\ \A r \in Requests : rpc[r] \in Ending => target[r] \subseteq deleted
    /\ faults = 0 => /\ ActiveDocs \subseteq files
                     /\ \A d \in files \ ActiveDocs : Handled(d)

(* Rows appear in CommitUpload and go in CommitDelete only. *)
RowsKept ==
    /\ \A d \in Docs : status'[d] = "none" <=> status[d] = "none"
    /\ UNCHANGED deleted

LEMMA WorkersKeepRows ==
    ASSUME Inv, NEW w \in Workers, WorkerStep(w) \/ WorkerFault(w)
    PROVE  RowsKept /\ UNCHANGED <<rpc, target, files>>
<1>0. DocTypes /\ ResultLocked BY DEF Inv, TypeOK
<1>1. UNCHANGED <<rpc, target, files, deleted>>
  BY DEF WorkerStep, WorkerFault, FailTimedOut, SelectPending, Claim,
         SkipDocument, Embed, LockResult, DropResult, PublishResult,
         NotifyReady, SkipNotifyReady, MarkFailed, WorkerDies, requestVars, docVars
<1>2. CASE UNCHANGED status BY <1>1, <1>2 DEF RowsKept
<1>3. CASE PublishResult(w)
  <2>1. Fence(w) BY <1>0, <1>3 DEF PublishResult, ResultLocked
  <2> QED BY <1>0, <1>1, <1>3, <2>1 DEF PublishResult, DocTypes, Fence, RowsKept
<1>4. CASE \E s \in BOOLEAN : MarkFailed(w, s)
  BY <1>0, <1>1, <1>4 DEF MarkFailed, DocTypes, Fence, RowsKept
<1>5. CASE \E s \in BOOLEAN : FailTimedOut(w, s)
  <2>1. \A d \in Oldest(Overdue, BatchLimit) : status[d] = "processing"
    BY DEF Oldest, Overdue
  <2> QED BY <1>1, <1>5, <2>1 DEF FailTimedOut, RowsKept
<1> QED
  BY <1>2, <1>3, <1>4, <1>5
     DEF WorkerStep, WorkerFault, SelectPending, Claim, SkipDocument, Embed,
         LockResult, DropResult, NotifyReady, SkipNotifyReady, WorkerDies, docVars

LEMMA OthersKeepRows ==
    ASSUME Inv,
           \/ GetOnboardingStatus \/ MarkMaterialsViewed \/ Tick \/ UNCHANGED vars
           \/ \E d \in Docs : Retry(d)
    PROVE  RowsKept /\ UNCHANGED <<rpc, target, files>>
<1>0. DocTypes BY DEF Inv, TypeOK
<1>1. ASSUME NEW d \in Docs, Retry(d) PROVE RowsKept /\ UNCHANGED <<rpc, target, files>>
  BY <1>0, <1>1 DEF Retry, requestVars, DocTypes, RowsKept
<1>2. CASE GetOnboardingStatus \/ MarkMaterialsViewed \/ Tick \/ UNCHANGED vars
  BY <1>2 DEF GetOnboardingStatus, MarkMaterialsViewed, Tick, vars, docVars, requestVars,
              RowsKept
<1> QED BY <1>1, <1>2

(* A failure shows in the number of faults. *)
LEMMA FaultsStay == ASSUME Inv, [Next]_vars PROVE faults' = 0 => faults = 0
<1>0. faults \in Nat BY DEF Inv, TypeOK, WorldTypes
<1>1. faults' = faults \/ faults' = faults + 1
  BY DEF Next, RequestStep, RequestFault, WorkerStep, WorkerFault, BeginUpload, SaveFile,
         CommitUpload, EndUpload, AbortUpload, Retry, BeginDelete, CommitDelete,
         BroadcastDeletion, NotifyDeletion, Unlink, SkipNotifyDeletion, RequestStops,
         GetOnboardingStatus, MarkMaterialsViewed, FailTimedOut, SelectPending, Claim,
         SkipDocument, Embed, LockResult, DropResult, PublishResult, NotifyReady,
         SkipNotifyReady, MarkFailed, WorkerDies, Tick, Fault, FaultUnless, vars
<1> QED BY <1>0, <1>1

(* What a request does to the rows, the files and the other requests. *)
LEMMA RequestEffect ==
    ASSUME Inv, NEW r \in Requests,
           \/ \E S \in SUBSET Unused : BeginUpload(r, S)
           \/ \E d \in Docs : BeginDelete(r, d)
           \/ RequestStep(r) \/ RequestFault(r)
    PROVE  \A q \in Requests \ {r} : rpc'[q] = rpc[q] /\ target'[q] = target[q]
<1>0. RequestTypes BY DEF Inv, TypeOK
<1>1. CASE EndRequest(r) BY <1>0, <1>1, EndRequestEffect
<1>2. CASE \/ \E S \in SUBSET Unused : BeginUpload(r, S)
           \/ \E d \in Docs : BeginDelete(r, d) \/ SaveFile(r, d)
           \/ CommitUpload(r) \/ CommitDelete(r) \/ BroadcastDeletion(r)
           \/ NotifyDeletion(r) \/ SkipNotifyDeletion(r)
  BY <1>0, <1>2 DEF BeginUpload, BeginDelete, SaveFile, CommitUpload, CommitDelete,
                    BroadcastDeletion, NotifyDeletion, SkipNotifyDeletion,
                    RequestTypes, requestVars
<1> QED BY <1>1, <1>2 DEF RequestStep, RequestFault, EndUpload, Unlink, AbortUpload,
                          RequestStops

(* The limits hold when there are no more rows and no other uploads.        *)
LEMMA RoomKept ==
    ASSUME Inv, TypeOK', RoomInv, ActiveDocs' \subseteq ActiveDocs,
           \A r \in Requests : rpc'[r] = "saving" =>
               rpc[r] = "saving" /\ target'[r] = target[r]
    PROVE  RoomInv'
<1>1. ActiveDocs \subseteq Docs BY DEF ActiveDocs
<1>2. PICK A : A = ActiveDocs OBVIOUS
<1>3. PICK B : B = ActiveDocs' OBVIOUS
<1>4. /\ Cardinality(A) \in Nat /\ UsedBytes(A) \in Nat
      /\ Cardinality(B) \in Nat /\ UsedBytes(B) \in Nat
      /\ Cardinality(B) <= Cardinality(A) /\ UsedBytes(B) <= UsedBytes(A)
  <2>1. A \subseteq Docs /\ B \subseteq A /\ B \subseteq Docs BY <1>1, <1>2, <1>3
  <2> QED BY <2>1, Sizes
<1>5. UsedBytes(ActiveDocs)' = UsedBytes(B) BY <1>3 DEF UsedBytes
<1>6. WithinLimits' BY <1>2, <1>3, <1>4, <1>5 DEF RoomInv, WithinLimits
<1>7. ASSUME NEW r \in Requests PROVE UploadFits(r)'
  <2> SUFFICES ASSUME rpc'[r] = "saving"
               PROVE  /\ Cardinality(B) + Cardinality(target[r]) <= MaxFiles
                      /\ UsedBytes(B) + UsedBytes(target[r]) <= MaxStorage
    BY <1>3, <1>5 DEF UploadFits, UsedBytes
  <2>1. target[r] \in SUBSET Docs BY DEF Inv, TypeOK, RequestTypes
  <2>2. Cardinality(target[r]) \in Nat /\ UsedBytes(target[r]) \in Nat BY <2>1, Sizes
  <2>3. /\ Cardinality(A) + Cardinality(target[r]) <= MaxFiles
        /\ UsedBytes(A) + UsedBytes(target[r]) <= MaxStorage
    BY <1>2 DEF RoomInv, UploadFits
  <2> QED BY <1>4, <2>2, <2>3
<1> QED BY <1>6, <1>7 DEF RoomInv
(* The active documents change with the rows. *)
LEMMA ActiveKept == ASSUME RowsKept PROVE ActiveDocs' = ActiveDocs
BY DEF RowsKept, ActiveDocs, Active

LEMMA RoomStep == Inv /\ TypeOK' /\ RoomInv /\ [Next]_vars => RoomInv'
<1> SUFFICES ASSUME Inv, TypeOK', RoomInv, [Next]_vars PROVE RoomInv'
  OBVIOUS
<1>0. DocTypes /\ RequestTypes /\ TargetsStand BY DEF Inv, TypeOK
<1>1. ASSUME RowsKept, UNCHANGED <<rpc, target>> PROVE RoomInv'
  BY <1>1, ActiveKept, RoomKept
<1>2. ASSUME NEW r \in Requests, NEW S \in SUBSET Unused, BeginUpload(r, S) PROVE RoomInv'
  <2>1. /\ WorkspaceFree /\ rpc' = [rpc EXCEPT ![r] = "saving"]
        /\ target' = [target EXCEPT ![r] = S]
        /\ Cardinality(ActiveDocs) + Cardinality(S) <= MaxFiles
        /\ UsedBytes(ActiveDocs) + UsedBytes(S) <= MaxStorage
        /\ UNCHANGED docVars
    BY <1>2 DEF BeginUpload
  <2>2. ActiveDocs' = ActiveDocs /\ UsedBytes(ActiveDocs)' = UsedBytes(ActiveDocs)
    BY <2>1 DEF ActiveDocs, Active, docVars, UsedBytes
  <2>3. WithinLimits' BY <2>2 DEF RoomInv, WithinLimits
  <2>4. ASSUME NEW q \in Requests, rpc'[q] = "saving" PROVE UploadFits(q)'
    <3>1. q = r /\ target'[q] = S
      BY <1>0, <2>1, <2>4 DEF WorkspaceFree, RequestTypes
    <3> QED BY <2>1, <2>2, <3>1 DEF UploadFits, UsedBytes
  <2> QED BY <2>3, <2>4 DEF RoomInv, UploadFits
<1>3. ASSUME NEW r \in Requests, CommitUpload(r) PROVE RoomInv'
  <2>1. /\ rpc[r] = "saving" /\ rpc' = [rpc EXCEPT ![r] = "uploaded"]
        /\ status' = [d \in Docs |-> IF d \in target[r] THEN "processing" ELSE status[d]]
        /\ UNCHANGED deleted
    BY <1>3 DEF CommitUpload
  <2>2. /\ target[r] \subseteq Docs /\ ActiveDocs \subseteq Docs
        /\ \A d \in target[r] : status[d] = "none" /\ d \notin deleted
    BY <1>0, <2>1 DEF RequestTypes, ActiveDocs, TargetsStand, Inv, RowsStand
  <2>3. ActiveDocs' = ActiveDocs \cup target[r] /\ ActiveDocs \cap target[r] = {}
    BY <2>1, <2>2 DEF ActiveDocs, Active
  <2>4. /\ Cardinality(ActiveDocs \cup target[r])
               = Cardinality(ActiveDocs) + Cardinality(target[r])
        /\ UsedBytes(ActiveDocs \cup target[r])
               = UsedBytes(ActiveDocs) + UsedBytes(target[r])
    BY <2>2, <2>3, SizesAdd
  <2>5. UploadFits(r) BY DEF RoomInv
  <2>6. WithinLimits' BY <2>1, <2>3, <2>4, <2>5 DEF WithinLimits, UploadFits, UsedBytes
  <2>7. \A q \in Requests : rpc'[q] # "saving"
    BY <1>0, <2>1 DEF TargetsStand, RequestTypes
  <2> QED BY <2>6, <2>7 DEF RoomInv, UploadFits
<1>4. ASSUME NEW r \in Requests, UNCHANGED docVars, rpc'[r] = "saving" =>
                 rpc[r] = "saving" /\ target'[r] = target[r],
             \A q \in Requests \ {r} : rpc'[q] = rpc[q] /\ target'[q] = target[q]
      PROVE  RoomInv'
  <2>1. ActiveDocs' = ActiveDocs BY <1>4 DEF ActiveDocs, Active, docVars
  <2> QED BY <1>4, <2>1, RoomKept
<1>5. ASSUME NEW r \in Requests,
             \/ \E d \in Docs : BeginDelete(r, d) \/ SaveFile(r, d)
             \/ EndUpload(r) \/ BroadcastDeletion(r) \/ NotifyDeletion(r) \/ Unlink(r)
             \/ RequestFault(r)
      PROVE  RoomInv'
  <2>1. UNCHANGED docVars
    BY <1>5 DEF BeginDelete, SaveFile, EndUpload, BroadcastDeletion, NotifyDeletion, Unlink,
                RequestFault, AbortUpload, SkipNotifyDeletion, RequestStops
  <2>2. \A q \in Requests \ {r} : rpc'[q] = rpc[q] /\ target'[q] = target[q]
    BY <1>5, RequestEffect DEF RequestStep
  <2>3. rpc'[r] = "saving" => rpc[r] = "saving" /\ target'[r] = target[r]
    <3>1. CASE EndRequest(r) BY <1>0, <3>1, EndRequestEffect
    <3>2. CASE \/ \E d \in Docs : BeginDelete(r, d) \/ SaveFile(r, d)
               \/ BroadcastDeletion(r) \/ NotifyDeletion(r) \/ SkipNotifyDeletion(r)
      BY <1>0, <3>2 DEF BeginDelete, SaveFile, BroadcastDeletion, NotifyDeletion,
                        SkipNotifyDeletion, RequestTypes, requestVars
    <3> QED BY <1>5, <3>1, <3>2 DEF EndUpload, Unlink, RequestFault, AbortUpload, RequestStops
  <2> QED BY <1>4, <2>1, <2>2, <2>3
<1>6. ASSUME NEW r \in Requests, CommitDelete(r) PROVE RoomInv'
  <2>1. ActiveDocs' \subseteq ActiveDocs
    BY <1>6 DEF CommitDelete, ActiveDocs, Active
  <2>2. \A q \in Requests : rpc'[q] = "saving" => rpc[q] = "saving" /\ target'[q] = target[q]
    BY <1>0, <1>6 DEF CommitDelete, RequestTypes
  <2> QED BY <2>1, <2>2, RoomKept
<1>7. ASSUME NEW w \in Workers, WorkerStep(w) \/ WorkerFault(w) PROVE RoomInv'
  BY <1>1, <1>7, WorkersKeepRows
<1>8. ASSUME \/ GetOnboardingStatus \/ MarkMaterialsViewed \/ Tick \/ UNCHANGED vars
             \/ \E d \in Docs : Retry(d)
      PROVE  RoomInv'
  BY <1>1, <1>8, OthersKeepRows
<1> QED BY <1>2, <1>3, <1>5, <1>6, <1>7, <1>8 DEF Next, RequestStep

LEMMA FilesStep == Inv /\ TypeOK' /\ FilesInv /\ [Next]_vars => FilesInv'
<1> SUFFICES ASSUME Inv, TypeOK', FilesInv, [Next]_vars PROVE FilesInv'
  OBVIOUS
<1>0. DocTypes /\ RequestTypes /\ TargetsStand BY DEF Inv, TypeOK
<1>1. faults' = 0 => faults = 0 BY FaultsStay
<1>2. ASSUME RowsKept, UNCHANGED <<rpc, target, files>> PROVE FilesInv'
  <2>1. ActiveDocs' = ActiveDocs /\ UNCHANGED deleted BY <1>2, ActiveKept DEF RowsKept
  <2> QED BY <1>1, <1>2, <2>1 DEF FilesInv, Handled
<1>3. ASSUME NEW r \in Requests,
             \A q \in Requests \ {r} : rpc'[q] = rpc[q] /\ target'[q] = target[q],
             UNCHANGED <<status, deleted, files>>,
             rpc[r] \in Ending \cup {"saving"} =>
                 target'[r] = target[r] /\ rpc'[r] \in Ending \cup {"saving"},
             rpc'[r] \in Ending => target'[r] = target[r] /\ rpc[r] \in Ending
      PROVE  FilesInv'
  <2>1. ActiveDocs' = ActiveDocs BY <1>3 DEF ActiveDocs, Active
  <2>2. \A d : Handled(d) => Handled(d)' BY <1>3 DEF Handled
  <2>3. \A q \in Requests : rpc'[q] \in Ending => target'[q] \subseteq deleted'
    BY <1>3 DEF FilesInv
  <2> QED BY <1>1, <1>3, <2>1, <2>2, <2>3 DEF FilesInv
<1>4. ASSUME NEW r \in Requests, NEW S \in SUBSET Unused, BeginUpload(r, S) PROVE FilesInv'
  <2>1. UNCHANGED <<status, deleted, files>> /\ rpc[r] = "idle" /\ rpc'[r] = "saving"
    BY <1>0, <1>4 DEF BeginUpload, docVars, RequestTypes
  <2> QED BY <1>3, <1>4, <2>1, RequestEffect DEF Ending
<1>5. ASSUME NEW r \in Requests, NEW d \in Docs, BeginDelete(r, d) PROVE FilesInv'
  <2>1. UNCHANGED <<status, deleted, files>> /\ rpc[r] = "idle" /\ rpc'[r] = "deleting"
    BY <1>0, <1>5 DEF BeginDelete, docVars, RequestTypes
  <2> QED BY <1>3, <1>5, <2>1, RequestEffect DEF Ending
<1>6. ASSUME NEW r \in Requests, NEW d \in Docs, SaveFile(r, d) PROVE FilesInv'
  <2>1. /\ UNCHANGED <<status, deleted, rpc, target>> /\ files' = files \cup {d}
        /\ rpc[r] = "saving" /\ d \in target[r]
    BY <1>6 DEF SaveFile, docVars, requestVars
  <2>2. ActiveDocs' = ActiveDocs BY <2>1 DEF ActiveDocs, Active
  <2>3. Handled(d)' BY <2>1 DEF Handled
  <2>4. \A e : Handled(e) => Handled(e)' BY <2>1 DEF Handled
  <2> QED BY <1>1, <2>1, <2>2, <2>3, <2>4 DEF FilesInv
<1>7. ASSUME NEW r \in Requests, CommitUpload(r) PROVE FilesInv'
  <2>1. /\ rpc[r] = "saving" /\ rpc' = [rpc EXCEPT ![r] = "uploaded"]
        /\ target[r] \subseteq files
        /\ status' = [d \in Docs |-> IF d \in target[r] THEN "processing" ELSE status[d]]
        /\ UNCHANGED <<deleted, files, target>>
    BY <1>7 DEF CommitUpload
  <2>2. /\ target[r] \subseteq Docs /\ ActiveDocs \subseteq Docs
        /\ \A d \in target[r] : status[d] = "none" /\ d \notin deleted
    BY <1>0, <2>1 DEF RequestTypes, ActiveDocs, TargetsStand, Inv, RowsStand
  <2>3. ActiveDocs' = ActiveDocs \cup target[r]
    BY <2>1, <2>2 DEF ActiveDocs, Active
  <2>4. \A d : Handled(d) => Handled(d)' \/ d \in target[r]
    BY <1>0, <2>1 DEF Handled, RequestTypes
  <2>5. \A q \in Requests : rpc'[q] \in Ending => target'[q] \subseteq deleted'
    BY <1>0, <2>1 DEF FilesInv, Ending, RequestTypes
  <2> QED BY <1>1, <2>1, <2>3, <2>4, <2>5 DEF FilesInv
<1>8. ASSUME NEW r \in Requests, CommitDelete(r) PROVE FilesInv'
  <2>1. /\ rpc[r] = "deleting" /\ rpc' = [rpc EXCEPT ![r] = "deleted"]
        /\ deleted' = deleted \cup target[r]
        /\ UNCHANGED <<status, files, target>>
    BY <1>8 DEF CommitDelete
  <2>2. ActiveDocs' = ActiveDocs \ target[r] BY <2>1 DEF ActiveDocs, Active
  <2>3. \A d \in target[r] : Handled(d)'
    BY <1>0, <2>1 DEF Handled, Ending, RequestTypes
  <2>4. \A d : Handled(d) => Handled(d)'
    BY <1>0, <2>1 DEF Handled, Ending, RequestTypes
  <2>5. \A q \in Requests : rpc'[q] \in Ending => target'[q] \subseteq deleted'
    BY <1>0, <2>1 DEF FilesInv, Ending, RequestTypes
  <2> QED BY <1>1, <2>1, <2>2, <2>3, <2>4, <2>5 DEF FilesInv
<1>9. ASSUME NEW r \in Requests, BroadcastDeletion(r) \/ NotifyDeletion(r)
                                 \/ SkipNotifyDeletion(r)
      PROVE  FilesInv'
  <2>1. /\ UNCHANGED <<status, deleted, files, target>>
        /\ rpc[r] \in Ending /\ rpc'[r] \in Ending
    BY <1>0, <1>9 DEF BroadcastDeletion, NotifyDeletion, SkipNotifyDeletion, docVars,
                      RequestTypes, Ending
  <2>2. \A q \in Requests \ {r} : rpc'[q] = rpc[q] /\ target'[q] = target[q]
    BY <1>9, RequestEffect DEF RequestStep, RequestFault
  <2> QED BY <1>3, <2>1, <2>2
<1>10. ASSUME NEW r \in Requests, EndUpload(r) PROVE FilesInv'
  <2>1. /\ UNCHANGED <<status, deleted, files>>
        /\ rpc[r] = "uploaded" /\ rpc'[r] = "idle"
        /\ \A q \in Requests \ {r} : rpc'[q] = rpc[q] /\ target'[q] = target[q]
    BY <1>0, <1>10, EndRequestEffect DEF EndUpload, docVars
  <2> QED BY <1>3, <2>1 DEF Ending
<1>11. ASSUME NEW r \in Requests, Unlink(r) PROVE FilesInv'
  <2>1. /\ UNCHANGED <<status, deleted>> /\ files' = files \ target[r]
        /\ rpc[r] = "unlink" /\ rpc'[r] = "idle"
        /\ \A q \in Requests \ {r} : rpc'[q] = rpc[q] /\ target'[q] = target[q]
    BY <1>0, <1>11, EndRequestEffect DEF Unlink, docVars
  <2>2. ActiveDocs' = ActiveDocs BY <2>1 DEF ActiveDocs, Active
  <2>3. target[r] \cap ActiveDocs = {}
    BY <2>1 DEF FilesInv, Ending, ActiveDocs, Active
  <2>4. \A d : Handled(d) => Handled(d)' \/ d \in target[r] BY <2>1 DEF Handled
  <2>5. \A q \in Requests : rpc'[q] \in Ending => target'[q] \subseteq deleted'
    BY <2>1 DEF FilesInv, Ending
  <2> QED BY <1>1, <2>1, <2>2, <2>3, <2>4, <2>5 DEF FilesInv
<1>12. ASSUME NEW r \in Requests, AbortUpload(r) \/ RequestStops(r) PROVE FilesInv'
  <2>1. UNCHANGED <<status, deleted>> /\ EndRequest(r) /\ Fault
    BY <1>12 DEF AbortUpload, RequestStops, docVars
  <2>2. faults' # 0 BY <2>1 DEF Fault, Inv, TypeOK, WorldTypes
  <2>3. \A q \in Requests : rpc'[q] \in Ending => target'[q] \subseteq deleted'
    BY <1>0, <2>1, EndRequestEffect DEF FilesInv, Ending
  <2> QED BY <2>2, <2>3 DEF FilesInv
<1>13. ASSUME NEW w \in Workers, WorkerStep(w) \/ WorkerFault(w) PROVE FilesInv'
  BY <1>2, <1>13, WorkersKeepRows
<1>14. ASSUME \/ GetOnboardingStatus \/ MarkMaterialsViewed \/ Tick \/ UNCHANGED vars
              \/ \E d \in Docs : Retry(d)
       PROVE  FilesInv'
  BY <1>2, <1>14, OthersKeepRows
<1> QED BY <1>4, <1>5, <1>6, <1>7, <1>8, <1>9, <1>10, <1>11, <1>12, <1>13, <1>14
        DEF Next, RequestStep, RequestFault

LEMMA InitRoomAndFiles == Init => RoomInv /\ FilesInv
<1> SUFFICES ASSUME Init PROVE RoomInv /\ FilesInv OBVIOUS
<1>1. ActiveDocs = {} BY DEF Init, ActiveDocs, Active
<1>2. Cardinality({}) = 0 /\ UsedBytes({}) = 0
  <2>1. UNION {{d} \X (1 .. Size[d]) : d \in {}} = {} OBVIOUS
  <2> QED BY <2>1, FS_EmptySet DEF UsedBytes
<1>3. WithinLimits BY <1>1, <1>2 DEF WithinLimits
<1>4. \A r \in Requests : rpc[r] = "idle" BY DEF Init
<1>5. RoomInv BY <1>3, <1>4 DEF RoomInv, UploadFits
<1>6. FilesInv BY <1>1, <1>4 DEF FilesInv, Ending, Init
<1> QED BY <1>5, <1>6

(* However many uploads run at the same time, and whichever of them fail,   *)
(* die or cross deletions, the active documents of a workspace are within   *)
(* both of its limits (create_knowledge_documents).                         *)
THEOREM LimitsHold == Spec => []WithinLimits
<1>1. Inv => TypeOK BY DEF Inv
<1>2. RoomInv => WithinLimits BY DEF RoomInv
<1>3. Spec => [](Inv /\ RoomInv)
  <2>1. Init => Inv /\ RoomInv BY InitInv, InitRoomAndFiles
  <2>2. (Inv /\ RoomInv) /\ [Next]_vars => (Inv /\ RoomInv)'
    <3> SUFFICES ASSUME Inv, RoomInv, [Next]_vars PROVE Inv' /\ RoomInv' OBVIOUS
    <3>1. Inv' BY InvStep
    <3>2. TypeOK' BY <3>1 DEF Inv
    <3> QED BY <3>1, <3>2, RoomStep
  <2> QED BY <2>1, <2>2, PTL DEF Spec
<1> QED BY <1>2, <1>3, PTL

(* As long as nothing has failed, a storage at rest has the files of the    *)
(* active documents and no others: whatever uploads, deletions and runs of  *)
(* the workers overlapped (create_knowledge_documents,                      *)
(* delete_knowledge_document).                                              *)
THEOREM StorageMatches == Spec => [](faults = 0 => FilesMatchRows)
<1>1. FilesInv => (faults = 0 => FilesMatchRows)
  <2> SUFFICES ASSUME FilesInv, faults = 0, \A r \in Requests : rpc[r] = "idle"
               PROVE  files = ActiveDocs
    BY DEF FilesMatchRows
  <2>1. \A d : ~Handled(d) BY DEF Handled, Ending
  <2> QED BY <2>1 DEF FilesInv
<1>2. Spec => [](Inv /\ FilesInv)
  <2>1. Init => Inv /\ FilesInv BY InitInv, InitRoomAndFiles
  <2>2. (Inv /\ FilesInv) /\ [Next]_vars => (Inv /\ FilesInv)'
    <3> SUFFICES ASSUME Inv, FilesInv, [Next]_vars PROVE Inv' /\ FilesInv' OBVIOUS
    <3>1. Inv' BY InvStep
    <3>2. TypeOK' BY <3>1 DEF Inv
    <3> QED BY <3>1, <3>2, FilesStep
  <2> QED BY <2>1, <2>2, PTL DEF Spec
<1> QED BY <1>1, <1>2, PTL

-----------------------------------------------------------------------------
(* Theorems about Notices. *)

HIDE LimitsAssumption DEF LimitsAssumption
USE NoticesAssumption DEF NoticesAssumption

Kinds == {"none", "event", "missed"} \cup DailyKinds
Steps == {"idle", "create", "insert", "count", "delete unread", "delete read"}
NoticeRows == [kind : Kinds, about : Tasks \cup Chats \cup {None}, at : Times,
               read : BOOLEAN, deleted : BOOLEAN]

-----------------------------------------------------------------------------
(* The inductive invariant. *)

NoticesWorldTypes ==
    /\ menu \in Menus /\ time \in Times
    /\ due \in [Tasks -> DailyKinds \cup {"none"}]
    /\ unread \in [Chats -> SUBSET Times]
    /\ stopped \in 0 .. MaxStops

RowTypes ==
    /\ notices \in [Ids -> NoticeRows]
    /\ \A i \in Created : 1 .. i \subseteq Created
    /\ counted \in 0 .. MaxNotices

ProcessTypes ==
    /\ pc \in [Processes -> Steps]
    /\ item \in [Processes -> Items \cup {None}]
    /\ listed \in [Processes -> SUBSET Items]

Types == NoticesWorldTypes /\ RowTypes /\ ProcessTypes

BusyWith == {p \in Processes : item[p] # None}

(* A process that will create a notice finds a row for it. *)
RowsSuffice ==
    IsFiniteSet(BusyWith) /\ Cardinality(Created) + Cardinality(BusyWith) <= MaxNotices

(* Who creates what. *)
ItemsFit ==
    \A p \in Processes :
        /\ pc[p] \in {"create", "insert"} <=> item[p] # None
        /\ listed[p] # {} => p \in Scanners
        /\ \A x \in listed[p] : x.kind # "event"
        /\ item[p] # None => (item[p].kind = "event" <=> p \in Handlers)

(* The messages of a chat are committed in the order of their times. *)
MessagesInOrder ==
    /\ \A c \in Chats : \A t \in unread[c] : t <= time
    /\ \A p \in BusyWith :
          /\ item[p].clock <= time
          /\ item[p].kind = "event" =>
                /\ item[p].about \in Chats
                /\ \A t \in unread[item[p].about] : t <= item[p].clock
                /\ \A q \in BusyWith \ {p} :
                      item[q].kind = "event" => item[q].about # item[p].about

(* The time that an unread period of c starts with, now or later. *)
Starts(c) ==
    unread[c] \cup {time} \cup
        {item[p].clock : p \in {q \in BusyWith : item[q].kind = "event" /\ item[q].about = c}}

(* A scan has the start of the day or of the unread period it began in. *)
SinceStands(x) ==
    /\ x.clock <= time
    /\ x.kind \in DailyKinds => x.since = DayStart[x.clock]
    /\ x.kind = "missed" => x.about \in Chats /\ \A t \in Starts(x.about) : x.since <= t

ScansStand ==
    \A s \in Scanners :
        /\ \A x \in listed[s] : SinceStands(x)
        /\ item[s] # None => SinceStands(item[s])

(* With one scan at a time, what it found before it creates a notice still *)
(* holds when it does.                                                     *)
NotNotifiedYet == \A s \in Scanners : item[s] # None => ~Notified(item[s])

NotTwice(c) ==
    \A i, j \in Created :
        /\ notices[i].kind = "missed" /\ notices[i].about = c
        /\ notices[j].kind = "missed" /\ notices[j].about = c
        /\ i # j
        => \A t \in Starts(c) : notices[i].at < t \/ notices[j].at < t

OncePerStart == \A c \in Chats : NotTwice(c)

NothingAhead == \A i \in Created : notices[i].at <= time

IInv == Types /\ RowsSuffice /\ ItemsFit /\ NothingUncounted

ScanInv ==
    /\ MessagesInOrder /\ ScansStand /\ NotNotifiedYet
    /\ NothingAhead /\ OncePerDay /\ OncePerStart

-----------------------------------------------------------------------------
(* Facts about the operators. *)

(* A set of numbers that is not empty has a least element: of the           *)
(* intervals up to its elements one contains no other.                      *)
LEMMA FirstOf ==
    ASSUME NEW S, S \subseteq Nat, S # {}
    PROVE  First(S) \in S /\ \A t \in S : First(S) <= t
<1> DEFINE R == StrictSubsetOrdering(Nat)
           T == {1 .. c : c \in S}
<1>1. PICK A \in T : \A B \in T : <<B, A>> \notin R
  <2>1. IsWellFoundedOn(R, FiniteSubsetsOf(Nat)) BY FS_StrictSubsetOrderingWellFounded
  <2>2. T \subseteq FiniteSubsetsOf(Nat)
    <3>1. \A c \in S : IsFiniteSet(1 .. c) BY FS_Interval
    <3>2. \A c \in S : 1 .. c \in SUBSET Nat OBVIOUS
    <3> QED BY <3>1, <3>2 DEF FiniteSubsetsOf
  <2>3. T # {} OBVIOUS
  <2> HIDE DEF R, T
  <2> QED BY <2>1, <2>2, <2>3, WFMin
<1>2. PICK c \in S : A = 1 .. c OBVIOUS
<1>3. ASSUME NEW d \in S, d < c PROVE FALSE
  <2>1. 1 .. d \in T /\ 1 .. d \subseteq A /\ c \in A /\ c \notin 1 .. d
    BY <1>2, <1>3
  <2>2. <<1 .. d, A>> \in R BY <2>1, <1>2 DEF StrictSubsetOrdering
  <2> QED BY <1>1, <2>1, <2>2
<1>4. \A d \in S : c <= d BY <1>3
<1> QED BY <1>4 DEF First

LEMMA CountsAreBounded ==
    /\ IsFiniteSet(Created) /\ Cardinality(Created) \in 0 .. MaxNotices
    /\ IsFiniteSet(Unread) /\ Cardinality(Unread) \in 0 .. MaxNotices
<1>1. IsFiniteSet(Ids) /\ Cardinality(Ids) = MaxNotices BY FS_Interval DEF Ids
<1>2. \A S \in SUBSET Ids : IsFiniteSet(S) /\ Cardinality(S) \in 0 .. MaxNotices
  BY <1>1, FS_Subset, FS_CardinalityType
<1> QED BY <1>2 DEF Created, Unread, Live

(* Only the flags of notices change. *)
FlagsOnly ==
    /\ notices' \in [Ids -> NoticeRows]
    /\ \A i \in Ids :
          /\ notices'[i].kind = notices[i].kind /\ notices'[i].about = notices[i].about
          /\ notices'[i].at = notices[i].at
          /\ notices[i].deleted => notices'[i].deleted

LEMMA FlagsOnlyEffect ==
    ASSUME FlagsOnly
    PROVE  /\ Created' = Created /\ Live' \subseteq Live
           /\ \A x : About(x)' = About(x)
           /\ RowTypes => (counted' \in 0 .. MaxNotices => RowTypes')
BY DEF FlagsOnly, Created, Live, About, RowTypes

LEMMA UserMarks ==
    ASSUME RowTypes, NEW p \in Processes,
           \/ UpdateRecent(p) \/ MarkAllRead(p) \/ DeleteAll(p)
           \/ \E i \in Ids : MarkRead(p, i) \/ Delete(p, i)
    PROVE  FlagsOnly
<1>1. notices \in [Ids -> NoticeRows] BY DEF RowTypes
<1> DEFINE Marked(row) == {row, [row EXCEPT !.read = FALSE], [row EXCEPT !.read = TRUE],
                           [row EXCEPT !.deleted = TRUE]}
<1>2. ASSUME NEW row \in NoticeRows PROVE Marked(row) \subseteq NoticeRows
  BY DEF NoticeRows
<1>3. ASSUME NEW row \in NoticeRows, NEW r \in Marked(row)
      PROVE  /\ r.kind = row.kind /\ r.about = row.about /\ r.at = row.at
             /\ row.deleted => r.deleted
  BY DEF NoticeRows
<1>0. ASSUME \A i \in Ids : notices'[i] \in Marked(notices[i]),
             notices' = [i \in Ids |-> notices'[i]]
      PROVE  FlagsOnly
  <2> HIDE DEF Marked
  <2>1. \A i \in Ids : notices[i] \in NoticeRows BY <1>1
  <2>2. \A i \in Ids : notices'[i] \in NoticeRows BY <1>0, <1>2, <2>1
  <2>3. notices' \in [Ids -> NoticeRows] BY <1>0, <2>2
  <2> QED BY <1>0, <1>3, <2>1, <2>3 DEF FlagsOnly
<1>4. CASE \E i : notices' = [notices EXCEPT ![i].read = FALSE]
  <2>1. PICK i : notices' = [notices EXCEPT ![i] = [notices[i] EXCEPT !.read = FALSE]]
    BY <1>4
  <2> QED BY <1>0, <1>1, <2>1
<1>5. CASE UpdateRecent(p) BY <1>4, <1>5 DEF UpdateRecent
<1>6. CASE MarkAllRead(p)
  <2>1. notices' = [i \in Ids |-> notices'[i]] BY <1>6 DEF MarkAllRead
  <2>2. \A i \in Ids : notices'[i] \in {notices[i], [notices[i] EXCEPT !.read = TRUE]}
    BY <1>6 DEF MarkAllRead
  <2> QED BY <1>0, <2>1, <2>2
<1>7. CASE DeleteAll(p)
  <2>1. notices' = [i \in Ids |-> notices'[i]] BY <1>7 DEF DeleteAll
  <2>2. \A i \in Ids : notices'[i] \in {notices[i], [notices[i] EXCEPT !.deleted = TRUE]}
    BY <1>7 DEF DeleteAll
  <2> QED BY <1>0, <2>1, <2>2
<1>8. ASSUME NEW i \in Ids, MarkRead(p, i) PROVE FlagsOnly
  <2>1. notices' = [notices EXCEPT ![i] = [notices[i] EXCEPT !.read = TRUE]]
    BY <1>8 DEF MarkRead
  <2> QED BY <1>0, <1>1, <2>1
<1>9. ASSUME NEW i \in Ids, Delete(p, i) PROVE FlagsOnly
  <2>1. notices' = [notices EXCEPT ![i] = [notices[i] EXCEPT !.deleted = TRUE]]
    BY <1>9 DEF Delete
  <2> QED BY <1>0, <1>1, <2>1
<1> QED BY <1>5, <1>6, <1>7, <1>8, <1>9

(* The next row is free as long as the rows suffice. *)
LEMMA NextRow ==
    ASSUME RowTypes, RowsSuffice, NEW p \in BusyWith
    PROVE  /\ First(Ids \ Created) \in Ids \ Created
           /\ \A i \in Ids \ Created : First(Ids \ Created) <= i
<1>1. Cardinality(Created) < MaxNotices
  <2>1. Cardinality(BusyWith) # 0 /\ Cardinality(BusyWith) \in Nat
    BY FS_EmptySet, FS_CardinalityType DEF RowsSuffice
  <2> QED BY <2>1, CountsAreBounded DEF RowsSuffice
<1>2. Ids \ Created # {}
  <2>1. Cardinality(Ids) = MaxNotices BY FS_Interval DEF Ids
  <2>2. Created \subseteq Ids BY DEF Created
  <2>3. Created # Ids BY <1>1, <2>1
  <2> QED BY <2>2, <2>3
<1>3. Ids \ Created \subseteq Nat BY DEF Ids
<1> QED BY <1>2, <1>3, FirstOf

LEMMA InsertEffect ==
    ASSUME Types, RowsSuffice, ItemsFit, NEW p \in Processes, Insert(p)
    PROVE  \E n \in Ids \ Created :
              /\ Created' = Created \cup {n} /\ RowTypes'
              /\ notices'[n] = [kind |-> item[p].kind, about |-> item[p].about,
                                at |-> time, read |-> FALSE, deleted |-> FALSE]
              /\ \A i \in Ids \ {n} : notices'[i] = notices[i]
<1>1. p \in BusyWith /\ item[p] \in Items BY DEF Insert, ItemsFit, BusyWith, Types, ProcessTypes
<1> DEFINE n == First(Ids \ Created)
           row == [kind |-> item[p].kind, about |-> item[p].about,
                   at |-> time, read |-> FALSE, deleted |-> FALSE]
<1>2. n \in Ids \ Created /\ \A i \in Ids \ Created : n <= i
  BY <1>1, NextRow DEF Types
<1>3. notices' = [notices EXCEPT ![n] = row] /\ counted' = counted BY DEF Insert
<1> HIDE DEF n
<1>4. row \in NoticeRows /\ row.kind # "none"
  BY <1>1 DEF NoticeRows, Items, Kinds, DailyKinds, Types, NoticesWorldTypes
<1> HIDE DEF row
<1>5. Created' = Created \cup {n} BY <1>2, <1>3, <1>4 DEF Created, Types, RowTypes
<1>6. \A i \in Created' : 1 .. i \subseteq Created'
  <2>1. \A k \in 1 .. n : k \in Created'
    BY <1>2, <1>5 DEF Ids
  <2> QED BY <1>5, <2>1 DEF Types, RowTypes
<1>7. RowTypes' BY <1>2, <1>3, <1>4, <1>6 DEF Types, RowTypes
<1> QED BY <1>2, <1>3, <1>5, <1>7 DEF row, Types, RowTypes

-----------------------------------------------------------------------------
(* Types, rows and the counter. *)

LEMMA InitIInv == NoticesInit => IInv
<1> SUFFICES ASSUME NoticesInit PROVE IInv
  OBVIOUS
<1>1. Created = {} BY DEF NoticesInit, Created, NoNotice
<1>2. BusyWith = {} BY DEF NoticesInit, BusyWith
<1>3. Cardinality({}) = 0 /\ IsFiniteSet({}) BY FS_EmptySet
<1>4. Types
  <2>1. NoNotice \in NoticeRows BY DEF NoNotice, NoticeRows, Kinds, Times
  <2> QED BY <1>1, <2>1
          DEF NoticesInit, Types, NoticesWorldTypes, RowTypes, ProcessTypes, Steps, Times
<1>5. RowsSuffice BY <1>1, <1>2, <1>3 DEF RowsSuffice
<1>6. ItemsFit BY DEF NoticesInit, ItemsFit
<1>7. NothingUncounted BY <1>1, <1>3 DEF NoticesInit, NothingUncounted, Unread, Live
<1> QED BY <1>4, <1>5, <1>6, <1>7 DEF IInv

(* A step that takes no new row keeps their number sufficient. *)
LEMMA RowsStillSuffice ==
    ASSUME RowsSuffice, Created' = Created, BusyWith' \subseteq BusyWith
    PROVE  RowsSuffice'
<1>1. IsFiniteSet(BusyWith') /\ Cardinality(BusyWith') <= Cardinality(BusyWith)
      /\ Cardinality(BusyWith') \in Nat /\ Cardinality(BusyWith) \in Nat
  BY FS_Subset, FS_CardinalityType DEF RowsSuffice
<1> QED BY <1>1, CountsAreBounded DEF RowsSuffice

LEMMA NoticesTypesStep == ASSUME IInv, [NoticesNext]_noticesVars PROVE Types'
<1> USE DEF IInv, Types
<1>0. ASSUME NEW p \in Processes, NEW s \in Steps, Go(p, s) PROVE pc' \in [Processes -> Steps]
  BY <1>0 DEF Go, ProcessTypes
<1>1. ASSUME NEW p \in Processes, item' = [item EXCEPT ![p] = None]
      PROVE  item' \in [Processes -> Items \cup {None}]
  BY <1>1 DEF ProcessTypes
<1>2. \A p \in Processes : pc[p] = "insert" \/ pc[p] = "create" => item[p] \in Items
  BY DEF ItemsFit, ProcessTypes
<1>3. ASSUME NEW p \in Processes, item[p] \in Items, CommitEvent(item[p]), NoticesWorldTypes
      PROVE  unread' \in [Chats -> SUBSET Times]
  BY <1>3 DEF CommitEvent, NoticesWorldTypes, Items
<1>4. ASSUME NEW p \in Processes, UpdateRecent(p) PROVE Types'
  <2>1. FlagsOnly BY <1>4, UserMarks
  <2>2. RowTypes' BY <1>4, <2>1, FlagsOnlyEffect DEF UpdateRecent, RowTypes
  <2>3. NoticesWorldTypes' BY <1>2, <1>3, <1>4 DEF UpdateRecent, NoticesWorldTypes
  <2>4. ProcessTypes' BY <1>0, <1>1, <1>4 DEF UpdateRecent, AfterUpdate, Steps, ProcessTypes
  <2> QED BY <2>2, <2>3, <2>4
<1>5. ASSUME NEW p \in Processes, Insert(p) PROVE Types'
  <2>1. RowTypes' BY <1>5, InsertEffect
  <2>2. NoticesWorldTypes' BY <1>2, <1>3, <1>5 DEF Insert, NoticesWorldTypes
  <2>3. ProcessTypes' BY <1>0, <1>1, <1>5 DEF Insert, Steps, ProcessTypes
  <2> QED BY <2>1, <2>2, <2>3
<1>6. ASSUME NEW p \in Processes, Count(p) PROVE Types'
  <2>1. RowTypes' BY <1>6, CountsAreBounded DEF Count, RowTypes, Created
  <2>2. NoticesWorldTypes' BY <1>6 DEF Count, worldVars, NoticesWorldTypes
  <2>3. ProcessTypes' BY <1>0, <1>6 DEF Count, Steps, ProcessTypes
  <2> QED BY <2>1, <2>2, <2>3
<1>7. ASSUME NEW p \in Processes,
             \/ MarkAllRead(p) \/ DeleteAll(p)
             \/ \E i \in Ids : MarkRead(p, i) \/ Delete(p, i)
      PROVE  Types'
  <2>1. FlagsOnly BY <1>7, UserMarks
  <2>2. RowTypes'
    BY <1>7, <2>1, FlagsOnlyEffect DEF MarkAllRead, DeleteAll, MarkRead, Delete, RowTypes
  <2>3. NoticesWorldTypes'
    BY <1>7 DEF MarkAllRead, DeleteAll, MarkRead, Delete, worldVars, NoticesWorldTypes
  <2>4. pc' \in [Processes -> Steps]
    BY <1>0, <1>7 DEF MarkAllRead, DeleteAll, MarkRead, Delete, Steps
  <2>5. ProcessTypes'
    BY <1>7, <2>4 DEF MarkAllRead, DeleteAll, MarkRead, Delete, ProcessTypes
  <2> QED BY <2>2, <2>3, <2>5
<1>8. ASSUME NEW p \in Processes, FindNone(p) \/ Stop(p) \/ StartDeleteAll(p) PROVE Types'
  <2>1. RowTypes' BY <1>8 DEF FindNone, Stop, StartDeleteAll, RowTypes, Created
  <2>2. NoticesWorldTypes'
    <3>1. stopped' = stopped \/ (stopped < MaxStops /\ stopped' = stopped + 1)
      BY <1>8 DEF FindNone, Stop, StartDeleteAll
    <3>2. UNCHANGED worldVars BY <1>8 DEF FindNone, Stop, StartDeleteAll
    <3> QED BY <3>1, <3>2 DEF worldVars, NoticesWorldTypes
  <2>3. pc' \in [Processes -> Steps]
    BY <1>0, <1>8 DEF FindNone, Stop, StartDeleteAll, Steps
  <2>4. ProcessTypes' BY <1>8, <2>3 DEF FindNone, Stop, StartDeleteAll, ProcessTypes
  <2> QED BY <2>1, <2>2, <2>4
<1>9. ASSUME NEW p \in Processes, NEW c \in Chats, Arrive(p, c) PROVE Types'
  <2>1. RowTypes' BY <1>9 DEF Arrive, RowTypes, Created
  <2>2. NoticesWorldTypes' BY <1>9 DEF Arrive, worldVars, NoticesWorldTypes
  <2>3. [kind |-> "event", about |-> c, since |-> time, clock |-> time] \in Items
    BY DEF Items, NoticesWorldTypes
  <2>4. ProcessTypes' BY <1>0, <1>9, <2>3 DEF Arrive, ProcessTypes, Steps
  <2> QED BY <2>1, <2>2, <2>4
<1>10. ASSUME NEW s \in Processes, StartDailyScan(s) \/ StartMissedScan(s) PROVE Types'
  <2>1. RowTypes' BY <1>10 DEF StartDailyScan, StartMissedScan, RowTypes, Created
  <2>2. NoticesWorldTypes'
    BY <1>10 DEF StartDailyScan, StartMissedScan, worldVars, NoticesWorldTypes
  <2>3. \A t \in Due : [kind |-> due[t], about |-> t, since |-> Since, clock |-> time] \in Items
    BY DEF Items, NoticesWorldTypes, Since, Due
  <2>4. \A c \in Missed :
            [kind |-> "missed", about |-> c, since |-> First(unread[c]), clock |-> time] \in Items
    <3>1. \A c \in Missed : c \in Chats /\ unread[c] # {} /\ unread[c] \subseteq Times
      BY DEF Missed, NoticesWorldTypes
    <3>2. \A c \in Missed : First(unread[c]) \in Times
      BY <3>1, FirstOf DEF Times
    <3> QED BY <3>1, <3>2 DEF Items, NoticesWorldTypes
  <2>5. listed' \in [Processes -> SUBSET Items]
    BY <1>10, <2>3, <2>4 DEF StartDailyScan, StartMissedScan, ProcessTypes, NoticesWorldTypes
  <2>6. ProcessTypes' BY <1>10, <2>5 DEF StartDailyScan, StartMissedScan, ProcessTypes
  <2> QED BY <2>1, <2>2, <2>6
<1>11. ASSUME NEW s \in Processes, NEW x \in listed[s], SkipItem(s, x) \/ NotifyItem(s, x)
       PROVE  Types'
  <2>0. x \in Items BY DEF ProcessTypes
  <2>1. RowTypes' BY <1>11 DEF SkipItem, NotifyItem, TakeItem, RowTypes, Created
  <2>2. NoticesWorldTypes' BY <1>11 DEF SkipItem, NotifyItem, TakeItem, worldVars, NoticesWorldTypes
  <2>3. pc' \in [Processes -> Steps]
    BY <1>0, <1>11 DEF SkipItem, NotifyItem, Steps, ProcessTypes
  <2>4. item' \in [Processes -> Items \cup {None}]
    BY <1>11, <2>0 DEF SkipItem, NotifyItem, ProcessTypes
  <2>5. ProcessTypes'
    BY <1>11, <2>3, <2>4 DEF SkipItem, NotifyItem, TakeItem, ProcessTypes
  <2> QED BY <2>1, <2>2, <2>5
<1>12. ASSUME \/ \E t \in Tasks : ChangeTask(t)
              \/ \E c \in Chats : ReadChat(c)
              \/ TimePasses \/ UNCHANGED noticesVars
       PROVE  Types'
  <2>1. RowTypes'
    BY <1>12 DEF ChangeTask, ReadChat, TimePasses, noticesVars, RowTypes, Created
  <2>2. NoticesWorldTypes'
    BY <1>12 DEF ChangeTask, ReadChat, TimePasses, noticesVars, worldVars, NoticesWorldTypes, Times
  <2>3. ProcessTypes'
    BY <1>12 DEF ChangeTask, ReadChat, TimePasses, noticesVars, processVars, ProcessTypes
  <2> QED BY <2>1, <2>2, <2>3
<1> QED
  BY <1>4, <1>5, <1>6, <1>7, <1>8, <1>9, <1>10, <1>11, <1>12
     DEF NoticesNext, Hooks, Request, Scan, Processes
LEMMA NoticesRowsStep == ASSUME IInv, [NoticesNext]_noticesVars PROVE RowsSuffice'
<1> USE DEF IInv, Types
<1>0. ASSUME item' = item, FlagsOnly PROVE RowsSuffice'
  BY <1>0, FlagsOnlyEffect, RowsStillSuffice DEF BusyWith
<1>1. ASSUME UNCHANGED <<notices, item>> PROVE RowsSuffice'
  BY <1>1, RowsStillSuffice DEF BusyWith, Created
<1>2. ASSUME NEW p \in Processes, NEW x, UNCHANGED notices, Room,
             item' = [item EXCEPT ![p] = x]
      PROVE  RowsSuffice'
  <2>1. Created' = Created BY <1>2 DEF Created
  <2>2. BusyWith' \subseteq BusyWith \cup {p} BY <1>2 DEF BusyWith, ProcessTypes
  <2>3. /\ IsFiniteSet(BusyWith \cup {p})
        /\ Cardinality(BusyWith \cup {p}) <= Cardinality(BusyWith) + 1
        /\ Cardinality(BusyWith) \in Nat
    <3>1. IsFiniteSet(BusyWith) /\ Cardinality(BusyWith) \in Nat
      BY FS_CardinalityType DEF RowsSuffice
    <3>2. IsFiniteSet(BusyWith \cup {p})
          /\ Cardinality(BusyWith \cup {p}) = IF p \in BusyWith THEN Cardinality(BusyWith)
                                                         ELSE Cardinality(BusyWith) + 1
      BY <3>1, FS_AddElement
    <3> QED BY <3>1, <3>2
  <2>4. IsFiniteSet(BusyWith') /\ Cardinality(BusyWith') <= Cardinality(BusyWith \cup {p})
        /\ Cardinality(BusyWith') \in Nat /\ Cardinality(BusyWith \cup {p}) \in Nat
    BY <2>2, <2>3, FS_Subset, FS_CardinalityType
  <2>5. Cardinality(Created) + Cardinality(BusyWith) < MaxNotices
    BY <1>2 DEF Room, BusyWith
  <2> QED BY <2>1, <2>3, <2>4, <2>5, CountsAreBounded DEF RowsSuffice
<1>3. ASSUME NEW p \in Processes, Insert(p) PROVE RowsSuffice'
  <2>1. p \in BusyWith BY <1>3 DEF Insert, ItemsFit, BusyWith
  <2>2. BusyWith' = BusyWith \ {p} BY <1>3 DEF Insert, BusyWith, ProcessTypes
  <2>3. PICK n \in Ids \ Created : Created' = Created \cup {n} BY <1>3, InsertEffect
  <2>4. IsFiniteSet(BusyWith') /\ Cardinality(BusyWith') = Cardinality(BusyWith) - 1
    BY <2>1, <2>2, FS_RemoveElement DEF RowsSuffice
  <2>5. Cardinality(Created') = Cardinality(Created) + 1
    BY <2>3, CountsAreBounded, FS_AddElement
  <2> QED BY <2>4, <2>5, CountsAreBounded, FS_CardinalityType DEF RowsSuffice
<1>4. ASSUME NEW p \in Processes, UpdateRecent(p) PROVE RowsSuffice'
  <2>1. FlagsOnly BY <1>4, UserMarks
  <2>2. BusyWith' \subseteq BusyWith BY <1>4 DEF UpdateRecent, BusyWith, ProcessTypes
  <2> QED BY <2>1, <2>2, FlagsOnlyEffect, RowsStillSuffice
<1>5. ASSUME NEW p \in Processes, Stop(p) PROVE RowsSuffice'
  <2>1. BusyWith' \subseteq BusyWith BY <1>5 DEF Stop, BusyWith, ProcessTypes
  <2> QED BY <1>5, <2>1, RowsStillSuffice DEF Stop, Created
<1>6. ASSUME NEW p \in Processes,
             \/ MarkAllRead(p) \/ DeleteAll(p)
             \/ \E i \in Ids : MarkRead(p, i) \/ Delete(p, i)
      PROVE  RowsSuffice'
  BY <1>0, <1>6, UserMarks DEF MarkAllRead, DeleteAll, MarkRead, Delete
<1>7. ASSUME NEW p \in Processes, NEW c \in Chats, Arrive(p, c) PROVE RowsSuffice'
  BY <1>2, <1>7 DEF Arrive
<1>8. ASSUME NEW s \in Processes, NEW x, NotifyItem(s, x) PROVE RowsSuffice'
  BY <1>2, <1>8 DEF NotifyItem, TakeItem
<1>9. ASSUME NEW p \in Processes,
             \/ FindNone(p) \/ Count(p) \/ StartDeleteAll(p)
             \/ StartDailyScan(p) \/ StartMissedScan(p)
             \/ \E x \in listed[p] : SkipItem(p, x)
      PROVE  RowsSuffice'
  BY <1>1, <1>9 DEF FindNone, Count, StartDeleteAll, StartDailyScan, StartMissedScan,
     SkipItem, TakeItem
<1>10. ASSUME \/ \E t \in Tasks : ChangeTask(t)
              \/ \E c \in Chats : ReadChat(c)
              \/ TimePasses \/ UNCHANGED noticesVars
       PROVE  RowsSuffice'
  BY <1>1, <1>10 DEF ChangeTask, ReadChat, TimePasses, noticesVars, processVars
<1> QED
  BY <1>3, <1>4, <1>5, <1>6, <1>7, <1>8, <1>9, <1>10
     DEF NoticesNext, Hooks, Request, Scan, Processes

(* Every other process keeps its step and its item. *)
Alone(p) ==
    /\ \A q \in Processes \ {p} : pc'[q] = pc[q] /\ item'[q] = item[q] /\ listed'[q] = listed[q]
    /\ \A x \in listed'[p] \ listed[p] : x.kind # "event"
    /\ listed'[p] # {} => p \in Scanners
    /\ pc'[p] \in {"create", "insert"} <=> item'[p] # None
    /\ item'[p] # None => (item'[p].kind = "event" <=> p \in Handlers)

(* What a scan lists of a task is neither of an event nor of missed messages. *)
LEMMA DueKinds ==
    ASSUME NoticesWorldTypes, NEW t \in Due
    PROVE  t \in Tasks /\ due[t] \in DailyKinds /\ due[t] # "event" /\ due[t] # "missed"
BY DEF NoticesWorldTypes, Due, DailyKinds

LEMMA ProcessStep ==
    ASSUME IInv, NEW p \in Processes,
           Hooks(p) \/ (p \in Handlers /\ Request(p)) \/ (p \in Scanners /\ Scan(p))
    PROVE  Alone(p)
<1> USE DEF IInv, Types, ProcessTypes, ItemsFit, Go
<1>1. CASE UpdateRecent(p) BY <1>1 DEF UpdateRecent, AfterUpdate, Alone
<1>2. CASE FindNone(p) BY <1>2 DEF FindNone, Alone
<1>3. CASE Insert(p) BY <1>3 DEF Insert, Alone
<1>4. CASE Count(p) BY <1>4 DEF Count, Alone
<1>5. CASE Stop(p) BY <1>5 DEF Stop, Alone
<1>6. ASSUME p \in Handlers, NEW c \in Chats, Arrive(p, c) PROVE Alone(p)
  <2>1. [kind |-> "event", about |-> c, since |-> time, clock |-> time] \in Items
    BY DEF Items, NoticesWorldTypes
  <2>2. item'[p] = [kind |-> "event", about |-> c, since |-> time, clock |-> time]
        /\ pc'[p] = "create" /\ listed' = listed
        /\ \A q \in Processes \ {p} : pc'[q] = pc[q] /\ item'[q] = item[q]
    BY <1>6 DEF Arrive
  <2> QED BY <1>6, <2>1, <2>2 DEF Alone
<1>7. CASE MarkAllRead(p) BY <1>7 DEF MarkAllRead, Free, Alone
<1>8. ASSUME NEW i \in Ids, MarkRead(p, i) PROVE Alone(p)
  BY <1>8 DEF MarkRead, Free, Alone
<1>9. ASSUME NEW i \in Ids, Delete(p, i) PROVE Alone(p)
  BY <1>9 DEF Delete, Free, Alone
<1>10. CASE StartDeleteAll(p) BY <1>10 DEF StartDeleteAll, Free, Alone
<1>11. CASE DeleteAll(p) BY <1>11 DEF DeleteAll, Alone
<1>12. CASE p \in Scanners /\ StartDailyScan(p)
  BY <1>12, DueKinds DEF StartDailyScan, Free, Alone
<1>13. CASE p \in Scanners /\ StartMissedScan(p)
  BY <1>13 DEF StartMissedScan, Free, Alone
<1>14. ASSUME NEW x \in listed[p], SkipItem(p, x) PROVE Alone(p)
  BY <1>14 DEF SkipItem, TakeItem, Alone
<1>15. ASSUME NEW x \in listed[p], NotifyItem(p, x) PROVE Alone(p)
  <2>1. x \in Items /\ x.kind # "event" /\ p \in Scanners /\ x # None OBVIOUS
  <2>2. item'[p] = x /\ pc'[p] = "create" /\ listed'[p] \subseteq listed[p]
        /\ \A q \in Processes \ {p} : pc'[q] = pc[q] /\ item'[q] = item[q] /\ listed'[q] = listed[q]
    BY <1>15 DEF NotifyItem, TakeItem
  <2> QED BY <2>1, <2>2 DEF Alone
<1> QED
  BY <1>1, <1>2, <1>3, <1>4, <1>5, <1>6, <1>7, <1>8, <1>9, <1>10, <1>11, <1>12,
     <1>13, <1>14, <1>15 DEF Hooks, Request, Scan

LEMMA ItemsStep == ASSUME IInv, [NoticesNext]_noticesVars PROVE ItemsFit'
<1>1. ASSUME NEW p \in Processes, Alone(p) PROVE ItemsFit'
  BY <1>1 DEF IInv, ItemsFit, Alone
<1>2. ASSUME UNCHANGED processVars PROVE ItemsFit'
  BY <1>2 DEF IInv, ItemsFit, processVars
<1>3. CASE \/ \E t \in Tasks : ChangeTask(t)
           \/ \E c \in Chats : ReadChat(c)
           \/ TimePasses \/ UNCHANGED noticesVars
  BY <1>2, <1>3 DEF ChangeTask, ReadChat, TimePasses, noticesVars
<1> QED BY <1>1, <1>3, ProcessStep DEF NoticesNext, Processes

LEMMA CounterStep == ASSUME IInv, [NoticesNext]_noticesVars PROVE NothingUncounted'
<1> USE DEF IInv, Types, ProcessTypes, Go
<1>1. ASSUME NEW p \in Processes, pc'[p] = "count" PROVE NothingUncounted'
  BY <1>1 DEF NothingUncounted
<1>2. ASSUME Unread' = Unread, counted' = counted, stopped' = stopped,
             \A p \in Processes : pc[p] = "count" => pc'[p] = "count"
      PROVE  NothingUncounted'
  BY <1>2 DEF NothingUncounted
<1>3. ASSUME notices' = notices PROVE Unread' = Unread
  BY <1>3 DEF Unread, Live, Created
<1>4. ASSUME NEW p \in Processes, Count(p) PROVE NothingUncounted'
  BY <1>3, <1>4, CountsAreBounded DEF Count, NothingUncounted
<1>5. ASSUME NEW p \in Processes, Stop(p) PROVE NothingUncounted'
  BY <1>5 DEF Stop, NothingUncounted, NoticesWorldTypes
<1>6. ASSUME NEW p \in Processes, NEW i \in Ids, Delete(p, i) PROVE NothingUncounted'
  <2>1. CASE i \in Unread BY <1>1, <1>6, <2>1 DEF Delete
  <2>2. CASE i \notin Unread
    <3>1. Unread' = Unread
      <4>1. notices' = [notices EXCEPT ![i] = [notices[i] EXCEPT !.deleted = TRUE]]
            /\ notices[i] \in NoticeRows
        BY <1>6 DEF Delete, RowTypes
      <4>2. \A j \in Ids \ {i} : notices'[j] = notices[j] BY <4>1 DEF RowTypes
      <4>3. notices'[i].read = notices[i].read BY <4>1 DEF RowTypes, NoticeRows
      <4>4. i \notin Unread'
        BY <1>6, <2>2, <4>3 DEF Delete, Unread, Live
      <4> QED BY <2>2, <4>2, <4>4 DEF Unread, Live, Created
    <3> QED BY <1>2, <1>6, <2>2, <3>1 DEF Delete, Free
  <2> QED BY <2>1, <2>2
<1>7. ASSUME NEW p \in Processes, DeleteAll(p) PROVE NothingUncounted'
  <2>1. Unread' = {}
    <3>1. \A i \in Ids : i \in Live => notices'[i].deleted
      BY <1>7 DEF DeleteAll, RowTypes, NoticeRows
    <3>2. \A i \in Ids \ Live : notices'[i] = notices[i] BY <1>7 DEF DeleteAll
    <3> QED BY <3>1, <3>2 DEF Unread, Live, Created
  <2>2. counted' \in Nat
    <3>1. counted' = counted BY <1>7 DEF DeleteAll
    <3> QED BY <3>1 DEF RowTypes
  <2>3. Cardinality({}) = 0 BY FS_EmptySet
  <2>4. counted' >= Cardinality(Unread') BY <2>1, <2>2, <2>3
  <2> QED BY <2>4 DEF NothingUncounted
<1>8. ASSUME NEW p \in Processes, UpdateRecent(p) \/ Insert(p) PROVE NothingUncounted'
  BY <1>1, <1>8 DEF UpdateRecent, Insert, AfterUpdate
<1>9. ASSUME NEW p \in Processes, MarkAllRead(p) \/ (\E i \in Ids : MarkRead(p, i))
      PROVE  NothingUncounted'
  BY <1>1, <1>9 DEF MarkAllRead, MarkRead
<1>10. ASSUME NEW p \in Processes, FindNone(p) \/ StartDeleteAll(p) PROVE NothingUncounted'
  BY <1>2, <1>3, <1>10 DEF FindNone, StartDeleteAll, Free
<1>11. ASSUME NEW p \in Processes, NEW c \in Chats, Arrive(p, c) PROVE NothingUncounted'
  BY <1>2, <1>3, <1>11 DEF Arrive, Free
<1>12. ASSUME NEW p \in Processes, StartDailyScan(p) \/ StartMissedScan(p)
       PROVE  NothingUncounted'
  BY <1>2, <1>3, <1>12 DEF StartDailyScan, StartMissedScan
<1>13. ASSUME NEW p \in Processes, NEW x, SkipItem(p, x) \/ NotifyItem(p, x)
       PROVE  NothingUncounted'
  BY <1>2, <1>3, <1>13 DEF SkipItem, NotifyItem, TakeItem
<1>14. ASSUME \/ \E t \in Tasks : ChangeTask(t)
              \/ \E c \in Chats : ReadChat(c)
              \/ TimePasses \/ UNCHANGED noticesVars
       PROVE  NothingUncounted'
  BY <1>2, <1>3, <1>14 DEF ChangeTask, ReadChat, TimePasses, noticesVars, processVars
<1> QED
  BY <1>4, <1>5, <1>6, <1>7, <1>8, <1>9, <1>10, <1>11, <1>12, <1>13, <1>14
     DEF NoticesNext, Hooks, Request, Scan, Processes

LEMMA IInvStep == IInv /\ [NoticesNext]_noticesVars => IInv'
BY NoticesTypesStep, NoticesRowsStep, ItemsStep, CounterStep DEF IInv

LEMMA IInvIsInv == IInv => NoticesInv
BY CountsAreBounded
   DEF IInv, Types, NoticesWorldTypes, RowTypes, ProcessTypes, NoticesInv, NoticesTypeOK,
       NoticeRows, Steps, Created

(* Whoever reads, deletes or creates notices meanwhile, the last count read *)
(* is not too small (_broadcast_unread_count behind each commit).           *)
THEOREM NoticesInvariance == NoticesSpec => []NoticesInv
<1> QED BY InitIInv, IInvStep, IInvIsInv, PTL DEF NoticesSpec

-----------------------------------------------------------------------------
(* The scans, one at a time. *)

LEMMA InitScanInv == NoticesInit => ScanInv
<1> SUFFICES ASSUME NoticesInit PROVE ScanInv
  OBVIOUS
<1>1. Created = {} /\ BusyWith = {} BY DEF NoticesInit, Created, NoNotice, BusyWith
<1>2. MessagesInOrder BY <1>1 DEF NoticesInit, MessagesInOrder
<1>3. ScansStand /\ NotNotifiedYet BY DEF NoticesInit, ScansStand, NotNotifiedYet, Processes
<1>4. NothingAhead /\ OncePerStart BY <1>1 DEF NothingAhead, OncePerStart, NotTwice
<1>5. OncePerDay BY <1>1 DEF OncePerDay, Live
<1> QED BY <1>2, <1>3, <1>4, <1>5 DEF ScanInv

(* A step that creates no notice and takes nothing new in hand leaves the   *)
(* history of the notices as it is.                                         *)
LEMMA NoticesRowsStand ==
    ASSUME ScanInv, FlagsOnly, time' = time, \A c \in Chats : Starts(c)' \subseteq Starts(c)
    PROVE  NothingAhead' /\ OncePerDay' /\ OncePerStart'
<1>1. Created' = Created /\ Live' \subseteq Live /\ Created \subseteq Ids
  BY FlagsOnlyEffect DEF Created
<1>2. Live \subseteq Ids BY DEF Live, Created
<1>3. NothingAhead' BY <1>1 DEF ScanInv, NothingAhead, FlagsOnly
<1>4. OncePerDay' BY <1>1, <1>2 DEF ScanInv, OncePerDay, FlagsOnly
<1>5. OncePerStart' BY <1>1 DEF ScanInv, OncePerStart, NotTwice, FlagsOnly
<1> QED BY <1>3, <1>4, <1>5

LEMMA StillNotNotified ==
    ASSUME FlagsOnly, NEW x, ~Notified(x) PROVE ~Notified(x)'
BY FlagsOnlyEffect
   DEF Notified, NotifiedToday, NotifiedForPeriod, FlagsOnly, About, Live, Created

LEMMA SinceStillStands ==
    ASSUME NEW x, SinceStands(x), time' = time,
           \A c \in Chats : Starts(c)' \subseteq Starts(c)
    PROVE  SinceStands(x)'
BY DEF SinceStands

(* A period can start earlier only with the message of a later one.         *)
LEMMA StartsShrink ==
    ASSUME time' = time, \A c \in Chats : unread'[c] \subseteq Starts(c),
           \A p \in Processes :
               \/ item'[p] \in {item[p], None}
               \/ item'[p].kind # "event" \/ item'[p].clock = time
    PROVE  \A c \in Chats : Starts(c)' \subseteq Starts(c)
BY DEF Starts, BusyWith

LEMMA StartsStep ==
    ASSUME IInv, ScanInv, [NoticesNext]_noticesVars, ~TimePasses
    PROVE  time' = time /\ \A c \in Chats : Starts(c)' \subseteq Starts(c)
<1> USE DEF IInv, Types, ProcessTypes, NoticesWorldTypes
<1>0. \A c \in Chats : unread[c] \subseteq Starts(c) BY DEF Starts
<1>1. ASSUME NEW p \in Processes, p \in BusyWith, time' = time, CommitEvent(item[p]),
             item' = [item EXCEPT ![p] = None]
      PROVE  \A c \in Chats : Starts(c)' \subseteq Starts(c)
  <2>1. \A c \in Chats : unread'[c] \subseteq Starts(c)
    BY <1>1 DEF CommitEvent, Starts
  <2> QED BY <1>1, <2>1, StartsShrink
<1>2. ASSUME NEW p \in Processes, UpdateRecent(p) \/ Insert(p)
      PROVE  time' = time /\ \A c \in Chats : Starts(c)' \subseteq Starts(c)
  BY <1>1, <1>2 DEF UpdateRecent, Insert, BusyWith, ItemsFit
<1>3. ASSUME UNCHANGED <<time, unread, item>>
      PROVE  time' = time /\ \A c \in Chats : Starts(c)' \subseteq Starts(c)
  BY <1>0, <1>3, StartsShrink
<1>4. ASSUME NEW p \in Processes, Stop(p)
      PROVE  time' = time /\ \A c \in Chats : Starts(c)' \subseteq Starts(c)
  BY <1>0, <1>4, StartsShrink DEF Stop, worldVars
<1>5. ASSUME NEW p \in Processes, NEW c \in Chats, Arrive(p, c)
      PROVE  time' = time /\ \A d \in Chats : Starts(d)' \subseteq Starts(d)
  <2>1. \A q \in Processes : item'[q] = item[q] \/ item'[q].clock = time
    BY <1>5 DEF Arrive
  <2>2. UNCHANGED <<time, unread>> BY <1>5 DEF Arrive, worldVars
  <2> QED BY <1>0, <2>1, <2>2, StartsShrink
<1>6. ASSUME NEW s \in Processes, NEW x \in listed[s], NotifyItem(s, x)
      PROVE  time' = time /\ \A c \in Chats : Starts(c)' \subseteq Starts(c)
  <2>1. \A q \in Processes : item'[q] = item[q] \/ item'[q].kind # "event"
    BY <1>6 DEF NotifyItem, ItemsFit
  <2>2. UNCHANGED <<time, unread>> BY <1>6 DEF NotifyItem, TakeItem, worldVars
  <2> QED BY <1>0, <2>1, <2>2, StartsShrink
<1>7. ASSUME NEW c \in Chats, ReadChat(c)
      PROVE  time' = time /\ \A d \in Chats : Starts(d)' \subseteq Starts(d)
  <2>1. \A d \in Chats : unread'[d] \subseteq unread[d] BY <1>7 DEF ReadChat
  <2>2. UNCHANGED <<time, item>> BY <1>7 DEF ReadChat, processVars
  <2> QED BY <1>0, <2>1, <2>2, StartsShrink
<1>8. ASSUME NEW p \in Processes,
             \/ FindNone(p) \/ Count(p) \/ MarkAllRead(p) \/ StartDeleteAll(p) \/ DeleteAll(p)
             \/ StartDailyScan(p) \/ StartMissedScan(p)
             \/ \E i \in Ids : MarkRead(p, i) \/ Delete(p, i)
             \/ \E x \in listed[p] : SkipItem(p, x)
      PROVE  UNCHANGED <<time, unread, item>>
  BY <1>8 DEF FindNone, Count, MarkAllRead, StartDeleteAll, DeleteAll, StartDailyScan,
     StartMissedScan, MarkRead, Delete, SkipItem, TakeItem, worldVars
<1>9. ASSUME (\E t \in Tasks : ChangeTask(t)) \/ UNCHANGED noticesVars
      PROVE  UNCHANGED <<time, unread, item>>
  BY <1>9 DEF ChangeTask, noticesVars, worldVars, processVars
<1> QED
  BY <1>2, <1>3, <1>4, <1>5, <1>6, <1>7, <1>8, <1>9
     DEF NoticesNext, Hooks, Request, Scan, Processes

(* A message that is committed was the only one on its way to its chat.     *)
LEMMA OrderKept ==
    ASSUME IInv, MessagesInOrder, time' \in Times, time <= time',
           \A p \in Processes :
               \/ item'[p] \in {item[p], None}
               \/ item'[p].kind # "event" /\ item'[p].clock <= time,
           \A p \in Processes : item'[p] \in Items \cup {None},
           \A c \in Chats : unread'[c] \subseteq Times,
           \A c \in Chats : \A t \in unread'[c] :
               \/ t \in unread[c]
               \/ \E p \in BusyWith : item[p].kind = "event" /\ item[p].about = c
                                  /\ item[p].clock = t /\ item'[p] = None
    PROVE  MessagesInOrder'
<1>0. time \in Times /\ \A c \in Chats : unread[c] \subseteq Times
  BY DEF IInv, Types, NoticesWorldTypes
<1>1. \A p \in BusyWith : item[p] \in Items BY DEF BusyWith, IInv, Types, ProcessTypes
<1>2. \A c \in Chats : \A t \in unread'[c] : t <= time'
  BY <1>0, <1>1 DEF MessagesInOrder, Items, Times
<1>3. ASSUME NEW p \in BusyWith' PROVE item'[p].clock <= time'
  <2>1. p \in Processes /\ item'[p] # None BY DEF BusyWith
  <2>2. CASE item'[p] = item[p]
    BY <1>0, <1>1, <2>1, <2>2 DEF BusyWith, MessagesInOrder, Items, Times
  <2>3. CASE item'[p].clock <= time BY <1>0, <2>1, <2>3 DEF Items, Times
  <2> QED BY <2>1, <2>2, <2>3
<1>4. ASSUME NEW p \in BusyWith', item'[p].kind = "event"
      PROVE  item'[p] = item[p] /\ p \in BusyWith
  BY <1>4 DEF BusyWith
<1>5. ASSUME NEW p \in BusyWith', item'[p].kind = "event", NEW t \in unread'[item'[p].about]
      PROVE  t <= item'[p].clock
  BY <1>4, <1>5 DEF MessagesInOrder, BusyWith
<1> QED BY <1>2, <1>3, <1>4, <1>5 DEF MessagesInOrder

LEMMA OrderStep ==
    ASSUME IInv, ScanInv, [NoticesNext]_noticesVars
    PROVE  MessagesInOrder'
<1> USE DEF IInv, Types, ProcessTypes, NoticesWorldTypes, ScanInv
<1>0. Types' BY NoticesTypesStep
<1>1. \A p \in Processes : item'[p] \in Items \cup {None} BY <1>0
<1>2. time' \in Times /\ \A c \in Chats : unread'[c] \subseteq Times BY <1>0
<1>3. time <= time
  BY DEF Times
<1>4. ASSUME NEW p \in Processes, UpdateRecent(p) \/ Insert(p) PROVE MessagesInOrder'
  <2>1. p \in BusyWith /\ time' = time /\ CommitEvent(item[p]) /\ item'[p] = None
        /\ \A q \in Processes : item'[q] \in {item[q], None}
    BY <1>4 DEF UpdateRecent, Insert, BusyWith, ItemsFit
  <2>2. \A c \in Chats : \A t \in unread'[c] :
            t \in unread[c] \/ (item[p].kind = "event" /\ item[p].about = c /\ item[p].clock = t)
    BY <2>1 DEF CommitEvent
  <2> QED BY <1>1, <1>2, <1>3, <2>1, <2>2, OrderKept
<1>5. ASSUME UNCHANGED <<time, unread, item>> PROVE MessagesInOrder'
  BY <1>5 DEF MessagesInOrder, BusyWith
<1>6. ASSUME NEW p \in Processes, Stop(p) PROVE MessagesInOrder'
  <2>1. UNCHANGED <<time, unread>> /\ \A q \in Processes : item'[q] \in {item[q], None}
    BY <1>6 DEF Stop, worldVars
  <2> QED BY <1>1, <1>2, <1>3, <2>1, OrderKept
<1>7. ASSUME NEW p \in Processes, NEW c \in Chats, Arrive(p, c) PROVE MessagesInOrder'
  <2> DEFINE x == [kind |-> "event", about |-> c, since |-> time, clock |-> time]
  <2>1. x \in Items /\ x.kind = "event" /\ x.about = c /\ x.clock = time BY DEF Items
  <2>2. item' = [item EXCEPT ![p] = x] /\ UNCHANGED <<time, unread>>
    BY <1>7 DEF Arrive, worldVars
  <2> HIDE DEF x
  <2>3. \A q \in BusyWith' \ {p} : item'[q] = item[q] /\ q \in BusyWith BY <2>2 DEF BusyWith
  <2>4. \A q \in BusyWith : item[q].kind = "event" => item[q].about # c
    BY <1>7 DEF Arrive, Writing, BusyWith
  <2>5. item'[p] = x BY <2>2
  <2> QED BY <1>3, <2>1, <2>2, <2>3, <2>4, <2>5 DEF MessagesInOrder
<1>8. ASSUME NEW s \in Scanners, NEW x \in listed[s], NotifyItem(s, x) PROVE MessagesInOrder'
  <2>1. UNCHANGED <<time, unread>> /\ item'[s] = x
        /\ \A q \in Processes \ {s} : item'[q] = item[q]
    BY <1>8 DEF NotifyItem, TakeItem, worldVars, Processes
  <2>2. x.kind # "event" /\ x.clock <= time
    BY DEF ItemsFit, ScansStand, SinceStands, Processes
  <2> QED BY <1>1, <1>2, <1>3, <2>1, <2>2, OrderKept
<1>9. ASSUME NEW c \in Chats, ReadChat(c) PROVE MessagesInOrder'
  <2>1. \A d \in Chats : unread'[d] \subseteq unread[d] BY <1>9 DEF ReadChat
  <2>2. UNCHANGED <<time, item>> BY <1>9 DEF ReadChat, processVars
  <2> QED BY <1>1, <1>2, <1>3, <2>1, <2>2, OrderKept
<1>10. CASE TimePasses
  <2>1. time <= time' /\ UNCHANGED <<unread, item>>
    BY <1>10 DEF TimePasses, processVars, Times
  <2> QED BY <1>1, <1>2, <2>1, OrderKept
<1>11. ASSUME NEW p \in Processes,
             \/ FindNone(p) \/ Count(p) \/ MarkAllRead(p) \/ StartDeleteAll(p) \/ DeleteAll(p)
             \/ StartDailyScan(p) \/ StartMissedScan(p)
             \/ \E i \in Ids : MarkRead(p, i) \/ Delete(p, i)
             \/ \E x \in listed[p] : SkipItem(p, x)
      PROVE  UNCHANGED <<time, unread, item>>
  BY <1>11 DEF FindNone, Count, MarkAllRead, StartDeleteAll, DeleteAll, StartDailyScan,
     StartMissedScan, MarkRead, Delete, SkipItem, TakeItem, worldVars
<1>12. ASSUME (\E t \in Tasks : ChangeTask(t)) \/ UNCHANGED noticesVars
      PROVE  UNCHANGED <<time, unread, item>>
  BY <1>12 DEF ChangeTask, noticesVars, worldVars, processVars
<1> QED
  BY <1>4, <1>5, <1>6, <1>7, <1>8, <1>9, <1>10, <1>11, <1>12
     DEF NoticesNext, Hooks, Request, Scan, Processes

-----------------------------------------------------------------------------
(* What a scan takes in hand stands when it takes it. *)
LEMMA TakenStands ==
    ASSUME IInv, ScanInv, [NoticesNext]_noticesVars, NEW s \in Scanners
    PROVE  /\ \A x \in listed'[s] : SinceStands(x)
           /\ item'[s] # None => SinceStands(item'[s])
<1> USE DEF IInv, Types, ProcessTypes, NoticesWorldTypes, ScanInv
<1> s \in Processes BY DEF Processes
<1>0. /\ \A x \in listed[s] : SinceStands(x)
      /\ item[s] # None => SinceStands(item[s])
  BY DEF ScansStand
<1>1. ASSUME listed'[s] \subseteq listed[s], item'[s] \in {item[s], None} \cup listed[s]
      PROVE  /\ \A x \in listed'[s] : SinceStands(x)
             /\ item'[s] # None => SinceStands(item'[s])
  BY <1>0, <1>1
<1>2. ASSUME StartDailyScan(s)
      PROVE  item'[s] = item[s] /\ \A x \in listed'[s] : SinceStands(x)
  <2>1. ASSUME NEW t \in Due
        PROVE  SinceStands([kind |-> due[t], about |-> t, since |-> Since, clock |-> time])
    BY DueKinds DEF SinceStands, Since, Times
  <2> QED BY <1>2, <2>1 DEF StartDailyScan
<1>3. ASSUME StartMissedScan(s)
      PROVE  item'[s] = item[s] /\ \A x \in listed'[s] : SinceStands(x)
  <2>1. ASSUME NEW c \in Missed
        PROVE  SinceStands([kind |-> "missed", about |-> c,
                            since |-> First(unread[c]), clock |-> time])
    <3>1. c \in Chats /\ unread[c] # {} /\ unread[c] \subseteq Nat
      BY DEF Missed, Times
    <3>2. First(unread[c]) \in unread[c] /\ \A t \in unread[c] : First(unread[c]) <= t
      BY <3>1, FirstOf
    <3>3. \A t \in Starts(c) : First(unread[c]) <= t
      BY <3>1, <3>2 DEF Starts, MessagesInOrder
    <3>4. "missed" \notin DailyKinds BY DEF DailyKinds
    <3> QED BY <3>1, <3>3, <3>4 DEF SinceStands, Times
  <2> QED BY <1>3, <2>1 DEF StartMissedScan
<1>4. ASSUME Scan(s)
      PROVE  /\ \A x \in listed'[s] : SinceStands(x)
             /\ item'[s] # None => SinceStands(item'[s])
  <2>1. CASE StartDailyScan(s) BY <1>0, <1>2, <2>1
  <2>2. CASE StartMissedScan(s) BY <1>0, <1>3, <2>2
  <2>3. ASSUME NEW x \in listed[s], SkipItem(s, x) \/ NotifyItem(s, x)
        PROVE  listed'[s] \subseteq listed[s] /\ item'[s] \in {item[s], None} \cup listed[s]
    BY <2>3 DEF SkipItem, NotifyItem, TakeItem
  <2> QED BY <1>1, <1>4, <2>1, <2>2, <2>3 DEF Scan
<1>5. ASSUME Hooks(s)
      PROVE  listed'[s] \subseteq listed[s] /\ item'[s] \in {item[s], None} \cup listed[s]
  BY <1>5 DEF Hooks, UpdateRecent, FindNone, Insert, Count, Stop
<1>6. ASSUME NEW p \in Processes \ {s}, Alone(p)
      PROVE  listed'[s] = listed[s] /\ item'[s] = item[s]
  BY <1>6 DEF Alone
<1>7. ASSUME \/ \E t \in Tasks : ChangeTask(t)
             \/ \E c \in Chats : ReadChat(c)
             \/ TimePasses \/ UNCHANGED noticesVars
      PROVE  UNCHANGED <<listed, item>>
  BY <1>7 DEF ChangeTask, ReadChat, TimePasses, noticesVars, processVars
<1>8. \A h \in Handlers : h \in Processes \ {s} BY DEF Processes
<1>9. CASE \E p \in Processes : Hooks(p) BY <1>1, <1>5, <1>6, <1>9, ProcessStep
<1>10. CASE \E h \in Handlers : Request(h) BY <1>1, <1>6, <1>8, <1>10, ProcessStep
<1>11. CASE \E r \in Scanners : Scan(r)
  <2>1. PICK r \in Scanners : Scan(r) BY <1>11
  <2>2. CASE r = s BY <1>4, <2>1, <2>2
  <2>3. CASE r # s BY <1>1, <1>6, <2>1, <2>3, ProcessStep DEF Processes
  <2> QED BY <2>2, <2>3
<1> QED BY <1>0, <1>7, <1>9, <1>10, <1>11 DEF NoticesNext

LEMMA ScansStep ==
    ASSUME IInv, ScanInv, [NoticesNext]_noticesVars
    PROVE  ScansStand'
<1> USE DEF IInv, Types, ProcessTypes, NoticesWorldTypes
<1>0. Types' BY NoticesTypesStep
<1>1. ASSUME NEW x \in Items, SinceStands(x) PROVE SinceStands(x)'
  <2>1. CASE ~TimePasses BY <1>1, <2>1, StartsStep, SinceStillStands
  <2>2. CASE TimePasses
    <3>1. time' = time + 1 /\ \A c \in Chats : Starts(c)' \subseteq Starts(c) \cup {time + 1}
                                             /\ time \in Starts(c)
      BY <2>2 DEF TimePasses, processVars, Starts, BusyWith
    <3>2. x.clock \in Nat /\ x.since \in Nat /\ time \in Nat BY DEF Items, Times
    <3>3. x.clock <= time' BY <1>1, <3>1, <3>2 DEF SinceStands
    <3>4. ASSUME x.kind = "missed", NEW t \in Starts(x.about)', x.about \in Chats
          PROVE  x.since <= t
      <4>1. CASE t \in Starts(x.about) BY <1>1, <3>4, <4>1 DEF SinceStands
      <4>2. CASE t = time + 1
        <5>1. x.since <= time BY <1>1, <3>1, <3>4 DEF SinceStands
        <5> QED BY <3>2, <4>2, <5>1
      <4> QED BY <3>1, <3>4, <4>1, <4>2
    <3> QED BY <1>1, <3>3, <3>4 DEF SinceStands
  <2> QED BY <2>1, <2>2
<1>2. ASSUME NEW s \in Scanners
      PROVE  /\ \A x \in listed'[s] : SinceStands(x)'
             /\ item'[s] # None => SinceStands(item[s])'
  <2>1. s \in Processes BY DEF Processes
  <2>2. listed'[s] \subseteq Items /\ item'[s] \in Items \cup {None} BY <1>0, <2>1
  <2>3. \A x \in listed'[s] : SinceStands(x)' BY <1>1, <2>2, TakenStands
  <2>4. ASSUME item'[s] # None PROVE SinceStands(item[s])'
    <3>1. PICK x \in Items : x = item'[s] BY <2>2, <2>4
    <3>2. SinceStands(x) BY <2>4, <3>1, TakenStands
    <3>3. SinceStands(x)' BY <1>1, <3>2
    <3> QED BY <3>1, <3>3 DEF SinceStands
  <2> QED BY <2>3, <2>4
<1> QED BY <1>2 DEF ScansStand

-----------------------------------------------------------------------------
(* The history, while the scans do not overlap. *)

OneScan == \A s, r \in Scanners : s = r

(* A step that creates no notice only marks some. *)
LEMMA MarksOnly ==
    ASSUME IInv, [NoticesNext]_noticesVars, \A p \in Processes : ~Insert(p)
    PROVE  FlagsOnly
<1>1. RowTypes BY DEF IInv, Types
<1>2. ASSUME UNCHANGED notices PROVE FlagsOnly
  BY <1>1, <1>2 DEF RowTypes, FlagsOnly
<1>3. \A p \in Processes :
          UpdateRecent(p) \/ MarkAllRead(p) \/ DeleteAll(p)
              \/ (\E i \in Ids : MarkRead(p, i) \/ Delete(p, i)) => FlagsOnly
  BY <1>1, UserMarks
<1>4. \A p \in Processes : FindNone(p) \/ Count(p) \/ Stop(p) \/ StartDeleteAll(p)
          \/ (\E c \in Chats : Arrive(p, c)) \/ Scan(p) => UNCHANGED notices
  BY DEF FindNone, Count, Stop, StartDeleteAll, Arrive, Scan, StartDailyScan,
     StartMissedScan, SkipItem, NotifyItem, TakeItem
<1>5. CASE \/ \E t \in Tasks : ChangeTask(t)
           \/ \E c \in Chats : ReadChat(c)
           \/ TimePasses \/ UNCHANGED noticesVars
  BY <1>2, <1>5 DEF ChangeTask, ReadChat, TimePasses, noticesVars
<1>6. CASE \E p \in Processes : Hooks(p) BY <1>2, <1>3, <1>4, <1>6 DEF Hooks
<1>7. CASE \E h \in Handlers : Request(h)
  BY <1>2, <1>3, <1>4, <1>7 DEF Request, Processes
<1>8. CASE \E s \in Scanners : Scan(s) BY <1>2, <1>4, <1>8 DEF Processes
<1> QED BY <1>5, <1>6, <1>7, <1>8 DEF NoticesNext

(* Only another scan could create a notice of what a scan has in hand. *)
LEMMA NotNotifiedStep ==
    ASSUME IInv, ScanInv, [NoticesNext]_noticesVars, OneScan
    PROVE  NotNotifiedYet'
<1> USE DEF IInv, Types, ProcessTypes
<1> SUFFICES ASSUME NEW s \in Scanners, item'[s] # None
             PROVE  ~Notified(item[s])'
  BY DEF NotNotifiedYet
<1>0. s \in Processes BY DEF Processes
<1>1. ASSUME \A p \in Processes : ~Insert(p) PROVE ~Notified(item[s])'
  <2>1. FlagsOnly BY <1>1, MarksOnly
  <2>2. ~Notified(item'[s])
    <3>1. CASE item'[s] = item[s] BY <3>1 DEF ScanInv, NotNotifiedYet
    <3>2. CASE \E x \in listed[s] : NotifyItem(s, x) BY <1>0, <3>2 DEF NotifyItem
    <3>3. ASSUME NEW p \in Processes, Alone(p), p # s PROVE item'[s] = item[s]
      BY <1>0, <3>3 DEF Alone
    <3>4. CASE UNCHANGED item BY <3>1, <3>4
    <3>5. CASE \E p \in Processes : Hooks(p)
      <4>1. PICK p \in Processes : Hooks(p) BY <3>5
      <4>2. CASE p = s BY <1>0, <1>1, <3>4, <4>1, <4>2
                       DEF Hooks, UpdateRecent, FindNone, Count, Stop
      <4>3. CASE p # s BY <3>1, <3>3, <4>1, <4>3, ProcessStep
      <4> QED BY <4>2, <4>3
    <3>6. CASE \E h \in Handlers : Request(h)
      <4>1. PICK h \in Handlers : Request(h) BY <3>6
      <4>2. h \in Processes /\ h # s BY DEF Processes
      <4> QED BY <3>1, <3>3, <4>1, <4>2, ProcessStep
    <3>7. CASE \E r \in Scanners : Scan(r)
      <4>1. Scan(s) BY <3>7 DEF OneScan
      <4> QED BY <3>2, <3>4, <4>1 DEF Scan, StartDailyScan, StartMissedScan, SkipItem
    <3>8. CASE \/ \E t \in Tasks : ChangeTask(t)
               \/ \E c \in Chats : ReadChat(c)
               \/ TimePasses \/ UNCHANGED noticesVars
      BY <3>4, <3>8 DEF ChangeTask, ReadChat, TimePasses, noticesVars, processVars
    <3> QED BY <3>5, <3>6, <3>7, <3>8 DEF NoticesNext
  <2>3. PICK x : x = item'[s] OBVIOUS
  <2>4. ~Notified(x)' BY <2>1, <2>2, <2>3, StillNotNotified
  <2> QED BY <2>3, <2>4 DEF Notified, NotifiedToday, NotifiedForPeriod, About
<1>2. ASSUME NEW p \in Processes, Insert(p) PROVE ~Notified(item[s])'
  <2>1. p # s BY <1>0, <1>2 DEF Insert
  <2>2. item'[s] = item[s] BY <1>0, <1>2, <2>1 DEF Insert
  <2>3. item[p].kind = "event" /\ item[s].kind # "event"
    <3>1. p \in Handlers /\ s \notin Handlers BY <2>1 DEF OneScan, Processes
    <3>2. item[p] # None /\ item[s] # None BY <1>2, <2>2 DEF Insert, ItemsFit
    <3> QED BY <1>0, <3>1, <3>2 DEF ItemsFit
  <2>4. PICK x : x = item[s] OBVIOUS
  <2>5. ~Notified(x) BY <2>2, <2>4 DEF ScanInv, NotNotifiedYet
  <2>6. PICK n \in Ids \ Created :
            /\ Created' = Created \cup {n}
            /\ notices'[n] = [kind |-> item[p].kind, about |-> item[p].about,
                              at |-> time, read |-> FALSE, deleted |-> FALSE]
            /\ \A i \in Ids \ {n} : notices'[i] = notices[i]
    <3>1. Types /\ RowsSuffice /\ ItemsFit BY DEF IInv
    <3> QED BY <1>2, <3>1, InsertEffect
  <2>7. x.kind # "event" BY <2>3, <2>4
  <2>8. \A i \in About(x)' : i \in About(x) /\ notices'[i] = notices[i]
    <3>1. notices'[n].kind = item[p].kind BY <2>6
    <3> QED BY <2>3, <2>6, <2>7, <3>1 DEF About, Created
  <2>9. ~Notified(x)'
    BY <2>5, <2>8 DEF Notified, NotifiedToday, NotifiedForPeriod, Live, About
  <2> QED BY <2>2, <2>4, <2>9 DEF Notified, NotifiedToday, NotifiedForPeriod, About
<1> QED BY <1>1, <1>2
(* What is created is the first of its day, or of its unread period. *)
LEMMA FirstOfItsKind ==
    ASSUME IInv, ScanInv, NEW p \in Processes, Insert(p), NEW j \in About(item[p])
    PROVE  /\ item[p].kind \in DailyKinds /\ j \in Live => DayStart[notices[j].at] # DayStart[time]
           /\ item[p].kind = "missed" =>
                item[p].about \in Chats /\ \A t \in Starts(item[p].about) : notices[j].at < t
<1> USE DEF IInv, Types, ProcessTypes
<1>1. item[p] \in Items /\ item[p] # None BY DEF Insert, ItemsFit
<1>2. time \in Times /\ j \in Created /\ notices[j].at \in Times
  BY DEF NoticesWorldTypes, RowTypes, NoticeRows, About, Created
<1>3. ASSUME item[p].kind \in DailyKinds \cup {"missed"}
      PROVE  ~Notified(item[p]) /\ SinceStands(item[p])
  <2>1. p \in Scanners BY <1>1, <1>3 DEF ItemsFit, Processes, DailyKinds
  <2> QED BY <1>1, <2>1 DEF ScanInv, NotNotifiedYet, ScansStand
<1>4. ASSUME item[p].kind \in DailyKinds, j \in Live
      PROVE  DayStart[notices[j].at] # DayStart[time]
  <2>1. ~(notices[j].at >= item[p].since)
    BY <1>3, <1>4 DEF Notified, NotifiedToday
  <2>2. item[p].since = DayStart[item[p].clock] /\ item[p].clock <= time
    BY <1>3, <1>4 DEF SinceStands
  <2>3. item[p].clock \in Times BY <1>1 DEF Items
  <2>4. DayStart[item[p].clock] <= DayStart[time] BY <1>2, <2>2, <2>3
  <2>5. DayStart[notices[j].at] <= notices[j].at BY <1>2
  <2>6. DayStart[time] \in Nat /\ DayStart[item[p].clock] \in Nat
        /\ DayStart[notices[j].at] \in Nat /\ notices[j].at \in Nat
    BY <1>2, <2>3 DEF Times
  <2> QED BY <2>1, <2>2, <2>4, <2>5, <2>6
<1>5. ASSUME item[p].kind = "missed"
      PROVE  item[p].about \in Chats /\ \A t \in Starts(item[p].about) : notices[j].at < t
  <2>1. ~(notices[j].at >= item[p].since)
    BY <1>3, <1>5 DEF Notified, NotifiedForPeriod, DailyKinds
  <2>2. item[p].about \in Chats /\ \A t \in Starts(item[p].about) : item[p].since <= t
    BY <1>3, <1>5 DEF SinceStands
  <2>3. \A t \in Starts(item[p].about) : t \in Nat
    BY <1>2, <2>2 DEF Starts, BusyWith, Items, Times, NoticesWorldTypes
  <2>4. item[p].since \in Nat /\ notices[j].at \in Nat BY <1>1, <1>2 DEF Items, Times
  <2> QED BY <2>1, <2>2, <2>3, <2>4
<1> QED BY <1>4, <1>5

LEMMA HistoryStep ==
    ASSUME IInv, ScanInv, [NoticesNext]_noticesVars
    PROVE  NothingAhead' /\ OncePerDay' /\ OncePerStart'
<1>0. time \in Times BY DEF IInv, Types, NoticesWorldTypes
<1>1. \A i \in Created : notices[i].at \in Times
  BY DEF IInv, Types, RowTypes, NoticeRows, Created
<1>2. CASE (\A p \in Processes : ~Insert(p)) /\ ~TimePasses
  BY <1>2, MarksOnly, StartsStep, NoticesRowsStand
<1>3. CASE TimePasses
  <2>1. UNCHANGED <<notices, unread, item>> /\ time' = time + 1
    BY <1>3 DEF TimePasses, processVars
  <2>2. Created' = Created /\ Live' = Live BY <2>1 DEF Created, Live
  <2>3. NothingAhead'
    BY <1>0, <1>1, <2>1, <2>2 DEF ScanInv, NothingAhead, Times
  <2>4. OncePerDay' BY <2>1, <2>2 DEF ScanInv, OncePerDay
  <2>5. \A c \in Chats : Starts(c)' \subseteq Starts(c) \cup {time + 1}
    BY <2>1 DEF Starts, BusyWith
  <2>6. \A i \in Created : notices[i].at < time + 1
    BY <1>0, <1>1 DEF ScanInv, NothingAhead, Times
  <2>7. OncePerStart'
    BY <2>1, <2>2, <2>5, <2>6 DEF ScanInv, OncePerStart, NotTwice
  <2> QED BY <2>3, <2>4, <2>7
<1>4. ASSUME NEW p \in Processes, Insert(p)
      PROVE  NothingAhead' /\ OncePerDay' /\ OncePerStart'
  <2> DEFINE x == item[p]
  <2>1. Types /\ RowsSuffice /\ ItemsFit BY DEF IInv
  <2>2. PICK n \in Ids \ Created :
            /\ Created' = Created \cup {n}
            /\ notices'[n] = [kind |-> x.kind, about |-> x.about,
                              at |-> time, read |-> FALSE, deleted |-> FALSE]
            /\ \A i \in Ids \ {n} : notices'[i] = notices[i]
    BY <1>4, <2>1, InsertEffect
  <2>3. /\ notices'[n].kind = x.kind /\ notices'[n].about = x.about
        /\ notices'[n].at = time
        /\ \A i \in Created : i # n /\ notices'[i] = notices[i]
    BY <2>2 DEF Created
  <2>4. Live' \subseteq Live \cup {n} BY <2>2, <2>3 DEF Live
  <2>5. ~TimePasses
    BY <1>0, <1>4 DEF TimePasses, Insert, Times
  <2>6. time' = time /\ \A c \in Chats : Starts(c)' \subseteq Starts(c)
    BY <2>5, StartsStep
  <2>7. NothingAhead' BY <1>0, <2>2, <2>3, <2>6 DEF ScanInv, NothingAhead, Times
  <2>8. \A j \in Created : notices[j].kind = x.kind /\ notices[j].about = x.about
            => j \in About(x)
    BY DEF About
  <2>9. ASSUME NEW j \in Live, x.kind \in DailyKinds, notices[j].kind = x.kind,
               notices[j].about = x.about
        PROVE  DayStart[notices[j].at] # DayStart[time]
    BY <1>4, <2>8, <2>9, FirstOfItsKind DEF Live
  <2>10. ASSUME NEW j \in Created, x.kind = "missed", notices[j].kind = "missed",
                notices[j].about = x.about, NEW t \in Starts(x.about)
         PROVE  notices[j].at < t
    BY <1>4, <2>8, <2>10, FirstOfItsKind
  <2> HIDE DEF x
  <2>11. OncePerDay'
    <3>1. Live \subseteq Created BY DEF Live
    <3> QED BY <2>3, <2>4, <2>9, <3>1 DEF ScanInv, OncePerDay
  <2>12. OncePerStart'
    <3>1. SUFFICES ASSUME NEW c \in Chats PROVE NotTwice(c)'
      BY DEF OncePerStart
    <3>2. NotTwice(c) BY DEF ScanInv, OncePerStart
    <3> QED BY <2>2, <2>3, <2>6, <2>10, <3>2 DEF NotTwice
  <2> QED BY <2>7, <2>11, <2>12
<1> QED BY <1>2, <1>3, <1>4

LEMMA ScanInvStep == OneScan /\ IInv /\ ScanInv /\ [NoticesNext]_noticesVars => ScanInv'
BY OrderStep, ScansStep, NotNotifiedStep, HistoryStep DEF ScanInv

LEMMA StartsAreFirst == IInv /\ ScanInv => OncePerPeriod
<1> SUFFICES ASSUME IInv, ScanInv, NEW c \in Chats, unread[c] # {},
                    NEW i \in About([kind |-> "missed", about |-> c]),
                    NEW j \in About([kind |-> "missed", about |-> c]),
                    notices[i].at >= First(unread[c]), notices[j].at >= First(unread[c])
             PROVE  i = j
  BY DEF OncePerPeriod
<1>1. unread[c] \subseteq Nat BY DEF IInv, Types, NoticesWorldTypes, Times
<1>2. First(unread[c]) \in Starts(c) /\ First(unread[c]) \in Nat
  BY <1>1, FirstOf DEF Starts
<1>3. i \in Created /\ j \in Created /\ notices[i].at \in Nat /\ notices[j].at \in Nat
      /\ notices[i].kind = "missed" /\ notices[i].about = c
      /\ notices[j].kind = "missed" /\ notices[j].about = c
  BY DEF About, Created, IInv, Types, RowTypes, NoticeRows, Times
<1>4. NotTwice(c) BY DEF ScanInv, OncePerStart
<1> QED BY <1>2, <1>3, <1>4 DEF NotTwice

(* While the scans of the commands do not overlap, a task or a deal has one *)
(* notice of each type a day that the user has not deleted, however long a  *)
(* scan takes, wherever it stops, however often the task changes between    *)
(* due soon and overdue and whatever the user does                          *)
(* (_already_notified_today).                                               *)
THEOREM DailyOnce == OneScan => (NoticesSpec => []OncePerDay)
<1> SUFFICES ASSUME OneScan PROVE NoticesSpec => []OncePerDay
  OBVIOUS
<1>1. NoticesInit => IInv /\ ScanInv BY InitIInv, InitScanInv
<1>2. IInv /\ ScanInv /\ [NoticesNext]_noticesVars => (IInv /\ ScanInv)'
  BY IInvStep, ScanInvStep
<1>3. IInv /\ ScanInv => OncePerDay BY DEF ScanInv
<1> QED BY <1>1, <1>2, <1>3, PTL DEF NoticesSpec

(* While they do not overlap, a chat has one notice of missed messages      *)
(* since its oldest unread one, also when the user deletes it: the messages *)
(* of a chat are committed in the order of their times, so that a period    *)
(* never turns out to have begun before a notice of the one before          *)
(* (_already_notified_for_unread_period).                                   *)
THEOREM MissedOnce == OneScan => (NoticesSpec => []OncePerPeriod)
<1> SUFFICES ASSUME OneScan PROVE NoticesSpec => []OncePerPeriod
  OBVIOUS
<1>1. NoticesInit => IInv /\ ScanInv BY InitIInv, InitScanInv
<1>2. IInv /\ ScanInv /\ [NoticesNext]_noticesVars => (IInv /\ ScanInv)'
  BY IInvStep, ScanInvStep
<1> QED BY <1>1, <1>2, StartsAreFirst, PTL DEF NoticesSpec
=============================================================================
