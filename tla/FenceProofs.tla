---------------------------- MODULE FenceProofs -----------------------------
(***************************************************************************)
(* What the fences of the index worker and of a sync run achieve in spite  *)
(* of the window between a fence and its write: only a write inside that   *)
(* window can make a document stale or bring an excluded one back.         *)
(***************************************************************************)
EXTENDS AtomicFences, PipelineTypes

(***************************************************************************)
(* What a step does to a document that it does not make servable.          *)
(***************************************************************************)
NoGain(d) ==
  Servable(d)' => /\ Servable(d)
                  /\ doc'[d].rev = doc[d].rev /\ idx'[d].rev = idx[d].rev

\* The row of d is kept, or loses one of the conditions of Servable.
LEMMA LossIsNoGain ==
  ASSUME NEW d, \/ doc'[d] = doc[d] /\ idx'[d] = idx[d]
                \/ doc'[d].status # "ready"
                \/ doc'[d].life # "active"
                \/ doc'[d].eligible = FALSE
  PROVE  NoGain(d)
  BY DEF NoGain, Servable

\* The administrator makes no document servable.
LEMMA AdminNoGain ==
  ASSUME TypeOK, AdminStep, NEW d \in Docs
  PROVE  NoGain(d)
<1> USE DEF TypeOK, StoreTypeOK
<1>1. CASE UNCHANGED <<doc, idx>>
  BY <1>1, LossIsNoGain
<1>2. ASSUME NEW e \in Docs, ExcludeDocument(e)
      PROVE  NoGain(d)
  <2>1. CASE doc[e].gone
    BY <1>1, <1>2, <2>1 DEF ExcludeDocument
  <2>2. CASE ~doc[e].gone
    <3>1. doc' = [doc EXCEPT ![e] = [doc[e] EXCEPT !.life = "excluded",
                                                   !.eligible = FALSE]]
      BY <1>2, <2>2 DEF ExcludeDocument
    <3>2. [doc[e] EXCEPT !.life = "excluded", !.eligible = FALSE].eligible
            = FALSE
      BY DEF DocRec
    <3>. QED BY <1>2, <3>1, <3>2, LossIsNoGain DEF ExcludeDocument
  <2>. QED BY <2>1, <2>2
<1>3. CASE ExcludeCollection
  <2>1. [doc[d] EXCEPT !.life = "excluded", !.eligible = FALSE].eligible
          = FALSE
    BY DEF DocRec
  <2>2. doc'[d] \in {doc[d], [doc[d] EXCEPT !.life = "excluded",
                                            !.eligible = FALSE]}
    BY <1>3 DEF ExcludeCollection
  <2>. QED BY <1>3, <2>1, <2>2, LossIsNoGain DEF ExcludeCollection
<1>. QED
  BY <1>1, <1>2, <1>3
     DEF AdminStep, AdminNext, AdminOperation, EditSettings, EditConnection,
         RequestValidation, Disable, Enable, RequestPurge, Restore,
         ManualSync, SelectAll, SelectExplicitly, Deselect, SetSelection,
         DeleteExclusion, CreateIndexJob

\* Nor does the second half of a reindexing.
LEMMA ReindexNoGain ==
  ASSUME TypeOK, ReindexStep, NEW d \in Docs
  PROVE  NoGain(d)
  BY ReindexRow, LossIsNoGain

\* Reconciliation serves a document only with an index of its revision.
LEMMA SyncNotStale ==
  ASSUME TypeOK, SyncStep, NEW d \in Docs
  PROVE  NoGain(d) \/ ~Stale(d)'
<1> USE DEF TypeOK, StoreTypeOK
<1>1. CASE UNCHANGED <<doc, idx>>
  BY <1>1, LossIsNoGain
<1>2. CASE CommitBatch
  <2>1. PICK batch \in SUBSET sw.todo :
          /\ doc' = [e \in Docs |->
                       IF e \in batch THEN ReconciledDoc(e) ELSE doc[e]]
          /\ idx' = [e \in Docs |->
                       IF e \in batch /\ RetiresIndex(e)
                       THEN [idx[e] EXCEPT !.current = FALSE] ELSE idx[e]]
    BY <1>2 DEF CommitBatch
  <2>2. CASE d \in batch
    <3> SUFFICES ASSUME Servable(d)'
                 PROVE  idx'[d].rev = doc'[d].rev
      BY DEF Stale
    <3>1. doc'[d] = ReconciledDoc(d)
      BY <2>1, <2>2
    <3>2. /\ Lifecycle(d, sw.obs[d]) = "active"
          /\ ReconciledStatus(d, sw.obs[d]) = "ready"
          /\ doc'[d].rev = sw.obs[d]
      BY <3>1 DEF ReconciledDoc, Servable
    <3>3. IndexMatches(d, sw.obs[d])
      BY <3>2 DEF ReconciledStatus
    <3>. QED BY <2>1, <2>2, <3>2, <3>3 DEF RetiresIndex, IndexMatches
  <2>3. CASE d \notin batch
    BY <2>1, <2>3, LossIsNoGain
  <2>. QED BY <2>2, <2>3
<1>3. CASE CommitComplete
  <2>1. [doc[d] EXCEPT !.life = "missing", !.eligible = FALSE,
                       !.status = "deleted", !.gone = TRUE].eligible = FALSE
    BY DEF DocRec
  <2>2. doc'[d] \in {doc[d],
                     [doc[d] EXCEPT !.life = "missing", !.eligible = FALSE,
                                    !.status = "deleted", !.gone = TRUE]}
    BY <1>3 DEF CommitComplete
  <2>. QED BY <1>3, <2>1, <2>2, LossIsNoGain DEF CommitComplete
<1>4. CASE FailRun
  <2>1. [doc[d] EXCEPT !.eligible = FALSE].eligible = FALSE
    BY DEF DocRec
  <2>2. doc'[d] \in {doc[d], [doc[d] EXCEPT !.eligible = FALSE]}
    BY <1>4 DEF FailRun
  <2>. QED BY <1>4, <2>1, <2>2, LossIsNoGain DEF FailRun
<1>5. \/ UNCHANGED <<doc, idx>> \/ UNCHANGED storeVars
      \/ CommitBatch \/ CommitComplete \/ FailRun
  BY DEF SyncStep, SyncNext, Recover, RecoverFail, ReadValidation,
         ClaimValidation, Probe, CommitValid, CommitInvalid, ClaimDueSource,
         StartDiscovery,
         NothingDue, ReadCollection, ListNothing, DiscoveryRaises,
         UpsertCollection, FenceDiscovery, CommitDiscovery, FailDiscovery,
         ReadQueuedRun, DropStaleRun, ClaimRun, LoadPlan, Scan, ScanRaises,
         FenceScan, FenceBatch, FenceComplete, Supersede, CommitRaises,
         JudgeFailure, HandlerFails
<1>. QED BY <1>1, <1>2, <1>3, <1>4, <1>5 DEF storeVars

\* A publication under another revision than the document's is a late one.
LEMMA PublishLate ==
  ASSUME TypeOK, NEW d \in Docs, NEW j \in Jobs, Publish(j)
  PROVE  \/ NoGain(d) \/ ~Stale(d)'
         \/ DocOf[j] = d /\ LatePublish(j)
<1> USE DEF TypeOK, StoreTypeOK, IndexTypeOK
<1>1. CASE d # DocOf[j]
  <2>1. doc'[d] = doc[d] /\ idx'[d] = idx[d]
    BY <1>1 DEF Publish
  <2>. QED BY <2>1, LossIsNoGain
<1>2. CASE d = DocOf[j]
  <2>1. doc'[d] = [doc[d] EXCEPT !.status = "ready", !.eligible = TRUE]
    BY <1>2 DEF Publish
  <2>2. doc'[d].rev = doc[d].rev
    BY <2>1 DEF DocRec
  <2>3. idx'[d].rev = job[j].rev
    BY <1>2 DEF Publish
  <2>4. child'[j].pc = "exited" /\ child[j].pc = "publish"
    BY DEF Publish, Exit, NoChild
  <2>5. CASE job[j].rev = doc[d].rev
    BY <2>2, <2>3, <2>5 DEF Stale
  <2>6. CASE job[j].rev # doc[d].rev
    BY <1>2, <2>4, <2>6 DEF LatePublish, JobSuperseded
  <2>. QED BY <2>5, <2>6
<1>. QED BY <1>1, <1>2

\* In the index worker only a late publication makes a document stale.
LEMMA IndexStale ==
  ASSUME TypeOK, IndexNext \/ IndexMishap, NEW d \in Docs
  PROVE  \/ NoGain(d) \/ ~Stale(d)'
         \/ \E j \in Jobs : DocOf[j] = d /\ LatePublish(j)
<1> USE DEF TypeOK, StoreTypeOK
<1>1. CASE UNCHANGED <<doc, idx>>
  BY <1>1, LossIsNoGain
<1>2. ASSUME NEW j \in Jobs, NEW status, status # "ready",
             doc' = [doc EXCEPT ![DocOf[j]].status = status], idx' = idx
      PROVE  NoGain(d)
  <2>1. DocOf[j] \in Docs
    BY DocOfAssumption
  <2>2. doc' = [doc EXCEPT ![DocOf[j]] =
                  [doc[DocOf[j]] EXCEPT !.status = status]]
    BY <1>2
  <2>3. [doc[DocOf[j]] EXCEPT !.status = status].status = status
    BY <2>1 DEF DocRec
  <2>. QED BY <1>2, <2>1, <2>2, <2>3, LossIsNoGain
<1>3. ASSUME NEW j \in Jobs, FailDenied(j)
      PROVE  NoGain(d)
  <2>1. CASE d = DocOf[j]
    <3>1. doc'[d] = [doc[d] EXCEPT !.status = "failed",
                                   !.life = "access_revoked",
                                   !.eligible = FALSE]
      BY <1>3, <2>1 DEF FailDenied
    <3>2. doc'[d].eligible = FALSE
      BY <3>1 DEF DocRec
    <3>. QED BY <3>2, LossIsNoGain
  <2>2. CASE d # DocOf[j]
    <3>1. doc'[d] = doc[d] /\ idx'[d] = idx[d]
      BY <1>3, <2>2 DEF FailDenied
    <3>. QED BY <3>1, LossIsNoGain
  <2>. QED BY <2>1, <2>2
<1>4. ASSUME NEW j \in Jobs,
             StartChild(j) \/ MarkSuperseded(j) \/ PersistSkipped(j)
             \/ FailRetry(j) \/ FailForGood(j)
      PROVE  NoGain(d)
  <2>1. UNCHANGED idx
    BY <1>4 DEF StartChild, MarkSuperseded, PersistSkipped, FailRetry,
                FailForGood
  <2>2. \/ doc' = doc
        \/ \E status : status # "ready" /\
             doc' = [doc EXCEPT ![DocOf[j]].status = status]
    BY <1>4 DEF StartChild, MarkSuperseded, PersistSkipped, FailRetry,
                FailForGood
  <2>3. CASE doc' = doc
    BY <2>1, <2>3, LossIsNoGain
  <2>4. ASSUME NEW status, status # "ready",
               doc' = [doc EXCEPT ![DocOf[j]].status = status]
        PROVE  NoGain(d)
    BY <1>2, <2>1, <2>4
  <2>. QED BY <2>2, <2>3, <2>4
<1>5. \/ UNCHANGED <<doc, idx>>
      \/ \E j \in Jobs : \/ Publish(j) \/ FailDenied(j) \/ StartChild(j)
                         \/ MarkSuperseded(j) \/ PersistSkipped(j)
                         \/ FailRetry(j) \/ FailForGood(j)
  BY DEF IndexNext, IndexMishap, ChildNext, ParentNext, FailJob, Claim,
         CheckJob, Fetch, Build, FetchRaises, BuildRaises, Fence, Collect,
         FailSuperseded, StopChild, StopExited, RecoverJob, Stopped, Restart,
         Recovered, ChildDies, Timeout, Terminate, Stop, IndexCrash,
         storeVars
<1>. QED BY <1>1, <1>3, <1>4, <1>5, PublishLate

(***************************************************************************)
(* Only a publication that overtakes its fence serves a document under     *)
(* another revision than the expected one.                                 *)
(***************************************************************************)
THEOREM StaleOnlyLate == Spec => StaleOnlyByLatePublish
<1>1. TypeOK /\ [Next]_vars => [StaleStep]_vars
  <2> SUFFICES ASSUME TypeOK, [Next]_vars, NEW d \in Docs,
                      Stale(d)', ~Stale(d)
               PROVE  \E j \in Jobs : DocOf[j] = d /\ LatePublish(j)
    BY DEF StaleStep
  <2>1. ~NoGain(d)
    BY DEF NoGain, Stale
  <2>2. CASE UNCHANGED <<doc, idx>>
    BY <2>1, <2>2, LossIsNoGain
  <2>3. \/ AdminStep \/ ReindexStep \/ SyncStep \/ IndexNext \/ IndexMishap
        \/ UNCHANGED <<doc, idx>>
    BY DEF Next, IndexStep, Disturbance, SourceChange, SyncCrash, vars,
           storeVars
  <2>. QED
    BY <2>1, <2>2, <2>3, AdminNoGain, ReindexNoGain, SyncNotStale, IndexStale
<1>. QED BY <1>1, TypeCorrect, PTL DEF Spec, StaleOnlyByLatePublish

-----------------------------------------------------------------------------
(***************************************************************************)
(* A run that has read its exclusion plan still has the current rules      *)
(* while its filter revision is the current one: rules change only         *)
(* together with filter_revision, and no run is ahead of it.               *)
(***************************************************************************)
Planned == {"scan", "fenceScan", "reconcile", "commitBatch"}

PlanInv ==
  /\ run.filter <= collection.filter
  /\ sw.filter <= collection.filter
  /\ sw.pc \in Planned /\ sw.filter = collection.filter => sw.plan = rules

\* A row without a document, or of a deleted one, is not active.
RowInv ==
  \A d \in Docs :
    doc[d].gone \/ doc[d].status = "none" => doc[d].life # "active"

\* Filter revisions can be compared.
LEMMA FiltersAreNumbers ==
  ASSUME TypeOK
  PROVE  /\ collection.filter \in Nat /\ sw.filter \in Nat
         /\ run.filter \in Nat
  BY BoundsAssumption DEF TypeOK, StoreTypeOK, SwTypeOK, SwRec, RunRec,
                          CollectionRec, Filters

\* The administrator changes the rules only under a new filter revision.
LEMMA AdminRules ==
  ASSUME TypeOK, AdminStep
  PROVE  \/ rules' = rules /\ collection'.filter = collection.filter
         \/ collection'.filter = collection.filter + 1
<1> USE DEF TypeOK, StoreTypeOK
<1>1. CASE UNCHANGED <<rules, collection>>
  BY <1>1
<1>2. \A life \in CollectionLives, selected \in BOOLEAN :
        /\ [collection EXCEPT !.life = life].filter = collection.filter
        /\ [collection EXCEPT !.selected = selected, !.life = life].filter
             = collection.filter
  BY DEF CollectionRec
<1>3. /\ [collection EXCEPT !.filter = NextFilter].filter = NextFilter
      /\ [collection EXCEPT !.filter = NextFilter,
                            !.life = "excluded"].filter = NextFilter
  BY DEF CollectionRec
<1>4. CASE RequestPurge \/ Restore
  BY <1>2, <1>4 DEF RequestPurge, Restore, CollectionLives
<1>5. ASSUME NEW op, NEW all, NEW selected \in BOOLEAN,
             SetSelection(op, all, selected)
      PROVE  rules' = rules /\ collection'.filter = collection.filter
  BY <1>2, <1>5 DEF SetSelection, CollectionLives
<1>6. ASSUME \/ \E d \in Docs : ExcludeDocument(d)
             \/ ExcludeCollection
             \/ \E t \in Docs \cup {Whole} : DeleteExclusion(t)
      PROVE  collection'.filter = collection.filter + 1
  BY <1>3, <1>6
     DEF ExcludeDocument, ExcludeCollection, DeleteExclusion, NextFilter
<1>. QED
  BY <1>1, <1>4, <1>5, <1>6
     DEF AdminStep, AdminNext, AdminOperation, EditSettings, EditConnection,
         RequestValidation, Disable, Enable, ManualSync, SelectAll,
         SelectExplicitly, Deselect, CreateIndexJob

\* A run the administrator queues is under the current filter revision.
LEMMA AdminRun ==
  ASSUME TypeOK, AdminStep
  PROVE  run'.filter \in {run.filter, 0, collection'.filter}
<1> USE DEF TypeOK, StoreTypeOK
<1>1. CASE UNCHANGED run
  BY <1>1
<1>2. CASE CancelQueuedWork
  BY <1>2 DEF CancelQueuedWork, NoRun
<1>3. [run EXCEPT !.follow = TRUE].filter = run.filter
  BY DEF RunRec
<1>4. CASE ManualSync
  BY <1>3, <1>4 DEF ManualSync, NewRun
<1>5. ASSUME QueueFilterSync(NextFilter)
      PROVE  run'.filter \in {run.filter, NextFilter}
  <2>1. [run EXCEPT !.config = source.config, !.filter = NextFilter].filter
          = NextFilter
    BY DEF RunRec
  <2>. QED BY <1>3, <1>5, <2>1 DEF QueueFilterSync, NewRun
<1>6. ASSUME \/ \E d \in Docs : ExcludeDocument(d)
             \/ ExcludeCollection
             \/ \E t \in Docs \cup {Whole} : DeleteExclusion(t)
      PROVE  run'.filter \in {run.filter, collection'.filter}
  <2>1. collection'.filter = NextFilter
    <3>1. /\ [collection EXCEPT !.filter = NextFilter].filter = NextFilter
          /\ [collection EXCEPT !.filter = NextFilter,
                                !.life = "excluded"].filter = NextFilter
      BY DEF CollectionRec
    <3>. QED
      BY <1>6, <3>1 DEF ExcludeDocument, ExcludeCollection, DeleteExclusion
  <2>. QED
    BY <1>5, <1>6, <2>1
       DEF ExcludeDocument, ExcludeCollection, DeleteExclusion
<1>. QED
  BY <1>1, <1>2, <1>4, <1>6
     DEF AdminStep, AdminNext, AdminOperation, EditSettings, EditConnection,
         RequestValidation, Disable, Enable, RequestPurge, Restore,
         SelectAll, SelectExplicitly, Deselect, SetSelection, CreateIndexJob

\* The administrator keeps the plan of a run current or outdates its filter.
LEMMA AdminPlan ==
  ASSUME TypeOK, PlanInv, AdminStep
  PROVE  PlanInv'
<1>1. sw' = sw
  BY DEF AdminStep
<1>2. collection'.filter >= collection.filter /\ collection'.filter \in Nat
  BY AdminRules, FiltersAreNumbers
<1>3. run'.filter <= collection'.filter
  BY <1>2, AdminRun, FiltersAreNumbers DEF PlanInv
<1>. QED BY <1>1, <1>3, AdminRules, FiltersAreNumbers DEF PlanInv

\* The source worker keeps the plan tied to its filter.
LEMMA SyncPlan ==
  ASSUME TypeOK, PlanInv, SyncStep
  PROVE  PlanInv'
<1> USE FiltersAreNumbers
<1>1. UNCHANGED rules /\ collection'.filter = collection.filter
  <2>1. \A life \in CollectionLives, selected \in BOOLEAN :
          /\ [collection EXCEPT !.life = life].filter = collection.filter
          /\ [collection EXCEPT !.selected = selected,
                                !.life = life].filter = collection.filter
    BY DEF TypeOK, StoreTypeOK, CollectionRec
  <2>2. sw.selected \in BOOLEAN
    BY DEF TypeOK, SwTypeOK, SwRec
  <2>3. CASE UNCHANGED <<rules, collection>>
    BY <2>3
  <2>4. CASE UpsertCollection
    BY <2>1, <2>2, <2>4 DEF UpsertCollection, CollectionLives
  <2>5. CASE CommitDiscovery \/ CommitComplete \/ FailRun
    BY <2>1, <2>5
       DEF CommitDiscovery, CommitComplete, FailRun, CollectionLives
  <2>. QED
    BY <2>3, <2>4, <2>5
       DEF SyncStep, SyncNext, Recover, RecoverFail, ReadValidation,
           ClaimValidation, Probe, CommitValid, CommitInvalid,
           ClaimDueSource, StartDiscovery, NothingDue,
           ReadCollection, ListNothing,
           DiscoveryRaises, FenceDiscovery, FailDiscovery, ReadQueuedRun,
           DropStaleRun, ClaimRun, LoadPlan, Scan, ScanRaises, FenceScan,
           FenceBatch, CommitBatch, FenceComplete, Supersede, CommitRaises,
           JudgeFailure, HandlerFails, storeVars
<1>2. run'.filter \in {run.filter, 0, collection.filter}
  <2>1. SupersededRun.filter \in {0, collection.filter}
    BY DEF SupersededRun, NewRun, NoRun
  <2>2. \A r, c, config : QueueRun(r, c, config).filter
                            \in {r.filter, c.filter}
    BY DEF QueueRun, NewRun
  <2>3. NoRun.filter = 0
    BY DEF NoRun
  <2>4. CASE UNCHANGED run
    BY <2>4
  <2>5. CASE Recover \/ FailRun
    BY <2>3, <2>5 DEF Recover, FailRun
  <2>6. CASE CommitDiscovery
    <3>1. run' = run \/ run' = QueueRun(run, collection', sw.config)
      BY <2>6 DEF CommitDiscovery
    <3>2. QueueRun(run, collection', sw.config).filter
            \in {run.filter, collection'.filter}
      BY <2>2
    <3>. QED BY <1>1, <3>1, <3>2
  <2>7. CASE CommitComplete
    <3>1. run' = NoRun \/ run' = QueueRun(NoRun, collection', sw.config)
      BY <2>7 DEF CommitComplete
    <3>2. QueueRun(NoRun, collection', sw.config).filter
            \in {NoRun.filter, collection'.filter}
      BY <2>2
    <3>. QED BY <1>1, <2>3, <3>1, <3>2
  <2>8. CASE Supersede
    BY <2>1, <2>8 DEF Supersede
  <2>9. CASE DropStaleRun
    <3>1. [SupersededRun EXCEPT !.status = "running"].filter
            = SupersededRun.filter
      BY DEF SupersededRun, NewRun, NoRun
    <3>. QED BY <2>1, <2>9, <3>1 DEF DropStaleRun
  <2>10. CASE ClaimRun
    <3>1. [run EXCEPT !.status = "running"].filter = run.filter
      BY DEF TypeOK, StoreTypeOK, RunRec
    <3>. QED BY <2>10, <3>1 DEF ClaimRun
  <2>. QED
    BY <2>4, <2>5, <2>6, <2>7, <2>8, <2>9, <2>10
       DEF SyncStep, SyncNext, RecoverFail, ReadValidation,
           ClaimValidation, Probe, CommitValid, CommitInvalid,
           ClaimDueSource, StartDiscovery, NothingDue,
           ReadCollection, ListNothing,
           DiscoveryRaises, UpsertCollection, FenceDiscovery, FailDiscovery,
           ReadQueuedRun, LoadPlan, Scan, ScanRaises, FenceScan, FenceBatch,
           CommitBatch, FenceComplete, CommitRaises, JudgeFailure,
           HandlerFails, storeVars
<1>3. run'.filter <= collection'.filter
  BY <1>1, <1>2 DEF PlanInv
<1>4. ASSUME NEW pc, sw' = Idle(pc), pc \notin Planned
      PROVE  PlanInv'
  BY <1>1, <1>3, <1>4 DEF PlanInv, Idle
<1>5. ASSUME sw'.filter = sw.filter, sw'.plan = sw.plan,
             sw.pc \in Planned \/ sw'.pc \notin Planned
      PROVE  PlanInv'
  BY <1>1, <1>3, <1>5 DEF PlanInv
<1>6. ASSUME NEW pc, sw' = [sw EXCEPT !.pc = pc],
             sw.pc \in Planned \/ pc \notin Planned
      PROVE  PlanInv'
  <2>1. sw'.filter = sw.filter /\ sw'.plan = sw.plan /\ sw'.pc = pc
    BY <1>6 DEF TypeOK, SwTypeOK, SwRec
  <2>. QED BY <1>5, <1>6, <2>1
<1>7. CASE Recover \/ RecoverFail \/ CommitValid \/ CommitInvalid
           \/ NothingDue \/ CommitDiscovery \/ FailDiscovery
           \/ CommitComplete \/ Supersede \/ FailRun \/ HandlerFails
  BY <1>4, <1>7 DEF Recover, RecoverFail, CommitValid, CommitInvalid,
                    NothingDue, CommitDiscovery, FailDiscovery,
                    CommitComplete, Supersede, FailRun, HandlerFails, Planned
<1>8. CASE ClaimValidation \/ StartDiscovery \/ ListNothing
           \/ DiscoveryRaises \/ UpsertCollection \/ FenceScan \/ FenceBatch
           \/ FenceComplete \/ CommitRaises \/ JudgeFailure
  BY <1>6, <1>8 DEF ClaimValidation, StartDiscovery, ListNothing,
                    DiscoveryRaises, UpsertCollection, FenceScan, FenceBatch,
                    FenceComplete, CommitRaises, JudgeFailure, Goto, At, Planned
<1>9. CASE FenceDiscovery \/ ClaimRun \/ \E valid \in BOOLEAN : Probe(valid)
  BY <1>4, <1>6, <1>9 DEF FenceDiscovery, ClaimRun, Probe, Goto, Planned
<1>10. CASE ReadValidation
  <2>1. CASE sw' = Idle("due")
    BY <1>4, <2>1 DEF Planned
  <2>2. CASE sw' = [sw EXCEPT !.pc = "claimValidation",
                              !.config = source.config]
    BY <1>5, <2>2 DEF TypeOK, SwTypeOK, SwRec, Planned
  <2>. QED BY <1>10, <2>1, <2>2 DEF ReadValidation
<1>11. CASE ClaimDueSource
  BY <1>5, <1>11 DEF ClaimDueSource, TypeOK, SwTypeOK, SwRec, Planned
<1>12. CASE ReadCollection
  BY <1>5, <1>12 DEF ReadCollection, TypeOK, SwTypeOK, SwRec, Planned
<1>13. CASE ReadQueuedRun
  <2>1. CASE sw' = Idle("validate")
    BY <1>4, <2>1 DEF Planned
  <2>2. ASSUME NEW pc \in {"claimRun", "dropStale"},
               sw' = [sw EXCEPT !.pc = pc, !.config = run.config,
                                !.filter = run.filter]
        PROVE  PlanInv'
    <3>1. sw'.pc = pc /\ sw'.filter = run.filter
      BY <2>2 DEF TypeOK, SwTypeOK, SwRec
    <3>. QED BY <1>1, <1>3, <3>1 DEF PlanInv, Planned
  <2>. QED BY <1>13, <2>1, <2>2 DEF ReadQueuedRun
<1>14. CASE DropStaleRun
  <2>1. CASE sw' = Idle("validate")
    BY <1>4, <2>1 DEF Planned
  <2>2. CASE /\ SupersededRun.status = "queued"
             /\ sw' = [sw EXCEPT !.pc = "plan",
                                 !.config = SupersededRun.config,
                                 !.filter = SupersededRun.filter]
    <3>1. SupersededRun.filter = collection.filter
      BY <2>2 DEF SupersededRun, NewRun, NoRun
    <3>2. sw'.pc = "plan" /\ sw'.filter = collection.filter
      BY <2>2, <3>1 DEF TypeOK, SwTypeOK, SwRec
    <3>. QED BY <1>1, <1>3, <3>2 DEF PlanInv, Planned
  <2>. QED BY <1>14, <2>1, <2>2 DEF DropStaleRun
<1>15. CASE LoadPlan
  <2>1. CASE sw' = [sw EXCEPT !.pc = "supersede"]
    BY <1>6, <2>1 DEF Planned
  <2>2. CASE sw' = [sw EXCEPT !.pc = "scan", !.plan = rules]
    <3>1. sw'.plan = rules /\ sw'.filter = sw.filter
      BY <2>2 DEF TypeOK, SwTypeOK, SwRec
    <3>. QED BY <1>1, <1>3, <3>1 DEF PlanInv
  <2>. QED BY <1>15, <2>1, <2>2 DEF LoadPlan
<1>16. CASE Scan
  BY <1>5, <1>16 DEF Scan, At, TypeOK, SwTypeOK, SwRec, Planned
<1>17. ASSUME NEW denied \in BOOLEAN, ScanRaises(denied)
       PROVE  PlanInv'
  BY <1>5, <1>17 DEF ScanRaises, TypeOK, SwTypeOK, SwRec, Planned
<1>18. CASE CommitBatch
  BY <1>5, <1>18 DEF CommitBatch, At, TypeOK, SwTypeOK, SwRec, Planned
<1>. QED
  BY <1>7, <1>8, <1>9, <1>10, <1>11, <1>12, <1>13, <1>14, <1>15, <1>16,
     <1>17, <1>18
     DEF SyncStep, SyncNext

-----------------------------------------------------------------------------
(* What a step does to a document that it does not make active.            *)
NotActivated(d) ==
  doc'[d].life = "active" =>
    /\ doc[d].life = "active" /\ doc'[d].gone = doc[d].gone
    /\ doc'[d].status = "none" => doc[d].status = "none"

\* The administrator activates no document.
LEMMA AdminNotActivated ==
  ASSUME TypeOK, AdminStep, NEW d \in Docs
  PROVE  NotActivated(d)
<1> USE DEF TypeOK, StoreTypeOK
<1>1. CASE UNCHANGED doc
  BY <1>1 DEF NotActivated
<1>2. \A e \in Docs : [doc[e] EXCEPT !.life = "excluded",
                                     !.eligible = FALSE].life = "excluded"
  BY DEF DocRec
<1>3. ASSUME NEW e \in Docs, ExcludeDocument(e)
      PROVE  NotActivated(d)
  <2>1. CASE doc[e].gone
    BY <1>3, <2>1 DEF ExcludeDocument, NotActivated
  <2>2. CASE ~doc[e].gone
    <3>1. doc' = [doc EXCEPT ![e] = [doc[e] EXCEPT !.life = "excluded",
                                                   !.eligible = FALSE]]
      BY <1>3, <2>2 DEF ExcludeDocument
    <3>. QED BY <1>2, <3>1 DEF NotActivated
  <2>. QED BY <2>1, <2>2
<1>4. CASE ExcludeCollection
  <2>1. doc'[d] \in {doc[d], [doc[d] EXCEPT !.life = "excluded",
                                            !.eligible = FALSE]}
    BY <1>4 DEF ExcludeCollection
  <2>. QED BY <1>2, <2>1 DEF NotActivated
<1>. QED
  BY <1>1, <1>3, <1>4
     DEF AdminStep, AdminNext, AdminOperation, EditSettings, EditConnection,
         RequestValidation, Disable, Enable, RequestPurge, Restore,
         ManualSync, SelectAll, SelectExplicitly, Deselect, SetSelection,
         DeleteExclusion, CreateIndexJob

\* Nor does the second half of a reindexing.
LEMMA ReindexNotActivated ==
  ASSUME TypeOK, ReindexStep, NEW d \in Docs
  PROVE  NotActivated(d)
  BY ReindexRow DEF NotActivated

\* The source worker activates documents only in a batch.
LEMMA SyncNotActivated ==
  ASSUME TypeOK, SyncStep, ~CommitBatch, NEW d \in Docs
  PROVE  NotActivated(d)
<1> USE DEF TypeOK, StoreTypeOK
<1>1. CASE UNCHANGED doc
  BY <1>1 DEF NotActivated
<1>2. CASE CommitComplete
  <2>1. [doc[d] EXCEPT !.life = "missing", !.eligible = FALSE,
                       !.status = "deleted", !.gone = TRUE].life = "missing"
    BY DEF DocRec
  <2>2. doc'[d] \in {doc[d],
                     [doc[d] EXCEPT !.life = "missing", !.eligible = FALSE,
                                    !.status = "deleted", !.gone = TRUE]}
    BY <1>2 DEF CommitComplete
  <2>. QED BY <2>1, <2>2 DEF NotActivated
<1>3. CASE FailRun
  <2>1. LET r == [doc[d] EXCEPT !.eligible = FALSE] IN
          /\ r.life = doc[d].life /\ r.gone = doc[d].gone
          /\ r.status = doc[d].status
    BY DEF DocRec
  <2>2. doc'[d] \in {doc[d], [doc[d] EXCEPT !.eligible = FALSE]}
    BY <1>3 DEF FailRun
  <2>. QED BY <2>1, <2>2 DEF NotActivated
<1>4. UNCHANGED doc \/ CommitComplete \/ FailRun
  BY DEF SyncStep, SyncNext, Recover, RecoverFail, ReadValidation,
         ClaimValidation, Probe, CommitValid, CommitInvalid, ClaimDueSource,
         StartDiscovery,
         NothingDue, ReadCollection, ListNothing, DiscoveryRaises,
         UpsertCollection, FenceDiscovery, CommitDiscovery, FailDiscovery,
         ReadQueuedRun, DropStaleRun, ClaimRun, LoadPlan, Scan, ScanRaises,
         FenceScan, FenceBatch, FenceComplete, Supersede, CommitRaises,
         JudgeFailure, HandlerFails, storeVars
<1>. QED BY <1>1, <1>2, <1>3, <1>4

\* The index worker activates no document.
LEMMA IndexNotActivated ==
  ASSUME TypeOK, IndexNext \/ IndexMishap, NEW d \in Docs
  PROVE  NotActivated(d)
<1> USE DEF TypeOK, StoreTypeOK
<1>1. CASE UNCHANGED doc
  BY <1>1 DEF NotActivated
<1>2. ASSUME NEW j \in Jobs, NEW r,
             doc' = [doc EXCEPT ![DocOf[j]] = r],
             \/ r.life = "access_revoked"
             \/ /\ r.life = doc[DocOf[j]].life /\ r.gone = doc[DocOf[j]].gone
                /\ r.status # "none"
      PROVE  NotActivated(d)
  BY <1>2, DocOfAssumption DEF NotActivated
<1>3. ASSUME NEW j \in Jobs, NEW status, status # "none",
             doc' = [doc EXCEPT ![DocOf[j]].status = status]
      PROVE  NotActivated(d)
  <2>1. doc' = [doc EXCEPT ![DocOf[j]] =
                  [doc[DocOf[j]] EXCEPT !.status = status]]
    BY <1>3
  <2>2. LET r == [doc[DocOf[j]] EXCEPT !.status = status] IN
          /\ r.life = doc[DocOf[j]].life /\ r.gone = doc[DocOf[j]].gone
          /\ r.status = status
    BY DocOfAssumption DEF DocRec
  <2>. QED BY <1>2, <1>3, <2>1, <2>2
<1>4. ASSUME NEW j \in Jobs, Publish(j)
      PROVE  NotActivated(d)
  <2>1. doc' = [doc EXCEPT ![DocOf[j]] =
                  [doc[DocOf[j]] EXCEPT !.status = "ready",
                                        !.eligible = TRUE]]
    BY <1>4 DEF Publish
  <2>2. LET r == [doc[DocOf[j]] EXCEPT !.status = "ready",
                                       !.eligible = TRUE] IN
          /\ r.life = doc[DocOf[j]].life /\ r.gone = doc[DocOf[j]].gone
          /\ r.status = "ready"
    BY DocOfAssumption DEF DocRec
  <2>. QED BY <1>2, <2>1, <2>2
<1>5. ASSUME NEW j \in Jobs, FailDenied(j)
      PROVE  NotActivated(d)
  <2>1. doc' = [doc EXCEPT ![DocOf[j]] =
                  [doc[DocOf[j]] EXCEPT !.status = "failed",
                                        !.life = "access_revoked",
                                        !.eligible = FALSE]]
    BY <1>5 DEF FailDenied
  <2>2. [doc[DocOf[j]] EXCEPT !.status = "failed",
                              !.life = "access_revoked",
                              !.eligible = FALSE].life = "access_revoked"
    BY DocOfAssumption DEF DocRec
  <2>. QED BY <1>2, <2>1, <2>2
<1>6. ASSUME NEW j \in Jobs,
             StartChild(j) \/ MarkSuperseded(j) \/ PersistSkipped(j)
             \/ FailRetry(j) \/ FailForGood(j)
      PROVE  NotActivated(d)
  <2>1. \/ doc' = doc
        \/ \E status : status # "none" /\
             doc' = [doc EXCEPT ![DocOf[j]].status = status]
    BY <1>6 DEF StartChild, MarkSuperseded, PersistSkipped, FailRetry,
                FailForGood
  <2>2. ASSUME NEW status, status # "none",
               doc' = [doc EXCEPT ![DocOf[j]].status = status]
        PROVE  NotActivated(d)
    BY <1>3, <2>2
  <2>. QED BY <1>1, <2>1, <2>2
<1>7. \/ UNCHANGED doc
      \/ \E j \in Jobs : \/ Publish(j) \/ FailDenied(j) \/ StartChild(j)
                         \/ MarkSuperseded(j) \/ PersistSkipped(j)
                         \/ FailRetry(j) \/ FailForGood(j)
  BY DEF IndexNext, IndexMishap, ChildNext, ParentNext, FailJob, Claim,
         CheckJob, Fetch, Build, FetchRaises, BuildRaises, Fence, Collect,
         FailSuperseded, StopChild, StopExited, RecoverJob, Stopped, Restart,
         Recovered, ChildDies, Timeout, Terminate, Stop, IndexCrash,
         storeVars
<1>. QED BY <1>1, <1>4, <1>5, <1>6, <1>7

\* A batch activates only documents that are not in its plan.
LEMMA BatchActivates ==
  ASSUME TypeOK, CommitBatch, NEW d \in Docs
  PROVE  /\ doc'[d].life = "active"
              => doc[d].life = "active" \/ d \notin sw.plan
         /\ \/ doc'[d] = doc[d]
            \/ ~doc'[d].gone /\ (doc'[d].life = "active"
                                   => doc'[d].status # "none")
<1> USE DEF TypeOK, StoreTypeOK
<1>1. PICK batch \in SUBSET sw.todo :
        doc' = [e \in Docs |-> IF e \in batch THEN ReconciledDoc(e)
                               ELSE doc[e]]
  BY DEF CommitBatch
<1>2. CASE d \notin batch
  BY <1>1, <1>2
<1>3. CASE d \in batch
  <2>1. /\ doc'[d].life = Lifecycle(d, sw.obs[d]) /\ ~doc'[d].gone
        /\ doc'[d].status = ReconciledStatus(d, sw.obs[d])
    BY <1>1, <1>3 DEF ReconciledDoc
  <2>2. Lifecycle(d, sw.obs[d]) = "active" =>
          /\ ReconciledStatus(d, sw.obs[d]) # "none" /\ d \notin sw.plan
    BY DEF Lifecycle, ReconciledStatus
  <2>. QED BY <2>1, <2>2
<1>. QED BY <1>2, <1>3

\* Rows without a live document stay inactive.
LEMMA RowsPreserved ==
  ASSUME TypeOK, RowInv, [Next]_vars
  PROVE  RowInv'
<1> SUFFICES ASSUME NEW d \in Docs,
                    doc'[d].gone \/ doc'[d].status = "none"
             PROVE  doc'[d].life # "active"
  BY DEF RowInv
<1>1. CASE NotActivated(d)
  BY <1>1 DEF NotActivated, RowInv
<1>2. CASE CommitBatch
  BY <1>2, BatchActivates DEF RowInv
<1>3. UNCHANGED doc => NotActivated(d)
  BY DEF NotActivated
<1>4. \/ AdminStep \/ ReindexStep \/ SyncStep \/ IndexNext \/ IndexMishap
      \/ UNCHANGED doc
  BY DEF Next, IndexStep, Disturbance, SourceChange, SyncCrash, vars,
         storeVars
<1>. QED
  BY <1>1, <1>2, <1>3, <1>4, AdminNotActivated, ReindexNotActivated,
     SyncNotActivated, IndexNotActivated

\* Every step preserves the invariant of the plans.
LEMMA PlanPreserved ==
  ASSUME TypeOK, PlanInv, [Next]_vars
  PROVE  PlanInv'
<1>1. CASE UNCHANGED <<rules, collection, run, sw>>
  BY <1>1 DEF PlanInv
<1>2. CASE SyncCrash
  BY <1>2, FiltersAreNumbers DEF SyncCrash, storeVars, PlanInv, Idle, Planned
<1>3. IndexNext \/ IndexMishap => UNCHANGED <<rules, collection, run>>
  BY DEF IndexNext, IndexMishap, ChildNext, ParentNext, FailJob, Claim,
         StartChild, CheckJob, MarkSuperseded, Fetch, Build, FetchRaises,
         BuildRaises, Fence, Publish, PersistSkipped, Collect,
         FailSuperseded, FailDenied, FailRetry, FailForGood, Pass, StopChild,
         StopExited, RecoverJob, Stopped, Restart, Recovered, ChildDies,
         Timeout, Terminate, Stop, IndexCrash, storeVars
<1>4. \/ AdminStep \/ SyncStep \/ SyncCrash
      \/ UNCHANGED <<rules, collection, run, sw>>
  BY <1>3, ReindexRow DEF Next, IndexStep, Disturbance, SourceChange, vars
<1>. QED BY <1>1, <1>2, <1>4, AdminPlan, SyncPlan

\* A new rule finds no active document, or excludes it.
LEMMA AdminExcludes ==
  ASSUME TypeOK, RowInv, AdminStep, NEW d \in Docs, ActiveThoughExcluded(d)'
  PROVE  ActiveThoughExcluded(d)
<1> USE DEF TypeOK, StoreTypeOK
<1>1. doc[d].life = "active"
  BY AdminNotActivated DEF NotActivated, ActiveThoughExcluded
<1>2. CASE rules' \subseteq rules
  BY <1>1, <1>2 DEF ActiveThoughExcluded, Excluded
<1>3. ~doc[d].gone /\ Exists(d)
  BY <1>1 DEF RowInv, Exists
<1>4. [doc[d] EXCEPT !.life = "excluded", !.eligible = FALSE].life
        = "excluded"
  BY DEF DocRec
<1>5. ASSUME NEW e \in Docs, ExcludeDocument(e), d \in rules'
      PROVE  d \in rules
  <2>1. CASE e = d
    <3>1. doc' = [doc EXCEPT ![d] = [doc[d] EXCEPT !.life = "excluded",
                                                   !.eligible = FALSE]]
      BY <1>3, <1>5, <2>1 DEF ExcludeDocument
    <3>. QED BY <1>4, <3>1 DEF ActiveThoughExcluded
  <2>2. CASE e # d
    BY <1>5, <2>2 DEF ExcludeDocument
  <2>. QED BY <2>1, <2>2
<1>6. ASSUME NEW e \in Docs, ExcludeDocument(e)
      PROVE  ActiveThoughExcluded(d)
  <2>1. Whole \in rules' => Whole \in rules
    BY <1>6, WholeAssumption DEF ExcludeDocument
  <2>. QED BY <1>1, <1>5, <1>6, <2>1 DEF ActiveThoughExcluded, Excluded
<1>7. ~ExcludeCollection
  <2>1. ExcludeCollection =>
          doc'[d] = [doc[d] EXCEPT !.life = "excluded", !.eligible = FALSE]
    BY <1>3 DEF ExcludeCollection
  <2>. QED BY <1>4, <2>1 DEF ActiveThoughExcluded
<1>. QED
  BY <1>2, <1>6, <1>7
     DEF AdminStep, AdminNext, AdminOperation, EditSettings, EditConnection,
         RequestValidation, Disable, Enable, RequestPurge, Restore,
         ManualSync, SelectAll, SelectExplicitly, Deselect, SetSelection,
         DeleteExclusion, CreateIndexJob

(***************************************************************************)
(* Only a batch that overtakes its fence activates an excluded document:   *)
(* the plan of a run whose fence still holds is the current set of rules.  *)
(***************************************************************************)
THEOREM ExcludedOnlyLate == Spec => ExcludedOnlyByLateBatch
<1>1. Init => PlanInv /\ RowInv
  BY DEF Init, StoreInit, SwInit, Idle, NoRun, NoDoc, PlanInv, RowInv,
         Planned
<1>2. TypeOK /\ PlanInv /\ RowInv /\ [Next]_vars => (PlanInv /\ RowInv)'
  BY RowsPreserved, PlanPreserved
<1>3. TypeOK /\ PlanInv /\ RowInv /\ [Next]_vars => [ExcludedStep]_vars
  <2> SUFFICES ASSUME TypeOK, PlanInv, RowInv, [Next]_vars, NEW d \in Docs,
                      ActiveThoughExcluded(d)', ~ActiveThoughExcluded(d)
               PROVE  At("commitBatch") /\ ~Current
    BY DEF ExcludedStep
  <2>1. CASE CommitBatch
    <3>1. UNCHANGED rules /\ At("commitBatch")
      BY <2>1 DEF CommitBatch
    <3>2. Excluded(d) /\ d \notin sw.plan
      BY <2>1, <3>1, BatchActivates DEF ActiveThoughExcluded, Excluded
    <3>3. ASSUME Current
          PROVE  sw.plan = rules /\ Whole \notin rules
      BY <3>1, <3>3
         DEF Current, RunCurrent, Syncable, PlanInv, Planned, At
    <3>. QED BY <3>1, <3>2, <3>3 DEF Excluded
  <2>2. CASE ~AdminStep /\ ~CommitBatch
    <3>1. UNCHANGED rules
      BY <2>2, ReindexRow
         DEF Next, SyncStep, SyncNext, Recover, RecoverFail, ReadValidation,
             ClaimValidation, Probe, CommitValid, CommitInvalid,
             ClaimDueSource, StartDiscovery, NothingDue,
           ReadCollection, ListNothing,
             DiscoveryRaises, UpsertCollection, FenceDiscovery,
             CommitDiscovery, FailDiscovery, ReadQueuedRun, DropStaleRun,
             ClaimRun, LoadPlan, Scan, ScanRaises, FenceScan, FenceBatch,
             FenceComplete, CommitComplete, Supersede, CommitRaises,
             JudgeFailure, FailRun, HandlerFails, IndexStep, IndexNext,
             IndexMishap, ChildNext, ParentNext, FailJob, Claim, StartChild,
             CheckJob, MarkSuperseded, Fetch, Build, FetchRaises,
             BuildRaises, Fence, Publish, PersistSkipped, Collect,
             FailSuperseded, FailDenied, FailRetry, FailForGood, Pass,
             StopChild, StopExited, RecoverJob, Stopped, Restart, Recovered,
             ChildDies, Timeout, Terminate, Stop, IndexCrash, Disturbance,
             SourceChange, SyncCrash, storeVars, vars
    <3>2. NotActivated(d)
      <4>1. UNCHANGED doc => NotActivated(d)
        BY DEF NotActivated
      <4>2. ReindexStep \/ SyncStep \/ IndexNext \/ IndexMishap \/ UNCHANGED doc
        BY <2>2 DEF Next, IndexStep, Disturbance, SourceChange, SyncCrash,
                    vars, storeVars
      <4>. QED BY <2>2, <4>1, <4>2, ReindexNotActivated, SyncNotActivated,
                 IndexNotActivated
    <3>. QED BY <3>1, <3>2 DEF NotActivated, ActiveThoughExcluded, Excluded
  <2>. QED BY <2>1, <2>2, AdminExcludes
<1>. QED BY <1>1, <1>2, <1>3, TypeCorrect, PTL
         DEF Spec, ExcludedOnlyByLateBatch

-----------------------------------------------------------------------------
(***************************************************************************)
(* With every fence and the write it guards in one step, the pipeline      *)
(* keeps the promises on served revisions, exclusions and the return to    *)
(* retrieval, for every value of the constants: the fences ask for enough, *)
(* and only when they are evaluated is amiss.                              *)
(***************************************************************************)

(***************************************************************************)
(* What a fence has found still holds when the write behind it is next.    *)
(***************************************************************************)
FencesHold ==
  /\ \A j \in Jobs : child[j].pc = "publish" => ~JobSuperseded(j)
  /\ sw.pc \in {"commitBatch", "commitComplete"} => Current

\* An atomic step is a step of the pipeline.
LEMMA AtomicRefines ==
  ASSUME [AtomicNext]_promiseVars
  PROVE  [Next]_vars
  BY DEF AtomicNext, PromiseNext, MCNext, Next, promiseVars, mcVars

\* A child goes to its publication only from a fence that has passed.
LEMMA PublishIsFenced ==
  ASSUME TypeOK, [Next]_vars, NEW j \in Jobs, child'[j].pc = "publish",
         child'[j] # child[j]
  PROVE  ~JobSuperseded(j) /\ UNCHANGED storeVars
<1> USE DEF TypeOK, IndexTypeOK
<1>1. NoChild.pc # "publish"
  BY DEF NoChild
<1>2. ASSUME NEW k \in Jobs, NEW error, Exit(k, error)
      PROVE  FALSE
  BY <1>2 DEF Exit, NoChild
<1>3. ASSUME NEW k \in Jobs, NEW pc, GoChild(k, pc)
      PROVE  k = j /\ pc = "publish"
  BY <1>3 DEF GoChild, ChildRec
<1>4. ASSUME NEW k \in Jobs, Forget(k)
      PROVE  FALSE
  BY <1>1, <1>4 DEF Forget
<1>5. ASSUME NEW k \in Jobs, NEW error, Judge(k, error)
      PROVE  FALSE
  <2>1. [NoChild EXCEPT !.pc = "failing",
                        !.note = Verdict(k, error)].pc = "failing"
    BY DEF NoChild
  <2>2. child' = [child EXCEPT ![k] =
                    [NoChild EXCEPT !.pc = "failing",
                                    !.note = Verdict(k, error)]]
    BY <1>4, <1>5 DEF Judge
  <2>. QED BY <2>1, <2>2
<1>6. ASSUME NEW k \in Jobs, FailJob(k)
      PROVE  FALSE
  BY <1>1, <1>6 DEF FailJob, FailSuperseded, FailDenied, FailRetry,
                    FailForGood, Pass
<1>7. ASSUME NEW k \in Jobs,
             Collect(k) \/ StopChild(k) \/ StopExited(k) \/ RecoverJob(k)
             \/ Timeout(k) \/ ChildDies(k)
      PROVE  FALSE
  BY <1>2, <1>4, <1>5, <1>7
     DEF Collect, StopChild, StopExited, RecoverJob, Timeout, Terminate,
         ChildDies
<1>8. ASSUME NEW k \in Jobs, Claim(k) \/ StartChild(k)
      PROVE  FALSE
  BY <1>3, <1>8 DEF Claim, StartChild
<1>9. ASSUME NEW k \in Jobs, CheckJob(k) \/ MarkSuperseded(k) \/ Fetch(k)
             \/ Publish(k) \/ PersistSkipped(k)
             \/ (\E error \in Errors :
                   FetchRaises(k, error) \/ BuildRaises(k, error))
      PROVE  FALSE
  BY <1>2, <1>3, <1>9
     DEF CheckJob, MarkSuperseded, Fetch, Publish, PersistSkipped,
         FetchRaises, BuildRaises
<1>10. ASSUME NEW k \in Jobs, Build(k)
       PROVE  FALSE
  <2>1. ~GoChild(k, "skip")
    BY <1>3
  <2>2. child' = [child EXCEPT ![k].pc = "fence",
                               ![k].content = scratch[DocOf[k]]]
    BY <1>10, <2>1 DEF Build
  <2>3. child' = [child EXCEPT ![k] =
                    [child[k] EXCEPT !.pc = "fence",
                                     !.content = scratch[DocOf[k]]]]
    BY <2>2
  <2>4. [child[k] EXCEPT !.pc = "fence",
                         !.content = scratch[DocOf[k]]].pc = "fence"
    BY DEF ChildRec
  <2>. QED BY <2>3, <2>4
<1>11. CASE IndexCrash
  BY <1>1, <1>11 DEF IndexCrash
<1>12. ASSUME NEW k \in Jobs, Fence(k)
       PROVE  ~JobSuperseded(j) /\ UNCHANGED storeVars
  <2>1. ~JobSuperseded(k) /\ UNCHANGED job /\ GoChild(k, "publish")
    BY <1>2, <1>12 DEF Fence
  <2>2. k = j
    BY <1>3, <2>1
  <2>. QED BY <1>12, <2>1, <2>2 DEF Fence, storeVars
<1>13. ReindexStep => UNCHANGED child
  BY ReindexRow
<1>14. \/ UNCHANGED child \/ IndexCrash
       \/ \E k \in Jobs :
            \/ ChildNext(k) \/ ChildDies(k) \/ Timeout(k) \/ Claim(k)
            \/ StartChild(k) \/ Collect(k) \/ FailJob(k) \/ StopChild(k)
            \/ StopExited(k) \/ RecoverJob(k)
  BY <1>13
     DEF Next, AdminStep, SyncStep, IndexStep, Disturbance, IndexNext,
         ParentNext, IndexMishap, Stopped, Restart, Recovered, Stop,
         indexVars, vars
<1>15. ASSUME NEW k \in Jobs, ChildNext(k)
       PROVE  ~JobSuperseded(j) /\ UNCHANGED storeVars
  BY <1>9, <1>10, <1>12, <1>15 DEF ChildNext
<1>. QED BY <1>6, <1>7, <1>8, <1>11, <1>14, <1>15

\* The worker goes to the write of a run only from a fence that has passed.
LEMMA RunWriteIsFenced ==
  ASSUME TypeOK, [Next]_vars, sw' # sw,
         sw'.pc \in {"commitBatch", "commitComplete"}
  PROVE  Current /\ Current'
<1> USE DEF TypeOK, SwTypeOK
<1>1. \A pc : /\ Idle(pc).pc = pc
              /\ [sw EXCEPT !.pc = pc].pc = pc
  BY DEF Idle, SwRec
<1>2. CASE FenceBatch \/ FenceComplete
  <2>1. /\ UNCHANGED storeVars /\ Current
        /\ \E pc : sw' = [sw EXCEPT !.pc = pc]
    BY <1>1, <1>2 DEF FenceBatch, FenceComplete, Goto
  <2>2. sw'.config = sw.config /\ sw'.filter = sw.filter
    BY <2>1 DEF SwRec
  <2>. QED BY <2>1, <2>2 DEF Current, RunCurrent, Syncable, storeVars
<1>3. ASSUME NEW pc, pc \notin {"commitBatch", "commitComplete"}
      PROVE  sw' # Idle(pc) /\ sw' # [sw EXCEPT !.pc = pc]
  BY <1>1, <1>3
<1>4. \A pc, config, filter :
        pc \notin {"commitBatch", "commitComplete"} =>
          /\ sw' # [sw EXCEPT !.pc = pc, !.config = config]
          /\ sw' # [sw EXCEPT !.pc = pc, !.config = config,
                              !.filter = filter]
  BY DEF SwRec
<1>5. ~(Recover \/ RecoverFail \/ CommitValid \/ CommitInvalid \/ NothingDue
        \/ CommitDiscovery \/ FailDiscovery \/ CommitComplete \/ Supersede
        \/ FailRun \/ HandlerFails \/ SyncCrash)
  <2>1. ASSUME Recover
        PROVE  FALSE
    <3>1. sw' = Idle("recoverFail") \/ sw' = Idle("validate")
      BY <2>1 DEF Recover
    <3>. QED BY <1>1, <3>1
  <2>. QED
    BY <1>3, <2>1
       DEF RecoverFail, CommitValid, CommitInvalid, NothingDue,
           CommitDiscovery, FailDiscovery, CommitComplete, Supersede,
           FailRun, HandlerFails, SyncCrash
<1>6. ~(ClaimValidation \/ StartDiscovery \/ ListNothing \/ DiscoveryRaises
        \/ UpsertCollection \/ FenceScan \/ JudgeFailure \/ CommitRaises
        \/ FenceDiscovery \/ ClaimRun \/ \E valid \in BOOLEAN : Probe(valid))
  BY <1>3 DEF ClaimValidation, StartDiscovery, ListNothing, DiscoveryRaises,
              UpsertCollection, FenceScan, JudgeFailure, CommitRaises,
              FenceDiscovery, ClaimRun, Probe, Goto
<1>7. ~(ReadValidation \/ ClaimDueSource \/ ReadCollection \/ ReadQueuedRun)
  <2>1. ASSUME ReadValidation
        PROVE  FALSE
    <3>1. \/ sw' = Idle("due")
          \/ sw' = [sw EXCEPT !.pc = "claimValidation",
                              !.config = source.config]
      BY <2>1 DEF ReadValidation
    <3>. QED BY <1>3, <1>4, <3>1
  <2>2. ASSUME ClaimDueSource
        PROVE  FALSE
    BY <2>2 DEF ClaimDueSource, SwRec
  <2>3. ASSUME ReadCollection
        PROVE  FALSE
    BY <2>3 DEF ReadCollection, SwRec
  <2>4. ASSUME ReadQueuedRun
        PROVE  FALSE
    <3>1. CASE sw' = Idle("validate")
      BY <1>3, <3>1
    <3>2. ASSUME NEW pc \in {"claimRun", "dropStale"},
                 sw' = [sw EXCEPT !.pc = pc, !.config = run.config,
                                  !.filter = run.filter]
          PROVE  FALSE
      BY <1>4, <3>2
    <3>. QED BY <2>4, <3>1, <3>2 DEF ReadQueuedRun
  <2>. QED BY <2>1, <2>2, <2>3, <2>4
<1>8. ~(LoadPlan \/ Scan \/ (\E denied \in BOOLEAN : ScanRaises(denied))
        \/ CommitBatch)
  BY <1>1 DEF LoadPlan, Scan, ScanRaises, CommitBatch, SwRec
<1>9. ~DropStaleRun
  <2>1. \A config, filter : [sw EXCEPT !.pc = "plan", !.config = config,
                                       !.filter = filter].pc = "plan"
    BY DEF SwRec
  <2>. QED BY <1>1, <2>1 DEF DropStaleRun
<1>10. SyncStep \/ SyncCrash
  BY ReindexRow DEF Next, AdminStep, IndexStep, Disturbance, vars
<1>. QED
  BY <1>2, <1>5, <1>6, <1>7, <1>8, <1>9, <1>10 DEF SyncStep, SyncNext

\* A fence that has passed holds until its write.
LEMMA FencesKept ==
  ASSUME TypeOK, FencesHold, [AtomicNext]_promiseVars
  PROVE  FencesHold'
<1>1. [Next]_vars
  BY AtomicRefines
<1>2. CASE UNCHANGED promiseVars
  BY <1>2 DEF promiseVars, mcVars, vars, FencesHold, JobSuperseded, Current,
              RunCurrent, Syncable
<1>3. CASE AtomicNext
  <2>1. ASSUME NEW j \in Jobs, child'[j].pc = "publish"
        PROVE  ~JobSuperseded(j)'
    <3>1. child'[j] # child[j]
      BY <1>3, <2>1 DEF AtomicNext, ChildWriting
    <3>2. ~JobSuperseded(j) /\ UNCHANGED storeVars
      BY <1>1, <2>1, <3>1, PublishIsFenced
    <3>. QED BY <3>2 DEF JobSuperseded, storeVars
  <2>2. ASSUME sw'.pc \in {"commitBatch", "commitComplete"}
        PROVE  Current'
    <3>1. sw' # sw
      BY <1>3, <2>2 DEF AtomicNext, SyncWriting
    <3>. QED BY <1>1, <2>2, <3>1, RunWriteIsFenced
  <2>. QED BY <2>1, <2>2 DEF FencesHold
<1>. QED BY <1>2, <1>3

\* An atomic behaviour is a behaviour of the pipeline, and its fences hold.
LEMMA AtomicFacts == AtomicSpec => Spec /\ []TypeOK /\ []FencesHold
<1>1. PromiseInit => Init
  BY DEF PromiseInit, MCInit
<1>2. Init => FencesHold
  BY DEF Init, StoreInit, SwInit, Idle, IndexInit, NoChild, FencesHold
<1>3. [AtomicNext]_promiseVars => [Next]_vars
  BY AtomicRefines
<1>4. AtomicSpec => Spec
  BY <1>1, <1>3, PTL DEF AtomicSpec, Spec
<1>5. TypeOK /\ FencesHold /\ [AtomicNext]_promiseVars => FencesHold'
  BY FencesKept
<1>. QED BY <1>1, <1>2, <1>4, <1>5, TypeCorrect, PTL DEF AtomicSpec

(***************************************************************************)
(* No index of another revision than the document's is servable: only a    *)
(* publication that overtakes its fence brings one about (StaleOnlyLate).  *)
(***************************************************************************)
THEOREM AtomicServesExpected == AtomicSpec => []ServedRevisionIsExpected
<1>1. PromiseInit => ServedRevisionIsExpected
  BY DEF PromiseInit, MCInit, Init, StoreInit, NoDoc,
         ServedRevisionIsExpected, Stale, Servable
<1>2. FencesHold /\ ServedRevisionIsExpected /\ [StaleStep]_vars
        => ServedRevisionIsExpected'
  <2> SUFFICES ASSUME FencesHold, ServedRevisionIsExpected,
                      [StaleStep]_vars, NEW d \in Docs, Stale(d)'
               PROVE  FALSE
    BY DEF ServedRevisionIsExpected
  <2>1. ~Stale(d)
    BY DEF ServedRevisionIsExpected
  <2>2. CASE StaleStep
    BY <2>1, <2>2 DEF StaleStep, LatePublish, FencesHold
  <2>3. CASE UNCHANGED vars
    BY <2>1, <2>3 DEF vars, Stale, Servable
  <2>. QED BY <2>2, <2>3
<1>. QED
  BY <1>1, <1>2, AtomicFacts, StaleOnlyLate, PTL
     DEF AtomicSpec, StaleOnlyByLatePublish

(***************************************************************************)
(* What a rule excludes is not retrievable: only a batch that overtakes    *)
(* its fence activates it (ExcludedOnlyLate).                              *)
(***************************************************************************)
THEOREM AtomicExcludes == AtomicSpec => []ExcludedNotServed
<1> DEFINE Inactive == \A d \in Docs : ~ActiveThoughExcluded(d)
<1>1. PromiseInit => Inactive
  BY DEF PromiseInit, MCInit, Init, StoreInit, NoDoc, ActiveThoughExcluded
<1>2. FencesHold /\ Inactive /\ [ExcludedStep]_vars => Inactive'
  <2> SUFFICES ASSUME FencesHold, Inactive, [ExcludedStep]_vars,
                      NEW d \in Docs, ActiveThoughExcluded(d)'
               PROVE  FALSE
    OBVIOUS
  <2>1. CASE ExcludedStep
    BY <2>1 DEF ExcludedStep, FencesHold, At
  <2>2. CASE UNCHANGED vars
    BY <2>2 DEF vars, ActiveThoughExcluded, Excluded
  <2>. QED BY <2>1, <2>2
<1>3. Inactive => ExcludedNotServed
  BY DEF ActiveThoughExcluded, ExcludedNotServed, Retrievable
<1> HIDE DEF Inactive
<1>. QED
  BY <1>1, <1>2, <1>3, AtomicFacts, ExcludedOnlyLate, PTL
     DEF AtomicSpec, ExcludedOnlyByLateBatch

(***************************************************************************)
(* A project returns to retrieval only by a run that is still current:     *)
(* nothing but the completion of a run sets its eligibility.               *)
(***************************************************************************)
THEOREM AtomicReturns == AtomicSpec => ReturnIsFenced
<1>1. ASSUME TypeOK, FencesHold, [AtomicNext]_promiseVars, ~project.eligible,
             project'.eligible
      PROVE  Current
  <2>1. [Next]_vars
    BY <1>1, AtomicRefines
  <2>2. /\ ~UNCHANGED project
        /\ \A life : project' # [life |-> life, eligible |-> FALSE]
        /\ project' # [project EXCEPT !.eligible = FALSE]
    BY <1>1 DEF TypeOK, StoreTypeOK, ProjectRec
  <2>3. ~AdminStep
    BY <2>2
       DEF AdminStep, AdminNext, AdminOperation, EditSettings,
           EditConnection, RequestValidation, Disable, Enable, RequestPurge,
           Restore, ManualSync, SelectAll, SelectExplicitly, Deselect,
           SetSelection, ExcludeDocument, ExcludeCollection,
           DeleteExclusion, CreateIndexJob
  <2>4. SyncStep => CommitComplete
    BY <2>2
       DEF SyncStep, SyncNext, Recover, RecoverFail, ReadValidation,
           ClaimValidation, Probe, CommitValid, CommitInvalid,
           ClaimDueSource, StartDiscovery, NothingDue, ReadCollection,
           ListNothing, DiscoveryRaises, UpsertCollection, FenceDiscovery,
           CommitDiscovery, FailDiscovery, ReadQueuedRun, DropStaleRun,
           ClaimRun, LoadPlan, Scan, ScanRaises, FenceScan, FenceBatch,
           CommitBatch, FenceComplete, Supersede, CommitRaises,
           JudgeFailure, FailRun, HandlerFails, storeVars
  <2>5. IndexNext \/ IndexMishap => UNCHANGED project
    BY DEF IndexNext, IndexMishap, ChildNext, ParentNext, FailJob, Claim,
           StartChild, CheckJob, MarkSuperseded, Fetch, Build, FetchRaises,
           BuildRaises, Fence, Publish, PersistSkipped, Collect,
           FailSuperseded, FailDenied, FailRetry, FailForGood, Pass,
           StopChild, StopExited, RecoverJob, Stopped, Restart, Recovered,
           ChildDies, Timeout, Terminate, Stop, IndexCrash, storeVars
  <2>6. ReindexStep => UNCHANGED project
    BY <1>1, ReindexRow
  <2>7. CommitComplete
    BY <2>1, <2>2, <2>3, <2>4, <2>5, <2>6
       DEF Next, IndexStep, Disturbance, SourceChange, SyncCrash, storeVars,
           vars
  <2>. QED BY <1>1, <2>7 DEF CommitComplete, At, FencesHold
<1>2. TypeOK /\ FencesHold /\ [AtomicNext]_promiseVars
        => [~project.eligible /\ project'.eligible => Current]_vars
  BY <1>1
<1>. QED BY <1>2, AtomicFacts, PTL DEF AtomicSpec, ReturnIsFenced
=============================================================================
