--------------------------- MODULE PipelineTypes ----------------------------
(***************************************************************************)
(* Type correctness of the pipeline, for every value of the constants: one *)
(* lemma per process, one step per action.  The invariants of              *)
(* PipelineProofs are relative to it.                                      *)
(***************************************************************************)
EXTENDS CorpusPipeline, TLAPS

-----------------------------------------------------------------------------
(* The rows that the actions write are rows of their tables.               *)

\* A freshly queued job is a row.
LEMMA NewJobType ==
  ASSUME NEW rev \in Revs \cup {NoRev}, NEW config \in Configs \cup {0}
  PROVE  NewJob(rev, config) \in JobRec
  BY DEF NewJob, JobRec, JobStatuses

\* A free slot is a row.
LEMMA NoJobType == NoJob \in JobRec
  BY DEF NoJob, JobRec, JobStatuses

\* Superseding queued jobs keeps the rows well typed.
LEMMA DropQueuedType ==
  ASSUME NEW jobs \in [Jobs -> JobRec], NEW D
  PROVE  DropQueued(jobs, D) \in [Jobs -> JobRec]
  BY NoJobType DEF DropQueued

\* A freshly queued run is a row.
LEMMA NewRunType ==
  ASSUME NEW config \in Configs, NEW filter \in Filters
  PROVE  NewRun(config, filter) \in RunRec
  BY DEF NewRun, RunRec

\* The absence of a run is a row.
LEMMA NoRunType == NoRun \in RunRec
  BY BoundsAssumption DEF NoRun, RunRec, Configs, Filters

\* A lifecycle and an eligibility can be written to a document.
LEMMA DocLifeType ==
  ASSUME NEW r \in DocRec, NEW life \in DocLives, NEW eligible \in BOOLEAN
  PROVE  [r EXCEPT !.life = life, !.eligible = eligible] \in DocRec
  BY DEF DocRec

\* The source worker between two activities is well typed.
LEMMA IdleType ==
  ASSUME NEW pc \in Pcs
  PROVE  Idle(pc) \in SwRec
<1>1. 1 \in Configs /\ 0 \in Filters
  BY BoundsAssumption DEF Configs, Filters
<1>2. NoObs \in [Docs -> Revs \cup {NoRev}]
  BY DEF NoObs
<1>. QED BY <1>1, <1>2 DEF Idle, SwRec

\* A source that degrades and waits keeps its row well typed.
LEMMA SourceWaitsType ==
  ASSUME NEW s \in SourceRec
  PROVE  Degrade(s) \in SourceRec
  BY DEF Degrade, Backoff, SourceRec, Dues

\* The run queued by a discovery is well typed.
LEMMA QueueRunType ==
  ASSUME NEW r \in RunRec, NEW c \in CollectionRec, NEW config \in Configs
  PROVE  QueueRun(r, c, config) \in RunRec
<1>1. c.filter \in Filters
  BY DEF CollectionRec
<1>. QED BY <1>1, NewRunType DEF QueueRun

\* The run that follows a superseded one is well typed.
LEMMA SupersededRunType ==
  ASSUME source \in SourceRec, collection \in CollectionRec
  PROVE  SupersededRun \in RunRec
<1>1. source.config \in Configs /\ collection.filter \in Filters
  BY DEF SourceRec, CollectionRec
<1>. QED BY <1>1, NewRunType, NoRunType DEF SupersededRun

\* Reconciliation writes a well-typed document.
LEMMA ReconciledDocType ==
  ASSUME TypeOK, NEW d \in Docs
  PROVE  ReconciledDoc(d) \in DocRec
<1>1. sw.obs[d] \in Revs \cup {NoRev} /\ sw.config \in Configs
  BY DEF TypeOK, SwTypeOK, SwRec
<1>2. Lifecycle(d, sw.obs[d]) \in {"active", "excluded", "unsupported"}
  BY DEF Lifecycle
<1>3. doc[d].status \in DocStatuses
  BY DEF TypeOK, StoreTypeOK, DocRec
<1>4. ReconciledStatus(d, sw.obs[d]) \in DocStatuses
  <2>1. {"skipped", "ready", "failed", "uploaded"} \subseteq DocStatuses
    BY DEF DocStatuses
  <2>. QED BY <1>2, <1>3, <2>1 DEF ReconciledStatus
<1>5. Lifecycle(d, sw.obs[d]) \in DocLives
  BY <1>2 DEF DocLives
<1>. QED BY <1>1, <1>4, <1>5 DEF ReconciledDoc, DocRec

\* What a child writes about itself is well typed.
LEMMA ChildTypes ==
  ASSUME IndexTypeOK, NEW j \in Jobs
  PROVE  /\ \A pc \in ChildPcs : GoChild(j, pc) => child' \in [Jobs -> ChildRec]
         /\ \A e \in {"none"} \cup Errors :
              Exit(j, e) => child' \in [Jobs -> ChildRec]
         /\ \A v \in Verdicts :
              [NoChild EXCEPT !.pc = "failing", !.note = v] \in ChildRec
         /\ NoChild \in ChildRec
<1>1. ASSUME NEW pc \in ChildPcs, GoChild(j, pc)
      PROVE  child' \in [Jobs -> ChildRec]
  <2>1. [child[j] EXCEPT !.pc = pc] \in ChildRec
    BY DEF IndexTypeOK, ChildRec
  <2>2. child' = [child EXCEPT ![j] = [child[j] EXCEPT !.pc = pc]]
    BY <1>1 DEF GoChild
  <2>. QED BY <2>1, <2>2 DEF IndexTypeOK
<1>2. NoChild \in ChildRec
  BY DEF NoChild, ChildRec, ChildPcs
<1>3. "exited" \in ChildPcs /\ "failing" \in ChildPcs
  BY DEF ChildPcs
<1>4. ASSUME NEW e \in {"none"} \cup Errors
      PROVE  [NoChild EXCEPT !.pc = "exited", !.note = e] \in ChildRec
  BY <1>2, <1>3 DEF ChildRec
<1>5. ASSUME NEW e \in {"none"} \cup Errors, Exit(j, e)
      PROVE  child' \in [Jobs -> ChildRec]
  BY <1>4, <1>5 DEF Exit, IndexTypeOK
<1>6. ASSUME NEW v \in Verdicts
      PROVE  [NoChild EXCEPT !.pc = "failing", !.note = v] \in ChildRec
  BY <1>2, <1>3 DEF ChildRec
<1>. QED BY <1>1, <1>2, <1>5, <1>6

\* A status can be written to a job.
LEMMA JobStatusType ==
  ASSUME StoreTypeOK, NEW j \in Jobs, NEW status \in JobStatuses
  PROVE  [job EXCEPT ![j].status = status] \in [Jobs -> JobRec]
<1>1. [job[j] EXCEPT !.status = status] \in JobRec
  BY DEF StoreTypeOK, JobRec
<1>2. [job EXCEPT ![j].status = status]
        = [job EXCEPT ![j] = [job[j] EXCEPT !.status = status]]
  OBVIOUS
<1>. QED BY <1>1, <1>2 DEF StoreTypeOK

\* A status can be written to a document.
LEMMA DocStatusType ==
  ASSUME StoreTypeOK, NEW d \in Docs, NEW status \in DocStatuses
  PROVE  [doc EXCEPT ![d].status = status] \in [Docs -> DocRec]
<1>1. [doc[d] EXCEPT !.status = status] \in DocRec
  BY DEF StoreTypeOK, DocRec
<1>2. [doc EXCEPT ![d].status = status]
        = [doc EXCEPT ![d] = [doc[d] EXCEPT !.status = status]]
  OBVIOUS
<1>. QED BY <1>1, <1>2 DEF StoreTypeOK

\* The judgement of an ended child keeps children and jobs well typed.
LEMMA JudgeTypes ==
  ASSUME TypeOK, NEW j \in Jobs, NEW error
  PROVE  /\ Forget(j) => /\ child' \in [Jobs -> ChildRec]
                         /\ job' \in [Jobs -> JobRec]
         /\ Judge(j, error) => /\ child' \in [Jobs -> ChildRec]
                               /\ job' \in [Jobs -> JobRec]
<1>1. ASSUME Forget(j)
      PROVE  child' \in [Jobs -> ChildRec] /\ job' \in [Jobs -> JobRec]
  BY <1>1, ChildTypes, NoJobType DEF Forget, TypeOK, StoreTypeOK, IndexTypeOK
<1>2. Verdict(j, error) \in Verdicts
  BY DEF Verdict, Verdicts
<1>3. ASSUME Judge(j, error)
      PROVE  child' \in [Jobs -> ChildRec] /\ job' \in [Jobs -> JobRec]
  BY <1>1, <1>2, <1>3, ChildTypes DEF Judge, TypeOK, StoreTypeOK, IndexTypeOK
<1>. QED BY <1>1, <1>3

-----------------------------------------------------------------------------
\* Every administrative operation keeps the types.
LEMMA AdminTypes ==
  ASSUME TypeOK, AdminStep
  PROVE  TypeOK'
<1> USE TypeOK DEF TypeOK, StoreTypeOK, SwTypeOK, IndexTypeOK, indexVars
<1>1. UNCHANGED <<sw, indexVars>> /\ AdminTypeOK'
  BY DEF AdminStep, AdminNext, AdminTypeOK, CreateIndexJob
<1>2. CASE EditSettings
  <2>1. source' \in SourceRec
    BY <1>2, BoundsAssumption DEF EditSettings, SourceRec, Configs
  <2>. QED BY <1>1, <1>2, <2>1 DEF EditSettings
<1>3. ASSUME NEW samePrincipal \in BOOLEAN, EditConnection(samePrincipal)
      PROVE  TypeOK'
  <2>1. source' \in SourceRec
    <3>1. source.config + 1 \in Configs
      BY <1>3, BoundsAssumption DEF EditConnection, SourceRec, Configs
    <3>2. {"draft", "active", "validation_pending"} \subseteq SourceStates
      BY DEF SourceStates
    <3>3. \A s \in SourceStates :
            (IF s = "draft" THEN "draft"
             ELSE IF s = "active" /\ samePrincipal THEN "active"
             ELSE "validation_pending") \in SourceStates
      BY <3>2
    <3>. QED BY <1>3, <3>1, <3>3 DEF EditConnection, SourceRec
  <2>2. project' \in ProjectRec
    BY <1>3 DEF EditConnection, ProjectRec
  <2>. QED BY <1>1, <1>3, <2>1, <2>2 DEF EditConnection
<1>4. CASE RequestValidation
  <2>1. source' \in SourceRec
    BY <1>4 DEF RequestValidation, SourceRec
  <2>. QED BY <1>1, <1>4, <2>1 DEF RequestValidation
<1>5. CASE Disable
  <2>1. source' \in SourceRec
    BY <1>5 DEF Disable, SourceRec, SourceStates, Dues
  <2>2. project' \in ProjectRec
    BY <1>5 DEF Disable, ProjectRec, CollectionLives
  <2>3. job' \in [Jobs -> JobRec] /\ run' \in RunRec
    BY <1>5, DropQueuedType, NoRunType DEF Disable, CancelQueuedWork
  <2>. QED BY <1>1, <1>5, <2>1, <2>2, <2>3 DEF Disable
<1>6. CASE Enable
  <2>1. source' \in SourceRec
    BY <1>6 DEF Enable, SourceRec, SourceStates
  <2>. QED BY <1>1, <1>6, <2>1 DEF Enable
<1>7. CASE RequestPurge
  <2>1. source' \in SourceRec /\ collection' \in CollectionRec
    BY <1>7
       DEF RequestPurge, SourceRec, SourceStates, CollectionRec, CollectionLives
  <2>2. project' \in ProjectRec
    BY <1>7 DEF RequestPurge, ProjectRec, CollectionLives
  <2>3. job' \in [Jobs -> JobRec] /\ run' \in RunRec
    BY <1>7, DropQueuedType, NoRunType DEF RequestPurge, CancelQueuedWork
  <2>. QED BY <1>1, <1>7, <2>1, <2>2, <2>3 DEF RequestPurge
<1>8. CASE Restore
  <2>1. source' \in SourceRec /\ collection' \in CollectionRec
    BY <1>8
       DEF Restore, SourceRec, SourceStates, CollectionRec, CollectionLives
  <2>2. project' \in ProjectRec
    BY <1>8 DEF Restore, ProjectRec, CollectionLives
  <2>. QED BY <1>1, <1>8, <2>1, <2>2 DEF Restore
<1>9. CASE ManualSync
  <2>1. source' \in SourceRec
    BY <1>9 DEF ManualSync, SourceRec, Dues
  <2>2. run' \in RunRec
    <3>1. source.config \in Configs /\ collection.filter \in Filters
      BY DEF SourceRec, CollectionRec
    <3>2. [run EXCEPT !.follow = TRUE] \in RunRec
      BY DEF RunRec
    <3>. QED BY <1>9, <3>1, <3>2, NewRunType DEF ManualSync
  <2>. QED BY <1>1, <1>9, <2>1, <2>2 DEF ManualSync
<1>10. ASSUME NEW op, NEW all \in BOOLEAN, NEW selected \in BOOLEAN,
              SetSelection(op, all, selected)
       PROVE  TypeOK'
  <2>1. source' \in SourceRec
    BY <1>10 DEF SetSelection, SourceRec
  <2>2. collection' \in CollectionRec
    BY <1>10 DEF SetSelection, CollectionRec, CollectionLives
  <2>3. project' \in ProjectRec
    BY <1>10 DEF SetSelection, ProjectRec, CollectionLives
  <2>. QED BY <1>1, <1>10, <2>1, <2>2, <2>3 DEF SetSelection
<1>11. ASSUME NextFilter <= MaxFilter, QueueFilterSync(NextFilter)
       PROVE  source' \in SourceRec /\ run' \in RunRec
  <2>1. source' \in SourceRec
    BY <1>11 DEF QueueFilterSync, SourceRec, Dues
  <2>2. source.config \in Configs /\ NextFilter \in Filters
    BY <1>11, BoundsAssumption
       DEF SourceRec, CollectionRec, NextFilter, Filters
  <2>3. /\ [run EXCEPT !.config = source.config, !.filter = NextFilter]
             \in RunRec
        /\ [run EXCEPT !.follow = TRUE] \in RunRec
    BY <2>2 DEF RunRec
  <2>. QED BY <1>11, <2>1, <2>2, <2>3, NewRunType DEF QueueFilterSync
<1>12. ASSUME NextFilter <= MaxFilter
       PROVE  /\ [collection EXCEPT !.filter = NextFilter] \in CollectionRec
              /\ [collection EXCEPT !.filter = NextFilter,
                                    !.life = "excluded"] \in CollectionRec
  <2>1. NextFilter \in Filters
    BY <1>12, BoundsAssumption DEF NextFilter, CollectionRec, Filters
  <2>2. "excluded" \in CollectionLives
    BY DEF CollectionLives
  <2>. QED BY <2>1, <2>2 DEF CollectionRec
<1>13. ASSUME NEW d \in Docs, ExcludeDocument(d)
       PROVE  TypeOK'
  <2>1. source' \in SourceRec /\ run' \in RunRec
    BY <1>11, <1>13 DEF ExcludeDocument
  <2>2. collection' \in CollectionRec /\ rules' \subseteq Docs \cup {Whole}
    BY <1>12, <1>13 DEF ExcludeDocument
  <2>3. [doc[d] EXCEPT !.life = "excluded", !.eligible = FALSE] \in DocRec
    BY <1>13, DocLifeType DEF DocLives
  <2>4. doc' \in [Docs -> DocRec]
    <3>1. CASE doc[d].gone
      BY <1>13, <3>1 DEF ExcludeDocument
    <3>2. CASE ~doc[d].gone
      <4>1. doc' = [doc EXCEPT ![d] = [doc[d] EXCEPT !.life = "excluded",
                                                     !.eligible = FALSE]]
        BY <1>13, <3>2 DEF ExcludeDocument
      <4>. QED BY <2>3, <4>1
    <3>. QED BY <3>1, <3>2
  <2>5. job' \in [Jobs -> JobRec]
    BY <1>13, DropQueuedType DEF ExcludeDocument
  <2>. QED BY <1>1, <1>13, <2>1, <2>2, <2>4, <2>5 DEF ExcludeDocument
<1>14. CASE ExcludeCollection
  <2>1. source' \in SourceRec /\ run' \in RunRec
    BY <1>11, <1>14 DEF ExcludeCollection
  <2>2. collection' \in CollectionRec /\ rules' \subseteq Docs \cup {Whole}
    BY <1>12, <1>14 DEF ExcludeCollection
  <2>3. \A d \in Docs : [doc[d] EXCEPT !.life = "excluded",
                                       !.eligible = FALSE] \in DocRec
    BY DocLifeType DEF DocLives
  <2>4. doc' \in [Docs -> DocRec] /\ job' \in [Jobs -> JobRec]
    BY <1>14, <2>3, DropQueuedType DEF ExcludeCollection
  <2>5. project' \in ProjectRec
    BY <1>14 DEF ExcludeCollection, ProjectRec, CollectionLives
  <2>. QED BY <1>1, <1>14, <2>1, <2>2, <2>4, <2>5 DEF ExcludeCollection
<1>15. ASSUME NEW t \in Docs \cup {Whole}, DeleteExclusion(t)
       PROVE  TypeOK'
  <2>1. source' \in SourceRec /\ run' \in RunRec
    BY <1>11, <1>15 DEF DeleteExclusion
  <2>2. collection' \in CollectionRec /\ rules' \subseteq Docs \cup {Whole}
    BY <1>12, <1>15 DEF DeleteExclusion
  <2>. QED BY <1>1, <1>15, <2>1, <2>2 DEF DeleteExclusion
<1>16. ASSUME NEW d \in Docs, CreateIndexJob(d)
       PROVE  TypeOK'
  <2>1. NewJob(doc[d].rev, doc[d].config) \in JobRec
    BY NewJobType DEF DocRec
  <2>2. job' \in [Jobs -> JobRec]
    BY <1>16, <2>1 DEF CreateIndexJob
  <2>. QED BY <1>1, <1>16, <2>2 DEF CreateIndexJob
<1>. QED
  BY <1>2, <1>3, <1>4, <1>5, <1>6, <1>7, <1>8, <1>9, <1>10, <1>13, <1>14,
     <1>15, <1>16
     DEF AdminStep, AdminNext, AdminOperation, SelectAll, SelectExplicitly,
         Deselect

\* The second transaction of a reindexing only sets the document's status.
LEMMA ReindexRow ==
  ASSUME TypeOK, ReindexStep
  PROVE  /\ UNCHANGED <<remote, source, discovery, collection, project, rules,
                        idx, job, run, sw, child, worker, scratch>>
         /\ \A d \in Docs :
              \/ doc'[d] = doc[d]
              \/ /\ doc'[d].status = "uploaded"
                 /\ \A f \in {"rev", "config", "life", "eligible", "gone"} :
                      doc'[d][f] = doc[d][f]
<1> USE DEF TypeOK, StoreTypeOK
<1>1. CASE ResetForReindex
  <2>1. ASSUME NEW d \in Docs
        PROVE  /\ [doc[d] EXCEPT !.status = "uploaded"].status = "uploaded"
               /\ \A f \in {"rev", "config", "life", "eligible", "gone"} :
                    [doc[d] EXCEPT !.status = "uploaded"][f] = doc[d][f]
    BY DEF DocRec
  <2>2. \A d \in Docs :
          doc'[d] \in {doc[d], [doc[d] EXCEPT !.status = "uploaded"]}
    BY <1>1 DEF ResetForReindex
  <2>. QED BY <1>1, <2>1, <2>2 DEF ResetForReindex, ReindexStep, indexVars
<1>2. CASE WebDies
  BY <1>2 DEF WebDies, ReindexStep, storeVars, indexVars
<1>. QED BY <1>1, <1>2 DEF ReindexStep, ReindexNext

\* The second half of a reindexing keeps the types.
LEMMA ReindexTypes ==
  ASSUME TypeOK, ReindexStep
  PROVE  TypeOK'
<1> USE TypeOK DEF TypeOK, StoreTypeOK, SwTypeOK, IndexTypeOK, indexVars
<1>1. UNCHANGED <<sw, indexVars>> /\ AdminTypeOK'
  BY DEF ReindexStep, ReindexNext, ResetForReindex, WebDies, AdminTypeOK
<1>2. CASE ResetForReindex
  <2>1. \A d \in Docs : [doc[d] EXCEPT !.status = "uploaded"] \in DocRec
    BY DEF DocRec, DocStatuses
  <2>. QED BY <1>1, <1>2, <2>1 DEF ResetForReindex
<1>3. CASE WebDies
  BY <1>1, <1>3 DEF WebDies, storeVars
<1>. QED BY <1>2, <1>3 DEF ReindexStep, ReindexNext

-----------------------------------------------------------------------------
\* Every step of the source worker keeps the types.
LEMMA SyncTypes ==
  ASSUME TypeOK, SyncStep
  PROVE  TypeOK'
<1> USE TypeOK DEF TypeOK, StoreTypeOK, SwTypeOK, IndexTypeOK, indexVars
<1>1. UNCHANGED indexVars /\ AdminTypeOK'
  BY DEF SyncStep, AdminTypeOK
<1>a. ASSUME NEW pc \in Pcs
      PROVE  [sw EXCEPT !.pc = pc] \in SwRec
  BY <1>a DEF SwRec
<1>b. {"validate", "recoverFail", "due", "sync", "claimValidation", "probe",
       "commitValid", "commitInvalid", "startDiscovery", "discover",
       "upsert", "fenceDiscovery", "commitDiscovery", "failDiscovery",
       "dropStale", "claimRun", "plan", "scan", "fenceScan", "reconcile",
       "commitBatch", "complete", "commitComplete", "supersede", "scanFailed",
       "failRun", "recover"} \subseteq Pcs
  BY DEF Pcs
<1>c. source.config \in Configs /\ source.all \in BOOLEAN
  BY DEF SourceRec
<1>d. sw.config \in Configs /\ sw.selected \in BOOLEAN
  BY DEF SwRec
<1>e. run.config \in Configs /\ run.filter \in Filters
  BY DEF RunRec
<1>f. collection.selected \in BOOLEAN
  BY DEF CollectionRec
<1>g. ASSUME NEW pc \in Pcs, UNCHANGED storeVars,
             sw' = Idle(pc) \/ sw' = [sw EXCEPT !.pc = pc]
      PROVE  TypeOK'
  BY <1>1, <1>a, <1>g, IdleType DEF storeVars
<1>2. CASE Recover
  <2>1. source' \in SourceRec
    BY <1>2 DEF Recover, SourceRec, SourceStates
  <2>2. run' \in RunRec
    BY <1>2, NoRunType DEF Recover
  <2>3. sw' \in SwRec
    BY <1>2, <1>b, IdleType DEF Recover
  <2>. QED BY <1>1, <1>2, <2>1, <2>2, <2>3 DEF Recover
<1>3. CASE RecoverFail
  BY <1>1, <1>3, <1>b, IdleType, SourceWaitsType DEF RecoverFail
<1>4. CASE ReadValidation
  <2>1. [sw EXCEPT !.pc = "claimValidation", !.config = source.config]
          \in SwRec
    BY <1>b, <1>c DEF SwRec
  <2>. QED BY <1>1, <1>4, <1>b, <2>1, IdleType DEF ReadValidation, storeVars
<1>5. CASE ClaimValidation
  <2>1. source' \in SourceRec
    BY <1>5 DEF ClaimValidation, SourceRec, SourceStates
  <2>. QED BY <1>1, <1>5, <1>a, <1>b, <2>1 DEF ClaimValidation, Goto
<1>6. ASSUME NEW valid \in BOOLEAN, Probe(valid)
      PROVE  TypeOK'
  BY <1>6, <1>b, <1>g DEF Probe, Goto
<1>7. CASE CommitValid
  <2>1. source' \in SourceRec
    BY <1>7 DEF CommitValid, SourceRec, SourceStates, Dues
  <2>. QED BY <1>1, <1>7, <1>b, <2>1, IdleType DEF CommitValid
<1>8. CASE CommitInvalid
  <2>1. source' \in SourceRec
    BY <1>8 DEF CommitInvalid, SourceRec, SourceStates, Dues
  <2>. QED BY <1>1, <1>8, <1>b, <2>1, IdleType DEF CommitInvalid
<1>9. CASE ClaimDueSource
  <2>1. source' \in SourceRec
    BY <1>9 DEF ClaimDueSource, SourceRec, Dues
  <2>2. sw' \in SwRec
    BY <1>9, <1>b, <1>c DEF ClaimDueSource, SwRec
  <2>. QED BY <1>1, <1>9, <2>1, <2>2 DEF ClaimDueSource
<1>10. CASE NothingDue
  BY <1>10, <1>b, <1>g DEF NothingDue
<1>11. CASE ReadCollection
  <2>1. \A b, c \in BOOLEAN :
          [sw EXCEPT !.pc = "upsert", !.seen = TRUE, !.selected = b,
                     !.excluded = c] \in SwRec
    BY <1>b DEF SwRec
  <2>2. (sw.all \/ collection.selected) \in BOOLEAN
        /\ (Whole \in rules) \in BOOLEAN
    OBVIOUS
  <2>3. sw' \in SwRec
    BY <1>11, <2>1, <2>2 DEF ReadCollection
  <2>. QED BY <1>1, <1>11, <2>3 DEF ReadCollection, storeVars
<1>12. CASE ListNothing
  BY <1>12, <1>b, <1>g DEF ListNothing, Goto
<1>13. CASE DiscoveryRaises
  BY <1>13, <1>b, <1>g DEF DiscoveryRaises, Goto
<1>14. CASE UpsertCollection
  <2>1. collection' \in CollectionRec
    BY <1>14, <1>d DEF UpsertCollection, CollectionRec, CollectionLives
  <2>2. project' \in ProjectRec
    BY <1>14 DEF UpsertCollection, ProjectRec, CollectionLives
  <2>. QED BY <1>1, <1>14, <1>a, <1>b, <2>1, <2>2 DEF UpsertCollection, Goto
<1>15. CASE FenceDiscovery
  BY <1>1, <1>15, <1>a, <1>b, IdleType DEF FenceDiscovery, Goto
<1>16. CASE CommitDiscovery
  <2>1. [collection EXCEPT !.life = "missing"] \in CollectionRec
    BY DEF CollectionRec, CollectionLives
  <2>2. collection' \in CollectionRec /\ run' \in RunRec
    BY <1>16, <1>d, <2>1, QueueRunType DEF CommitDiscovery
  <2>3. project' \in ProjectRec
    BY <1>16 DEF CommitDiscovery, ProjectRec, CollectionLives
  <2>4. source' \in SourceRec
    BY <1>16 DEF CommitDiscovery, SourceRec, Dues
  <2>. QED
    BY <1>1, <1>16, <1>b, <2>2, <2>3, <2>4, IdleType DEF CommitDiscovery
<1>17. CASE FailDiscovery
  BY <1>1, <1>17, <1>b, IdleType, SourceWaitsType DEF FailDiscovery
<1>18. CASE ReadQueuedRun
  <2>1. \A pc \in Pcs : [sw EXCEPT !.pc = pc, !.config = run.config,
                                   !.filter = run.filter] \in SwRec
    BY <1>e DEF SwRec
  <2>. QED BY <1>1, <1>18, <1>b, <2>1, IdleType DEF ReadQueuedRun, storeVars
<1>19. CASE DropStaleRun
  <2>1. SupersededRun \in RunRec
    BY SupersededRunType
  <2>2. run' \in RunRec
    BY <1>19, <2>1 DEF DropStaleRun, RunRec
  <2>3. sw' \in SwRec
    <3>1. [sw EXCEPT !.pc = "plan", !.config = SupersededRun.config,
                     !.filter = SupersededRun.filter] \in SwRec
      BY <1>b, <2>1 DEF SwRec, RunRec
    <3>. QED BY <1>19, <1>b, <3>1, IdleType DEF DropStaleRun
  <2>. QED BY <1>1, <1>19, <2>2, <2>3 DEF DropStaleRun
<1>20. CASE ClaimRun
  <2>1. run' \in RunRec
    BY <1>20 DEF ClaimRun, RunRec
  <2>. QED BY <1>1, <1>20, <1>a, <1>b, <2>1, IdleType DEF ClaimRun, Goto
<1>21. CASE LoadPlan
  <2>1. Current => [sw EXCEPT !.pc = "scan", !.plan = rules] \in SwRec
    BY <1>b DEF SwRec, Current, RunCurrent, Syncable
  <2>2. [sw EXCEPT !.pc = "supersede"] \in SwRec
    BY <1>a, <1>b
  <2>. QED BY <1>1, <1>21, <2>1, <2>2 DEF LoadPlan, storeVars
<1>22. CASE Scan
  <2>1. sw' \in SwRec
    BY <1>22, <1>b DEF Scan, SwRec
  <2>. QED BY <1>1, <1>22, <2>1 DEF Scan, storeVars
<1>23. ASSUME NEW denied \in BOOLEAN, ScanRaises(denied)
       PROVE  TypeOK'
  <2>1. sw' \in SwRec
    BY <1>23, <1>b DEF ScanRaises, SwRec
  <2>. QED BY <1>1, <1>23, <2>1 DEF ScanRaises, storeVars
<1>24. CASE FenceScan
  BY <1>24, <1>b, <1>g DEF FenceScan, Goto
<1>25. CASE FenceBatch
  BY <1>25, <1>b, <1>g DEF FenceBatch, Goto
<1>26. CASE CommitBatch
  <2>1. PICK batch \in SUBSET sw.todo :
          LET wanted == {d \in batch : WantsJob(d)}
              excluded ==
                {d \in batch : Lifecycle(d, sw.obs[d]) = "excluded"} IN
          /\ doc' = [d \in Docs |->
                       IF d \in batch THEN ReconciledDoc(d) ELSE doc[d]]
          /\ idx' = [d \in Docs |->
                       IF d \in batch /\ RetiresIndex(d)
                       THEN [idx[d] EXCEPT !.current = FALSE] ELSE idx[d]]
          /\ \E slot \in [wanted -> Jobs] :
               job' = [j \in Jobs |->
                         IF DocOf[j] \in wanted /\ slot[DocOf[j]] = j
                         THEN NewJob(sw.obs[DocOf[j]], sw.config)
                         ELSE DropQueued(job, excluded)[j]]
          /\ sw' = [sw EXCEPT !.pc = "reconcile", !.todo = @ \ batch]
    BY ZenonT(30), <1>26 DEF CommitBatch
  <2>2. doc' \in [Docs -> DocRec]
    BY <2>1, ReconciledDocType
  <2>3. idx' \in [Docs -> IdxRec]
    <3>1. \A d \in Docs : [idx[d] EXCEPT !.current = FALSE] \in IdxRec
      BY DEF IdxRec
    <3>. QED BY <2>1, <3>1
  <2>4. job' \in [Jobs -> JobRec]
    <3>1. \A j \in Jobs : NewJob(sw.obs[DocOf[j]], sw.config) \in JobRec
      BY <1>d, NewJobType, DocOfAssumption DEF SwRec
    <3>2. \A D : DropQueued(job, D) \in [Jobs -> JobRec]
      BY DropQueuedType
    <3>. QED BY <2>1, <3>1, <3>2
  <2>5. sw' \in SwRec
    BY <1>b, <2>1 DEF SwRec
  <2>. QED BY <1>1, <1>26, <2>2, <2>3, <2>4, <2>5 DEF CommitBatch
<1>27. CASE FenceComplete
  BY <1>27, <1>b, <1>g DEF FenceComplete, Goto
<1>28. CASE CommitComplete
  <2>1. [collection EXCEPT !.life = "active"] \in CollectionRec
    BY DEF CollectionRec, CollectionLives
  <2>2. collection' \in CollectionRec /\ run' \in RunRec
    BY <1>28, <1>d, <2>1, QueueRunType, NoRunType DEF CommitComplete
  <2>3. doc' \in [Docs -> DocRec]
    <3>1. \A d \in Docs :
            [doc[d] EXCEPT !.life = "missing", !.eligible = FALSE,
                           !.status = "deleted", !.gone = TRUE] \in DocRec
      <4>1. "missing" \in DocLives /\ "deleted" \in DocStatuses
        BY DEF DocLives, DocStatuses
      <4>. QED BY ZenonT(30), <4>1 DEF DocRec
    <3>. QED BY <1>28, <3>1 DEF CommitComplete
  <2>4. project' \in ProjectRec /\ source' \in SourceRec
    BY <1>28 DEF CommitComplete, ProjectRec, CollectionLives, SourceRec
  <2>. QED
    BY <1>1, <1>28, <1>b, <2>2, <2>3, <2>4, IdleType DEF CommitComplete
<1>29. CASE Supersede
  BY <1>1, <1>29, <1>b, IdleType, SupersededRunType DEF Supersede
<1>30. CASE CommitRaises
  BY <1>30, <1>b, <1>g DEF CommitRaises, Goto
<1>31. CASE JudgeFailure
  BY <1>31, <1>b, <1>g DEF JudgeFailure, Goto
<1>32. CASE FailRun
  <2>1. collection' \in CollectionRec
    BY <1>32 DEF FailRun, CollectionRec, CollectionLives
  <2>2. project' \in ProjectRec
    <3>1. [life |-> "access_revoked", eligible |-> FALSE] \in ProjectRec
      BY DEF ProjectRec, CollectionLives
    <3>. QED BY <1>32, <3>1 DEF FailRun
  <2>3. doc' \in [Docs -> DocRec]
    <3>1. \A d \in Docs : [doc[d] EXCEPT !.eligible = FALSE] \in DocRec
      BY ZenonT(30) DEF DocRec
    <3>. QED BY <1>32, <3>1 DEF FailRun
  <2>4. job' \in [Jobs -> JobRec]
    BY <1>32, DropQueuedType DEF FailRun
  <2>. QED
    BY <1>1, <1>32, <1>b, <2>1, <2>2, <2>3, <2>4, IdleType, NoRunType,
       SourceWaitsType
       DEF FailRun
<1>33. CASE HandlerFails
  BY <1>33, <1>b, <1>g DEF HandlerFails
<1>34. CASE StartDiscovery
  BY <1>1, <1>34, <1>a, <1>b DEF StartDiscovery, Goto
<1>. QED
  BY <1>2, <1>3, <1>4, <1>5, <1>6, <1>7, <1>8, <1>9, <1>10, <1>11, <1>12,
     <1>13, <1>14, <1>15, <1>16, <1>17, <1>18, <1>19, <1>20, <1>21, <1>22,
     <1>23, <1>24, <1>25, <1>26, <1>27, <1>28, <1>29, <1>30, <1>31, <1>32,
     <1>33, <1>34
     DEF SyncStep, SyncNext

-----------------------------------------------------------------------------
\* Every step and mishap of the index worker keeps the types.
LEMMA IndexTypes ==
  ASSUME TypeOK, IndexStep \/ (IndexMishap /\ UNCHANGED <<reindexing, sw>>)
  PROVE  TypeOK'
<1> USE TypeOK DEF TypeOK, StoreTypeOK, SwTypeOK, IndexTypeOK
<1>1. UNCHANGED sw /\ AdminTypeOK'
  BY DEF IndexStep, AdminTypeOK
<1>a. {"start", "mark", "fetch", "build", "fence", "publish", "skip",
       "claimed", "exited", "failing", "none"} \subseteq ChildPcs
  BY DEF ChildPcs
<1>b. {"uploaded", "indexing", "ready", "failed", "skipped"}
        \subseteq DocStatuses
  BY DEF DocStatuses
<1>c. {"queued", "running", "terminal"} \subseteq JobStatuses
  BY DEF JobStatuses
<1>d. {"none", "transient", "abrupt", "denied", "permanent"}
        = {"none"} \cup Errors
  BY DEF Errors
<1>e. \A j \in Jobs : DocOf[j] \in Docs /\ job[j].rev \in Revs \cup {NoRev}
  BY DocOfAssumption DEF JobRec
<1>2. ASSUME NEW j \in Jobs, Claim(j)
      PROVE  TypeOK'
  <2>1. [job[j] EXCEPT !.status = "running", !.attempts = @ + 1] \in JobRec
    <3>1. job[j].attempts + 1 \in Nat
      BY DEF JobRec
    <3>2. \A r \in JobRec, n \in Nat :
            [r EXCEPT !.status = "running", !.attempts = n] \in JobRec
      BY <1>c DEF JobRec
    <3>. QED BY <3>1, <3>2
  <2>2. job' = [job EXCEPT ![j] = [job[j] EXCEPT !.status = "running",
                                                 !.attempts = @ + 1]]
    BY <1>2 DEF Claim
  <2>. QED BY <1>1, <1>2, <1>a, <2>1, <2>2, ChildTypes DEF Claim
<1>3. ASSUME NEW j \in Jobs, StartChild(j)
      PROVE  TypeOK'
  BY <1>1, <1>3, <1>a, <1>b, <1>e, ChildTypes, DocStatusType DEF StartChild
<1>4. ASSUME NEW j \in Jobs, CheckJob(j)
      PROVE  TypeOK'
  BY <1>1, <1>4, <1>a, ChildTypes DEF CheckJob, storeVars
<1>5. ASSUME NEW j \in Jobs, MarkSuperseded(j)
      PROVE  TypeOK'
  <2>1. doc' \in [Docs -> DocRec]
    BY <1>5, <1>b, <1>e, DocStatusType DEF MarkSuperseded
  <2>2. job' \in [Jobs -> JobRec] /\ child' \in [Jobs -> ChildRec]
    BY <1>5, <1>c, ChildTypes, JobStatusType DEF MarkSuperseded, EndJob
  <2>. QED BY <1>1, <1>5, <2>1, <2>2 DEF MarkSuperseded
<1>6. ASSUME NEW j \in Jobs, Fetch(j)
      PROVE  TypeOK'
  <2>1. scratch' \in [Docs -> Revs \cup {NoRev}]
    BY <1>6, <1>e DEF Fetch
  <2>. QED BY <1>1, <1>6, <1>a, <2>1, ChildTypes DEF Fetch, storeVars
<1>7. ASSUME NEW j \in Jobs, Build(j)
      PROVE  TypeOK'
  <2>1. scratch' \in [Docs -> Revs \cup {NoRev}]
    BY <1>7 DEF Build
  <2>2. child' \in [Jobs -> ChildRec]
    <3>1. [child[j] EXCEPT !.pc = "fence", !.content = scratch[DocOf[j]]]
            \in ChildRec
      BY <1>a, <1>e DEF ChildRec
    <3>2. CASE GoChild(j, "skip")
      BY <1>a, <3>2, ChildTypes
    <3>3. CASE child' = [child EXCEPT ![j].pc = "fence",
                                      ![j].content = scratch[DocOf[j]]]
      <4>1. child' = [child EXCEPT ![j] =
              [child[j] EXCEPT !.pc = "fence",
                               !.content = scratch[DocOf[j]]]]
        BY <3>3
      <4>. QED BY <3>1, <4>1
    <3>. QED BY <1>7, <3>2, <3>3 DEF Build
  <2>. QED BY <1>1, <1>7, <2>1, <2>2 DEF Build, storeVars
<1>8. ASSUME NEW j \in Jobs, NEW error \in Errors, FetchRaises(j, error)
      PROVE  TypeOK'
  BY <1>1, <1>8, ChildTypes DEF FetchRaises, storeVars
<1>9. ASSUME NEW j \in Jobs, NEW error \in Errors, BuildRaises(j, error)
      PROVE  TypeOK'
  BY <1>1, <1>9, ChildTypes DEF BuildRaises, storeVars
<1>10. ASSUME NEW j \in Jobs, Fence(j)
       PROVE  TypeOK'
  <2>1. child' \in [Jobs -> ChildRec]
    BY <1>10, <1>a, ChildTypes DEF Fence
  <2>2. job' \in [Jobs -> JobRec]
    BY <1>10, <1>c, JobStatusType DEF Fence, EndJob
  <2>. QED BY <1>1, <1>10, <2>1, <2>2 DEF Fence
<1>11. ASSUME NEW j \in Jobs, Publish(j)
       PROVE  TypeOK'
  <2>1. idx' \in [Docs -> IdxRec]
    BY <1>11, <1>e DEF Publish, IdxRec, ChildRec
  <2>2. doc' \in [Docs -> DocRec]
    <3>1. \A r \in DocRec :
            [r EXCEPT !.status = "ready", !.eligible = TRUE] \in DocRec
      BY <1>b DEF DocRec
    <3>2. doc' = [doc EXCEPT ![DocOf[j]] =
                    [doc[DocOf[j]] EXCEPT !.status = "ready",
                                          !.eligible = TRUE]]
      BY <1>11 DEF Publish
    <3>. QED BY <1>e, <3>1, <3>2
  <2>3. job' \in [Jobs -> JobRec] /\ child' \in [Jobs -> ChildRec]
    BY <1>11, <1>c, ChildTypes, JobStatusType DEF Publish, EndJob
  <2>. QED BY <1>1, <1>11, <2>1, <2>2, <2>3 DEF Publish
<1>12. ASSUME NEW j \in Jobs, PersistSkipped(j)
       PROVE  TypeOK'
  <2>1. doc' \in [Docs -> DocRec]
    BY <1>12, <1>b, <1>e, DocStatusType DEF PersistSkipped
  <2>2. job' \in [Jobs -> JobRec] /\ child' \in [Jobs -> ChildRec]
    BY <1>12, <1>c, ChildTypes, JobStatusType DEF PersistSkipped, EndJob
  <2>. QED BY <1>1, <1>12, <2>1, <2>2 DEF PersistSkipped
<1>13. ASSUME NEW j \in Jobs, Collect(j)
       PROVE  TypeOK'
  BY <1>1, <1>13, JudgeTypes DEF Collect
<1>14. ASSUME NEW j \in Jobs, FailSuperseded(j)
       PROVE  TypeOK'
  BY <1>1, <1>14, ChildTypes, NoJobType DEF FailSuperseded, Pass
<1>15. ASSUME NEW j \in Jobs, FailDenied(j)
       PROVE  TypeOK'
  <2>1. doc' \in [Docs -> DocRec]
    <3>1. \A r \in DocRec :
            [r EXCEPT !.status = "failed", !.life = "access_revoked",
                      !.eligible = FALSE] \in DocRec
      <4>1. "access_revoked" \in DocLives
        BY DEF DocLives
      <4>. QED BY <1>b, <4>1 DEF DocRec
    <3>2. doc' = [doc EXCEPT ![DocOf[j]] =
                    [doc[DocOf[j]] EXCEPT !.status = "failed",
                                          !.life = "access_revoked",
                                          !.eligible = FALSE]]
      BY <1>15 DEF FailDenied
    <3>. QED BY <1>e, <3>1, <3>2
  <2>2. idx' \in [Docs -> IdxRec]
    <3>1. \A d \in Docs : [idx[d] EXCEPT !.current = FALSE] \in IdxRec
      BY DEF IdxRec
    <3>2. idx' = [idx EXCEPT ![DocOf[j]] =
                    [idx[DocOf[j]] EXCEPT !.current = FALSE]]
      BY <1>15 DEF FailDenied
    <3>. QED BY <1>e, <3>1, <3>2
  <2>3. source' \in SourceRec
    BY <1>15 DEF FailDenied, SourceRec
  <2>. QED
    BY <1>1, <1>15, <2>1, <2>2, <2>3, ChildTypes, NoJobType
       DEF FailDenied, Pass
<1>16. ASSUME NEW j \in Jobs, FailRetry(j)
       PROVE  TypeOK'
  BY <1>1, <1>16, <1>b, <1>c, <1>e, ChildTypes, DocStatusType, JobStatusType
     DEF FailRetry, Pass
<1>17. ASSUME NEW j \in Jobs, FailForGood(j)
       PROVE  TypeOK'
  BY <1>1, <1>17, <1>b, <1>e, ChildTypes, DocStatusType, NoJobType
     DEF FailForGood, Pass
<1>18. ASSUME NEW j \in Jobs, Terminate(j)
       PROVE  /\ scratch' \in [Docs -> Revs \cup {NoRev}]
              /\ child' \in [Jobs -> ChildRec] /\ job' \in [Jobs -> JobRec]
  BY <1>18, JudgeTypes DEF Terminate
<1>19. ASSUME NEW j \in Jobs, StopChild(j) \/ Timeout(j)
       PROVE  TypeOK'
  BY <1>1, <1>18, <1>19 DEF StopChild, Timeout, Terminate
<1>20. ASSUME NEW j \in Jobs, StopExited(j)
       PROVE  TypeOK'
  BY <1>1, <1>20, JudgeTypes DEF StopExited
<1>21. ASSUME NEW j \in Jobs, RecoverJob(j)
       PROVE  TypeOK'
  BY <1>1, <1>21, JudgeTypes DEF RecoverJob
<1>22. CASE Stopped \/ Restart \/ Recovered \/ Stop
  BY <1>1, <1>22 DEF Stopped, Restart, Recovered, Stop, storeVars
<1>23. ASSUME NEW j \in Jobs, ChildDies(j)
       PROVE  TypeOK'
  BY <1>1, <1>23, <1>d, ChildTypes DEF ChildDies, storeVars
<1>24. CASE IndexCrash
  <2>1. NoChild \in ChildRec
    BY DEF NoChild, ChildRec, ChildPcs
  <2>. QED BY <1>1, <1>24, <2>1, NoJobType DEF IndexCrash
<1>. QED
  BY <1>2, <1>3, <1>4, <1>5, <1>6, <1>7, <1>8, <1>9, <1>10, <1>11, <1>12,
     <1>13, <1>14, <1>15, <1>16, <1>17, <1>19, <1>20, <1>21, <1>22, <1>23,
     <1>24
     DEF IndexStep, IndexNext, ChildNext, ParentNext, FailJob, IndexMishap

\* Crashes and changes at the source keep the types.
LEMMA DisturbanceTypes ==
  ASSUME TypeOK, Disturbance
  PROVE  TypeOK'
<1>1. AdminTypeOK'
  BY DEF Disturbance, TypeOK, AdminTypeOK
<1>2. ASSUME NEW d \in Docs, SourceChange(d), UNCHANGED <<sw, indexVars>>
      PROVE  TypeOK'
  BY <1>1, <1>2
     DEF SourceChange, TypeOK, StoreTypeOK, SwTypeOK, IndexTypeOK, indexVars
<1>3. CASE SyncCrash /\ UNCHANGED indexVars
  <2>1. Idle("recover") \in SwRec
    BY IdleType DEF Pcs
  <2>. QED
    BY <1>1, <1>3, <2>1
       DEF SyncCrash, TypeOK, StoreTypeOK, SwTypeOK, IndexTypeOK, indexVars,
           storeVars
<1>. QED BY <1>2, <1>3, IndexTypes DEF Disturbance

-----------------------------------------------------------------------------

\* The types hold initially.
LEMMA InitTypes ==
  ASSUME Init
  PROVE  TypeOK
<1> USE DEF Init
<1>1. 1 \in Configs /\ 0 \in Filters
  BY BoundsAssumption DEF Configs, Filters
<1>2. source \in SourceRec
  BY <1>1 DEF StoreInit, SourceRec, SourceStates, Dues
<1>3. collection \in CollectionRec /\ project \in ProjectRec
  BY <1>1 DEF StoreInit, CollectionRec, ProjectRec, CollectionLives
<1>4. NoDoc \in DocRec /\ NoIdx \in IdxRec
  BY DEF NoDoc, DocRec, DocStatuses, DocLives, NoIdx, IdxRec
<1>5. SwTypeOK
  <2>1. "validate" \in Pcs
    BY DEF Pcs
  <2>. QED BY <2>1, IdleType DEF SwInit, SwTypeOK
<1>6. IndexTypeOK
  <2>1. NoChild \in ChildRec
    BY DEF NoChild, ChildRec, ChildPcs
  <2>. QED BY <2>1 DEF IndexInit, IndexTypeOK
<1>7. StoreTypeOK
  BY <1>2, <1>3, <1>4, NoJobType, NoRunType DEF StoreInit, StoreTypeOK
<1>8. AdminTypeOK
  BY DEF AdminInit, AdminTypeOK
<1>. QED BY <1>5, <1>6, <1>7, <1>8 DEF TypeOK

\* Every step keeps the types.
LEMMA StepTypes ==
  ASSUME TypeOK, [Next]_vars
  PROVE  TypeOK'
<1>1. CASE Next
  BY <1>1, AdminTypes, ReindexTypes, SyncTypes, IndexTypes, DisturbanceTypes
     DEF Next
<1>2. CASE UNCHANGED vars
  BY <1>2 DEF vars, TypeOK, StoreTypeOK, AdminTypeOK, SwTypeOK, IndexTypeOK
<1>. QED BY <1>1, <1>2

(***************************************************************************)
(* Every variable keeps to the columns and control states of its table or  *)
(* process: no operation of the web process, the source worker or the      *)
(* index worker writes a status that the schema does not have, a revision  *)
(* counter beyond its bound or a row that is not one.                      *)
(***************************************************************************)
THEOREM TypeCorrect == Spec => []TypeOK
  BY InitTypes, StepTypes, PTL DEF Spec
=============================================================================
