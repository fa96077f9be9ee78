----------------------------- MODULE SyncWorker ------------------------------
(***************************************************************************)
(* The source worker: one single-threaded loop of validation, discovery    *)
(* and synchronization (engine.py), with startup recovery.                 *)
(*                                                                         *)
(* A Python transaction opens at its first write: what a block reads before *)
(* is read on its own, and other processes may commit before the block     *)
(* writes.  So a block that checks and then writes is two actions, and     *)
(* sw holds what the first one read.  Connector calls are outside          *)
(* transactions; they are actions of their own.                            *)
(***************************************************************************)
EXTENDS CorpusStore

CONSTANTS
  BatchSize,   \* RECONCILE_BATCH_SIZE
  Faults       \* what may go wrong in a configuration

ASSUME BatchSizeAssumption == BatchSize \in Nat \ {0}
ASSUME FaultsAssumption ==
  Faults \subseteq {"scan", "denied", "invalid", "unlisted", "busy", "crash"}

VARIABLE sw

Pcs == {"recover", "recoverFail", "validate", "claimValidation", "probe",
        "commitValid", "commitInvalid", "due", "startDiscovery",
        "discover", "upsert", "fenceDiscovery", "commitDiscovery",
        "failDiscovery", "sync", "dropStale", "claimRun", "plan", "scan",
        "fenceScan", "reconcile", "commitBatch", "complete",
        "commitComplete", "supersede", "scanFailed", "failRun"}

\* config, filter: revisions of the claimed source row or sync run;
\* all: the policy of the claimed source row; seen, selected, excluded:
\* what discovery and its upsert read; plan: the exclusion plan; obs: the
\* staged observations; todo: those not reconciled yet; denied: the scan
\* failed because access to the collection was denied.
SwRec == [pc : Pcs, config : Configs, filter : Filters, all : BOOLEAN,
          seen : BOOLEAN, selected : BOOLEAN, excluded : BOOLEAN,
          plan : SUBSET Docs, obs : [Docs -> Revs \cup {NoRev}],
          todo : SUBSET Docs, denied : BOOLEAN]

NoObs == [d \in Docs |-> NoRev]

\* Between operations the worker remembers nothing.
Idle(pc) == [pc |-> pc, config |-> 1, filter |-> 0, all |-> FALSE,
             seen |-> FALSE, selected |-> FALSE, excluded |-> FALSE,
             plan |-> {}, obs |-> NoObs, todo |-> {}, denied |-> FALSE]

SwInit == sw = Idle("validate")
SwTypeOK == sw \in SwRec

Goto(pc) == sw' = [sw EXCEPT !.pc = pc]
At(pc) == sw.pc = pc

\* After a failed source operation: back off if scheduled, else wait.
Backoff == IF Scheduled THEN "later" ELSE "null"

\* next_sync_at has been reached; NULL counts only when scheduled, and a
\* future time may have come when the worker looks, or not.
MustBeDue == source.due = "now" \/ (Scheduled /\ source.due = "null")
MayBeDue == MustBeDue \/ source.due = "later"

\* _fail_source_operation: health is degraded and the source waits.
Degrade(s) == [s EXCEPT !.unknown = FALSE, !.due = Backoff]

(***************************************************************************)
(* _queue_sync_run_in_connection, for the run row r and collection row c   *)
(* as the transaction has left them.                                       *)
(***************************************************************************)
QueueRun(r, c, config) ==
  IF r.status = "none" /\ Syncable(c) /\ source.config = config
  THEN NewRun(config, c.filter) ELSE r

\* _supersede_sync_run_in_connection for the run captured in sw: it ends,
\* and is queued again if only the filter revision moved.
SupersededRun ==
  IF /\ source.config = sw.config /\ collection.filter # sw.filter
     /\ Syncable(collection)
  THEN NewRun(source.config, collection.filter) ELSE NoRun

-----------------------------------------------------------------------------
(* recover_abandoned_work                                                  *)

\* Mutation: only the discovery runs of the lost process are cleaned up.
RecoverDiscovery ==
  /\ At("recover")
  /\ sw' = Idle(IF discovery THEN "recoverFail" ELSE "validate")
  /\ discovery' = FALSE
  /\ UNCHANGED <<remote, source, collection, project, rules, doc, idx, job,
                 run>>

\* Running runs fail, interrupted validations are requested again.
Recover ==
  /\ At("recover")
  /\ LET affected == run.status = "running" \/ discovery IN
       sw' = Idle(IF affected THEN "recoverFail" ELSE "validate")
  /\ run' = IF run.status = "running" THEN NoRun ELSE run
  /\ discovery' = FALSE
  /\ source' =
       IF source.state = "validating"
       THEN [source EXCEPT !.state = "draft", !.requested = TRUE]
       ELSE [source EXCEPT !.requested =
               @ \/ (source.state = "active" /\ source.unknown)]
  /\ UNCHANGED <<remote, collection, project, rules, doc, idx, job>>

RecoverFail ==
  /\ At("recoverFail")
  /\ source' = Degrade(source)
  /\ sw' = Idle("validate")
  /\ UNCHANGED <<remote, discovery, collection, project, rules, doc, idx,
                 job, run>>

-----------------------------------------------------------------------------
(* _claim_validation, _validate_source, _fail_validation                   *)

ReadValidation ==
  /\ At("validate")
  /\ sw' = IF /\ source.requested
              /\ source.state \notin {"disabled", "pending_purge"}
           THEN [sw EXCEPT !.pc = "claimValidation",
                           !.config = source.config]
           ELSE Idle("due")
  /\ UNCHANGED storeVars

\* The claim does not test the state again.
ClaimValidation ==
  /\ At("claimValidation")
  /\ source' = [source EXCEPT
                  !.state = IF @ = "active" THEN @ ELSE "validating",
                  !.requested = FALSE]
  /\ Goto("probe")
  /\ UNCHANGED <<remote, discovery, collection, project, rules, doc, idx,
                 job, run>>

\* The connector answers, and the configuration revision is compared.
Probe(valid) ==
  /\ At("probe")
  /\ valid \/ "invalid" \in Faults
  /\ IF source.config = sw.config
     THEN Goto(IF valid THEN "commitValid" ELSE "commitInvalid")
     ELSE sw' = Idle("due")
  /\ UNCHANGED storeVars

CommitValid ==
  /\ At("commitValid")
  /\ source' = [source EXCEPT !.state = "active", !.unknown = FALSE,
                              !.due = IF Scheduled THEN "now" ELSE @]
  /\ sw' = Idle("due")
  /\ UNCHANGED <<remote, discovery, collection, project, rules, doc, idx,
                 job, run>>

\* ever_validated_at is set in every state reachable from StoreInit.
CommitInvalid ==
  /\ At("commitInvalid")
  /\ source' = [source EXCEPT !.state = "needs_attention",
                              !.unknown = FALSE, !.due = "null"]
  /\ sw' = Idle("due")
  /\ UNCHANGED <<remote, discovery, collection, project, rules, doc, idx,
                 job, run>>

-----------------------------------------------------------------------------
(* _claim_due_source, _discover_source, _upsert_discovered_collection      *)

ClaimDueSource ==
  /\ At("due")
  /\ source.state = "active" /\ MayBeDue
  /\ source' = [source EXCEPT !.due = "later"]
  /\ sw' = [sw EXCEPT !.pc = "startDiscovery", !.config = source.config,
                      !.all = source.all]
  /\ UNCHANGED <<remote, discovery, collection, project, rules, doc, idx,
                 job, run>>

\* A running discovery row, in a transaction of its own.
StartDiscovery ==
  /\ At("startDiscovery")
  /\ discovery' = TRUE
  /\ Goto("discover")
  /\ UNCHANGED <<remote, source, collection, project, rules, doc, idx, job,
                 run>>

NothingDue ==
  /\ At("due")
  /\ ~(source.state = "active" /\ MustBeDue)
  /\ sw' = Idle("sync")
  /\ UNCHANGED storeVars

\* The connector lists the collection: its row is read before it is written.
ReadCollection ==
  /\ At("discover")
  /\ sw' = [sw EXCEPT !.pc = "upsert", !.seen = TRUE,
                      !.selected = sw.all \/ collection.selected,
                      !.excluded = Whole \in rules]
  /\ UNCHANGED storeVars

\* The connector lists nothing.
ListNothing ==
  /\ At("discover") /\ "unlisted" \in Faults
  /\ Goto("fenceDiscovery")
  /\ UNCHANGED storeVars

DiscoveryRaises ==
  /\ sw.pc \in {"discover", "fenceDiscovery"} /\ "scan" \in Faults
  /\ Goto("failDiscovery")
  /\ UNCHANGED storeVars

UpsertCollection ==
  /\ At("upsert")
  /\ collection' = [collection EXCEPT
                      !.selected = sw.selected,
                      !.life = IF sw.excluded THEN "excluded"
                               ELSE IF sw.selected THEN "pending"
                               ELSE "inactive"]
  /\ project' = IF sw.excluded
                THEN [life |-> "excluded", eligible |-> FALSE]
                ELSE IF sw.selected
                THEN [life |-> "pending", eligible |-> FALSE]
                ELSE project
  /\ Goto("fenceDiscovery")
  /\ UNCHANGED <<remote, source, discovery, rules, doc, idx, job, run>>

FenceDiscovery ==
  /\ At("fenceDiscovery")
  /\ IF source.config = sw.config /\ source.state = "active"
     THEN Goto("commitDiscovery") /\ UNCHANGED discovery
     ELSE sw' = Idle("sync") /\ discovery' = FALSE
  /\ UNCHANGED <<remote, source, collection, project, rules, doc, idx, job,
                 run>>

\* Mutation: a manual source stays due.
CommitDiscoveryStillDue ==
  /\ At("commitDiscovery")
  /\ LET c == IF sw.seen THEN collection
              ELSE [collection EXCEPT !.life = "missing"] IN
       /\ collection' = c
       /\ run' = IF c.life = "excluded" THEN run
                 ELSE QueueRun(run, c, sw.config)
  /\ project' = IF sw.seen THEN project
                ELSE [life |-> "inactive", eligible |-> FALSE]
  /\ discovery' = FALSE
  /\ sw' = Idle("sync")
  /\ UNCHANGED <<remote, source, rules, doc, idx, job>>

\* An unlisted collection goes missing; a selected, present and included one
\* gets a run under the revision discovery started with.
CommitDiscovery ==
  /\ At("commitDiscovery")
  /\ LET c == IF sw.seen THEN collection
              ELSE [collection EXCEPT !.life = "missing"] IN
       /\ collection' = c
       /\ run' = IF c.life = "excluded" THEN run
                 ELSE QueueRun(run, c, sw.config)
  /\ project' = IF sw.seen THEN project
                ELSE [life |-> "inactive", eligible |-> FALSE]
  /\ source' = IF Scheduled THEN source ELSE [source EXCEPT !.due = "null"]
  /\ discovery' = FALSE
  /\ sw' = Idle("sync")
  /\ UNCHANGED <<remote, rules, doc, idx, job>>

\* The discovery run row is not touched: it stays 'running' until a restart.
FailDiscovery ==
  /\ At("failDiscovery")
  /\ source' = Degrade(source)
  /\ sw' = Idle("sync")
  /\ UNCHANGED <<remote, discovery, collection, project, rules, doc, idx,
                 job, run>>

-----------------------------------------------------------------------------
(* _claim_sync_run                                                         *)

ReadQueuedRun ==
  /\ At("sync")
  /\ sw' = IF run.status = "queued"
           THEN [sw EXCEPT
                   !.pc = IF RunCurrent(run.config, run.filter)
                          THEN "claimRun" ELSE "dropStale",
                   !.config = run.config, !.filter = run.filter]
           ELSE Idle("validate")
  /\ UNCHANGED storeVars

\* A stale run is superseded; the run queued in its place is claimed in the
\* same transaction.
DropStaleRun ==
  /\ At("dropStale")
  /\ LET r == SupersededRun IN
       IF r.status = "queued"
       THEN /\ run' = [r EXCEPT !.status = "running"]
            /\ sw' = [sw EXCEPT !.pc = "plan", !.config = r.config,
                                !.filter = r.filter]
       ELSE run' = r /\ sw' = Idle("validate")
  /\ UNCHANGED <<remote, source, discovery, collection, project, rules, doc,
                 idx, job>>

\* Compare-and-swap on the status alone.
ClaimRun ==
  /\ At("claimRun")
  /\ IF run.status = "queued"
     THEN run' = [run EXCEPT !.status = "running"] /\ Goto("plan")
     ELSE run' = run /\ sw' = Idle("validate")
  /\ UNCHANGED <<remote, source, discovery, collection, project, rules, doc,
                 idx, job>>

-----------------------------------------------------------------------------
(* _scan_and_reconcile                                                     *)

Current == RunCurrent(sw.config, sw.filter)

LoadPlan ==
  /\ At("plan")
  /\ sw' = IF Current THEN [sw EXCEPT !.pc = "scan", !.plan = rules]
           ELSE [sw EXCEPT !.pc = "supersede"]
  /\ UNCHANGED storeVars

\* The connector walks the collection; the observations are staged.
Scan ==
  /\ At("scan")
  /\ sw' = [sw EXCEPT !.pc = "fenceScan", !.obs = remote,
                      !.todo = {d \in Docs : remote[d] # NoRev}]
  /\ UNCHANGED storeVars

ScanRaises(denied) ==
  /\ At("scan")
  /\ (IF denied THEN "denied" ELSE "scan") \in Faults
  /\ sw' = [sw EXCEPT !.pc = "scanFailed", !.denied = denied]
  /\ UNCHANGED storeVars

FenceScan ==
  /\ At("fenceScan")
  /\ Goto(IF Current THEN "reconcile" ELSE "supersede")
  /\ UNCHANGED storeVars

\* Mutation: batches are reconciled without a fence.
FenceBatchOpen ==
  /\ At("reconcile")
  /\ Goto(IF sw.todo = {} THEN "complete" ELSE "commitBatch")
  /\ UNCHANGED storeVars

\* _reconcile_pending_batch: the fence, and whether anything is left.
FenceBatch ==
  /\ At("reconcile")
  /\ Goto(IF ~Current THEN "supersede"
          ELSE IF sw.todo = {} THEN "complete" ELSE "commitBatch")
  /\ UNCHANGED storeVars

(***************************************************************************)
(* _reconcile_document for one observation of revision r: the row it       *)
(* leaves, whether the index is retired, whether a job is wanted.          *)
(***************************************************************************)
Lifecycle(d, r) ==
  IF d \in sw.plan THEN "excluded"
  ELSE IF r \in BadRevs THEN "unsupported" ELSE "active"

\* Mutation: a retired index counts.
MatchesRetired(d, r) == idx[d].rev = r

\* Mutation: an index of another revision counts.
MatchesOther(d, r) == idx[d].current

IndexMatches(d, r) == idx[d].current /\ idx[d].rev = r

\* Mutation: an unchanged revision keeps its status.
StatusKept(d, r) ==
  CASE Lifecycle(d, r) = "excluded" /\ Exists(d) -> doc[d].status
    [] Lifecycle(d, r) # "active" -> "skipped"
    [] Lifecycle(d, r) = "active" ->
         IF IndexMatches(d, r) THEN "ready"
         ELSE IF doc[d].rev = r THEN doc[d].status ELSE "uploaded"

ReconciledStatus(d, r) ==
  CASE Lifecycle(d, r) = "excluded" /\ Exists(d) -> doc[d].status
    [] Lifecycle(d, r) # "active" -> "skipped"
    [] Lifecycle(d, r) = "active" ->
         IF IndexMatches(d, r) THEN "ready"
         ELSE IF doc[d].rev = r /\ doc[d].status = "failed"
         THEN "failed" ELSE "uploaded"

ReconciledDoc(d) ==
  LET r == sw.obs[d]
      life == Lifecycle(d, r)
      status == ReconciledStatus(d, r) IN
  [status |-> status, rev |-> r, config |-> sw.config, life |-> life,
   eligible |-> life = "active" /\ status = "ready", gone |-> FALSE]

RetiresIndex(d) ==
  Lifecycle(d, sw.obs[d]) = "active" /\ ~IndexMatches(d, sw.obs[d])

\* Mutation: a running job for the revision does not count.
WantsJobUnlessQueued(d) ==
  /\ Lifecycle(d, sw.obs[d]) = "active"
  /\ ReconciledStatus(d, sw.obs[d]) = "uploaded"
  /\ \A j \in LiveJobs(d) :
       job[j].status = "queued" => job[j].rev # sw.obs[d]

\* _queue_index_job: not if a job for this revision is queued or running.
WantsJob(d) ==
  /\ Lifecycle(d, sw.obs[d]) = "active"
  /\ ReconciledStatus(d, sw.obs[d]) = "uploaded"
  /\ \A j \in LiveJobs(d) : job[j].rev # sw.obs[d]

\* One transaction reconciles a batch of staged observations.
CommitBatch ==
  /\ At("commitBatch")
  /\ \E batch \in SUBSET sw.todo :
       LET wanted == {d \in batch : WantsJob(d)}
           excluded == {d \in batch : Lifecycle(d, sw.obs[d]) = "excluded"}
       IN
       /\ \/ Cardinality(batch) = BatchSize
          \/ batch = sw.todo /\ Cardinality(batch) < BatchSize
       /\ doc' = [d \in Docs |->
                    IF d \in batch THEN ReconciledDoc(d) ELSE doc[d]]
       /\ idx' = [d \in Docs |->
                    IF d \in batch /\ RetiresIndex(d)
                    THEN [idx[d] EXCEPT !.current = FALSE] ELSE idx[d]]
       /\ \E slot \in [wanted -> Jobs] :
            /\ \A d \in wanted : slot[d] \in FreeSlots(d)
            /\ job' = [j \in Jobs |->
                         IF DocOf[j] \in wanted /\ slot[DocOf[j]] = j
                         THEN NewJob(sw.obs[DocOf[j]], sw.config)
                         ELSE DropQueued(job, excluded)[j]]
       /\ sw' = [sw EXCEPT !.pc = "reconcile", !.todo = @ \ batch]
  /\ UNCHANGED <<remote, source, discovery, collection, project, rules, run>>

\* Mutation: a run completes without a fence.
FenceCompleteOpen ==
  At("complete") /\ Goto("commitComplete") /\ UNCHANGED storeVars

\* _complete_sync_run: the fence of the completing transaction.
FenceComplete ==
  /\ At("complete")
  /\ Goto(IF Current THEN "commitComplete" ELSE "supersede")
  /\ UNCHANGED storeVars

Unseen(d) == Exists(d) /\ sw.obs[d] = NoRev /\ doc[d].life # "missing"

CommitComplete ==
  /\ At("commitComplete")
  /\ LET c == [collection EXCEPT !.life = "active"] IN
       /\ collection' = c
       /\ run' = IF run.follow THEN QueueRun(NoRun, c, sw.config) ELSE NoRun
  /\ doc' = [d \in Docs |->
               IF Unseen(d)
               THEN [doc[d] EXCEPT !.life = "missing", !.eligible = FALSE,
                                   !.status = "deleted", !.gone = TRUE]
               ELSE doc[d]]
  /\ project' = [life |-> "active", eligible |-> TRUE]
  /\ source' = [source EXCEPT !.unknown = FALSE]
  /\ sw' = Idle("validate")
  /\ UNCHANGED <<remote, discovery, rules, idx, job>>

Supersede ==
  /\ At("supersede")
  /\ run' = SupersededRun
  /\ sw' = Idle("validate")
  /\ UNCHANGED <<remote, source, discovery, collection, project, rules, doc,
                 idx, job>>

\* Mutation: a failed run that is not current is left alone.
JudgeCurrentFailure ==
  /\ At("scanFailed")
  /\ sw' = IF Current THEN [sw EXCEPT !.pc = "failRun"] ELSE Idle("validate")
  /\ UNCHANGED storeVars

\* run_once, on an exception: a run that is still current fails.
JudgeFailure ==
  /\ At("scanFailed")
  /\ Goto(IF Current THEN "failRun" ELSE "supersede")
  /\ UNCHANGED storeVars

\* _fail_sync_run; a denied collection leaves retrieval with its documents
\* and queued jobs.
FailRun ==
  /\ At("failRun")
  /\ run' = NoRun
  /\ source' = Degrade(source)
  /\ IF sw.denied
     THEN /\ collection' = [collection EXCEPT !.life = "access_revoked"]
          /\ project' = [life |-> "access_revoked", eligible |-> FALSE]
          /\ doc' = [d \in Docs |-> IF doc[d].gone THEN doc[d]
                                    ELSE [doc[d] EXCEPT !.eligible = FALSE]]
          /\ job' = DropQueued(job, Docs)
     ELSE UNCHANGED <<collection, project, doc, job>>
  /\ sw' = Idle("validate")
  /\ UNCHANGED <<remote, discovery, rules, idx>>

\* A commit during reconciliation fails: the exception reaches run_once.
CommitRaises ==
  /\ sw.pc \in {"commitBatch", "commitComplete"} /\ "busy" \in Faults
  /\ Goto("scanFailed")
  /\ UNCHANGED storeVars

\* The handler itself fails (a locked database): run_forever logs the error
\* and loops, and what the handler should have recorded is lost.
HandlerFails ==
  /\ sw.pc \in {"failRun", "supersede", "failDiscovery", "commitInvalid"}
  /\ "busy" \in Faults
  /\ sw' = Idle("validate")
  /\ UNCHANGED storeVars

-----------------------------------------------------------------------------
SyncNext ==
  \/ Recover \/ RecoverFail
  \/ ReadValidation \/ ClaimValidation
  \/ (\E valid \in BOOLEAN : Probe(valid))
  \/ CommitValid \/ CommitInvalid
  \/ ClaimDueSource \/ StartDiscovery \/ NothingDue \/ ReadCollection
  \/ ListNothing \/ DiscoveryRaises
  \/ UpsertCollection \/ FenceDiscovery \/ CommitDiscovery \/ FailDiscovery
  \/ ReadQueuedRun \/ DropStaleRun \/ ClaimRun
  \/ LoadPlan \/ Scan \/ (\E denied \in BOOLEAN : ScanRaises(denied))
  \/ FenceScan \/ FenceBatch \/ CommitBatch
  \/ FenceComplete \/ CommitComplete \/ Supersede
  \/ CommitRaises \/ JudgeFailure \/ FailRun \/ HandlerFails

\* The process dies; docker starts it again, which begins with recovery.
SyncCrash ==
  /\ "crash" \in Faults
  /\ sw' = Idle("recover")
  /\ UNCHANGED storeVars
=============================================================================
