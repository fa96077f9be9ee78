--------------------------- MODULE CorpusPipeline ----------------------------
(***************************************************************************)
(* The web process, the source worker and the index worker over the shared *)
(* store, with the content at the source changing underneath: what each    *)
(* process reads may have changed when it writes.                          *)
(***************************************************************************)
EXTENDS SourceAdmin, SyncWorker, IndexWorker

vars == <<remote, source, discovery, collection, project, rules, doc, idx,
          job, run, reindexing, sw, child, worker, scratch>>

Init == StoreInit /\ AdminInit /\ SwInit /\ IndexInit

\* External: a document appears, changes or disappears at the source.
SourceChange(d) ==
  /\ \E r \in Revs \cup {NoRev} : remote' = [remote EXCEPT ![d] = r]
  /\ UNCHANGED <<source, discovery, collection, project, rules, doc, idx,
                 job, run>>

AdminStep == AdminNext /\ UNCHANGED <<sw, indexVars>>
ReindexStep == ReindexNext /\ UNCHANGED <<sw, indexVars>>
SyncStep == SyncNext /\ UNCHANGED <<reindexing, indexVars>>
IndexStep == IndexNext /\ UNCHANGED <<reindexing, sw>>
Disturbance ==
  /\ UNCHANGED reindexing
  /\ \/ (\E d \in Docs : SourceChange(d)) /\ UNCHANGED <<sw, indexVars>>
     \/ SyncCrash /\ UNCHANGED indexVars
     \/ IndexMishap /\ UNCHANGED sw

Next == AdminStep \/ ReindexStep \/ SyncStep \/ IndexStep \/ Disturbance

Spec == Init /\ [][Next]_vars

(***************************************************************************)
(* The source worker's loop and the index worker's loop always go on, the  *)
(* children run, time passes, and docker restarts what died.  Neither the  *)
(* administrator, the source, nor a failure has to act.                    *)
(***************************************************************************)
Fairness ==
  /\ WF_vars(SyncStep)
  /\ WF_vars(ParentNext /\ UNCHANGED <<reindexing, sw>>)
  /\ \A j \in Jobs : WF_vars(ChildNext(j) /\ UNCHANGED <<reindexing, sw>>)
  /\ SF_vars(ClaimDueSource /\ UNCHANGED <<reindexing, indexVars>>)

FairSpec == Spec /\ Fairness

-----------------------------------------------------------------------------
(* Every variable keeps to the columns and control states of its table or  *)
(* process.                                                                *)
TypeOK == StoreTypeOK /\ AdminTypeOK /\ SwTypeOK /\ IndexTypeOK

(***************************************************************************)
(* No job is orphaned: whatever a crash, a kill, a timeout or a stop did,  *)
(* once the index worker is up each running job has a process that the     *)
(* parent will collect; and a process that has not ended holds its job.    *)
(***************************************************************************)
RunningJobOwned ==
  \A j \in Jobs :
    /\ worker = "up" /\ job[j].status = "running" => child[j].pc # "none"
    /\ Alive(j) \/ child[j].pc \in {"claimed", "failing"}
         => job[j].status = "running"

(***************************************************************************)
(* The retry budget (claim_next_job has no bound of its own): a queued job *)
(* has an attempt left and a running one is within max_attempts.           *)
(***************************************************************************)
RetryBudget ==
  \A j \in Jobs :
    /\ job[j].status = "queued" => job[j].attempts < MaxAttempts
    /\ job[j].status = "running" => job[j].attempts \in 1 .. MaxAttempts

(***************************************************************************)
(* The three processes together implement the lifecycle of an index job:   *)
(* whoever cancels, resets, claims, retries or ends it, and whatever       *)
(* process dies in between.                                                *)
(***************************************************************************)
Lifecycles ==
  INSTANCE JobLifecycle WITH status <- [j \in Jobs |-> job[j].status],
                             attempts <- [j \in Jobs |-> job[j].attempts],
                             Resting <- {"none", "terminal"}
ImplementsJobLifecycle == Lifecycles!Spec

(***************************************************************************)
(* One effective job exists for a revision of a document (ADR 0036), as    *)
(* far as reconciliation creates them: a run does not queue a second job   *)
(* beside one that is queued, running or waiting for its retry.            *)
(***************************************************************************)
OneJobPerRevision ==
  \A j, k \in Jobs :
    j # k /\ DocOf[j] = DocOf[k] /\ Live(j) /\ Live(k)
      => job[j].rev # job[k].rev

(***************************************************************************)
(* While one child at a time works on a document, a current index was      *)
(* built from the content of its revision, whatever files killed and       *)
(* terminated children left in the document's directory.                   *)
(***************************************************************************)
IndexOfItsContent ==
  \A d \in Docs : idx[d].current => idx[d].content = idx[d].rev

(***************************************************************************)
(* The run a worker has claimed stays 'running' until that worker ends it, *)
(* and a running run is worked on, or will be found by recovery.  Without  *)
(* the second half the unique index on active runs (schema.sql) keeps the  *)
(* collection from ever being synchronized again.                          *)
(***************************************************************************)
Synchronizing ==
  sw.pc \in {"plan", "scan", "fenceScan", "reconcile", "commitBatch",
             "complete", "commitComplete", "supersede", "scanFailed",
             "failRun"}

RunOwned ==
  /\ Synchronizing => run.status = "running"
  /\ run.status = "running" => \/ Synchronizing \/ At("recover")
                               \/ "busy" \in Faults

(***************************************************************************)
(* retrieval_eligible, the flag every retrieval query trusts, is set only  *)
(* on a document that has a current index: no order of reconciliation,     *)
(* retirement, publication and failure separates the two.                  *)
(***************************************************************************)
EligibleHasIndex == \A d \in Docs : doc[d].eligible => idx[d].current

-----------------------------------------------------------------------------
\* The document's own part of Retrievable.
Servable(d) ==
  /\ doc[d].status = "ready" /\ ~doc[d].gone
  /\ doc[d].life = "active" /\ doc[d].eligible /\ idx[d].current
Stale(d) == Servable(d) /\ idx[d].rev # doc[d].rev

(***************************************************************************)
(* A document comes to be served under a revision it no longer expects in  *)
(* one way only: a child publishes after its fence passed and the document *)
(* moved on before the write.  Reconciliation, retirement, exclusion,      *)
(* retries, crashes and late jobs cannot bring it about.                   *)
(***************************************************************************)
LatePublish(j) ==
  JobSuperseded(j) /\ child[j].pc = "publish" /\ child'[j].pc = "exited"
StaleStep ==
  \A d \in Docs : Stale(d)' /\ ~Stale(d) =>
    \E j \in Jobs : DocOf[j] = d /\ LatePublish(j)
StaleOnlyByLatePublish == [][StaleStep]_vars

Excluded(d) == d \in rules \/ Whole \in rules

(***************************************************************************)
(* An excluded document becomes active again, while its rule stands, in    *)
(* one way only: a reconciliation batch whose fence passed commits after   *)
(* the rule was added.  No run that started before the rule does it later. *)
(***************************************************************************)
ActiveThoughExcluded(d) == Excluded(d) /\ doc[d].life = "active"

ExcludedStep ==
  \A d \in Docs : ActiveThoughExcluded(d)' /\ ~ActiveThoughExcluded(d) =>
    At("commitBatch") /\ ~Current
ExcludedOnlyByLateBatch == [][ExcludedStep]_vars

-----------------------------------------------------------------------------
(* A claimed run ends, whatever fails while it runs: the scan, access to   *)
(* the collection, the source worker itself.                               *)
RunEnds == run.status = "running" ~> run.status # "running"

(* A job's process ends and the job is requeued or terminal, whatever      *)
(* befalls the process or the parent.                                      *)
JobEnds ==
  \A j \in Jobs : job[j].status = "running" ~> job[j].status # "running"

(* The one-time due marker of a manual source is cleared, also when its    *)
(* discovery fails or is superseded by an edit.                            *)
DueMarkerCleared ==
  ~Scheduled /\ source.due # "null" ~>
    source.due = "null" \/ source.state # "active"

(* A requested validation is claimed, or the source is disabled or purged; *)
(* while the source is not edited, a pending or interrupted one is answered,*)
(* whatever disabling, purging, restoring or crash of the worker it meets. *)
(* (What an edit does: ValidationResolves, DocumentedPromises.)            *)
NeverEdited == [](source.config = 1)
Unanswered == source.state \in {"validation_pending", "validating"}
ValidationAnswered ==
  /\ source.requested ~>
       \/ ~source.requested \/ source.state \in {"disabled", "pending_purge"}
  /\ NeverEdited => (Unanswered ~> ~Unanswered)

(***************************************************************************)
(* When the administrator and the source leave the system alone, a         *)
(* scheduled source converges: again and again every document that exists  *)
(* at the source and is wanted is served with the content of its revision, *)
(* unless the retries for that revision are used up, and nothing else is   *)
(* served.                                                                 *)
(***************************************************************************)
Wanted(d) == remote[d] \in Revs \ BadRevs /\ ~Excluded(d)
GivenUp(d) == doc[d].status = "failed" /\ doc[d].rev = remote[d]
Served(d) == Retrievable(d) /\ idx[d].rev = remote[d]
Converged ==
  source.state = "active" /\ collection.selected =>
    \A d \in Docs : IF Wanted(d) THEN Served(d) \/ GivenUp(d)
                    ELSE ~Retrievable(d)
Converges == []<>Converged
=============================================================================
