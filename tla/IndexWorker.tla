----------------------------- MODULE IndexWorker -----------------------------
(***************************************************************************)
(* The index worker: a parent that claims jobs and collects results        *)
(* (worker.py), one child process per claimed job that fetches, builds and *)
(* publishes (index_document.py, remote_fetch.py).                         *)
(*                                                                         *)
(* child[j] is the process of job slot j as the parent's active_jobs knows *)
(* it.  As in the source worker, a check and the write it guards are two   *)
(* actions.  Job errors are classes: 'transient', 'abrupt' (the process    *)
(* was killed or lost), 'denied', 'permanent'.                             *)
(***************************************************************************)
EXTENDS CorpusStore

CONSTANTS
  Concurrency,      \* INDEX_WORKER_CONCURRENCY; 0: no index worker runs
  AbruptAttempts,   \* ABRUPT_WORKER_FAILURE_MAX_ATTEMPTS
  IndexFaults       \* what may go wrong in a configuration

ASSUME ConcurrencyAssumption == Concurrency \in Nat
ASSUME AbruptAttemptsAssumption == AbruptAttempts \in Nat \ {0}
ASSUME IndexFaultsAssumption ==
  IndexFaults \subseteq {"fetch", "forbidden", "skip", "build", "kill",
                         "timeout", "crash", "stop"}

VARIABLES
  child,     \* child processes, by job slot
  worker,    \* the parent: up, recovering, stopping or down
  scratch    \* REMOTE_CACHE_ROOT/<document>: the revision of the file in it

indexVars == <<child, worker, scratch>>

Errors == {"transient", "abrupt", "denied", "permanent"}
Verdicts == {"superseded", "denied", "retry", "fail"}
ChildPcs == {"none", "claimed", "start", "mark", "fetch", "build", "fence",
             "publish", "skip", "exited", "failing"}

\* note: the error a child exited with, then the parent's verdict on it.
ChildRec == [pc : ChildPcs, note : {"none"} \cup Errors \cup Verdicts,
             content : Revs \cup {NoRev}]
NoChild == [pc |-> "none", note |-> "none", content |-> NoRev]

IndexTypeOK ==
  /\ child \in [Jobs -> ChildRec]
  /\ worker \in {"up", "recovering", "stopping", "down"}
  /\ scratch \in [Docs -> Revs \cup {NoRev}]

IndexInit ==
  /\ child = [j \in Jobs |-> NoChild]
  /\ worker = "up"
  /\ scratch = [d \in Docs |-> NoRev]

ActiveJobs == {j \in Jobs : child[j].pc # "none"}
Alive(j) == child[j].pc \in {"start", "mark", "fetch", "build", "fence",
                             "publish", "skip"}

\* The parent is in the middle of claiming or failing a job.
Busy == \E j \in Jobs : child[j].pc \in {"claimed", "failing"}

GoChild(j, pc) == child' = [child EXCEPT ![j].pc = pc]
Exit(j, error) ==
  child' = [child EXCEPT ![j] = [NoChild EXCEPT !.pc = "exited",
                                                !.note = error]]
\* Mutation: a status that is not in the schema.
EndJobAsDone(j) == job' = [job EXCEPT ![j].status = "done"]

EndJob(j) == job' = [job EXCEPT ![j].status = "terminal"]

\* The parent forgets the child; nobody refers to a terminal row any more.
Forget(j) ==
  /\ child' = [child EXCEPT ![j] = NoChild]
  /\ job' = IF job[j].status = "terminal" THEN [job EXCEPT ![j] = NoJob]
            ELSE job

-----------------------------------------------------------------------------
(* start_queued_jobs, claim_next_job                                       *)

\* Any queued job may be the first in the priority order.
Claim(j) ==
  /\ worker = "up" /\ ~Busy
  /\ Cardinality(ActiveJobs) < Concurrency
  /\ job[j].status = "queued"
  /\ job' = [job EXCEPT ![j].status = "running", ![j].attempts = @ + 1]
  /\ GoChild(j, "claimed")
  /\ UNCHANGED <<remote, source, discovery, collection, project, rules, doc,
                 idx, run, worker, scratch>>

\* The claim's statement begins with WITH, for which sqlite3 opens no
\* transaction: it commits by itself, before the document is updated.
StartChild(j) ==
  /\ child[j].pc = "claimed"
  /\ doc' = [doc EXCEPT ![DocOf[j]].status = "indexing"]
  /\ GoChild(j, "start")
  /\ UNCHANGED <<remote, source, discovery, collection, project, rules, idx,
                 job, run, worker, scratch>>

-----------------------------------------------------------------------------
(* process_document_job                                                    *)

CheckJob(j) ==
  /\ child[j].pc = "start"
  /\ GoChild(j, IF JobSuperseded(j) THEN "mark" ELSE "fetch")
  /\ UNCHANGED <<storeVars, worker, scratch>>

\* _mark_job_superseded
MarkSuperseded(j) ==
  /\ child[j].pc = "mark"
  /\ LET d == DocOf[j] IN
       doc' = IF LiveJobs(d) \ {j} = {} /\ doc[d].status = "indexing"
              THEN [doc EXCEPT ![d].status = "uploaded"] ELSE doc
  /\ EndJob(j)
  /\ Exit(j, "none")
  /\ UNCHANGED <<remote, source, discovery, collection, project, rules, idx,
                 run, worker, scratch>>

\* Mutation: the revision of what is copied is not compared.
FetchAny(j) ==
  /\ child[j].pc = "fetch"
  /\ remote[DocOf[j]] # NoRev
  /\ scratch' = [scratch EXCEPT ![DocOf[j]] = remote[DocOf[j]]]
  /\ GoChild(j, "build")
  /\ UNCHANGED <<storeVars, worker>>

\* _prepared_source_item: the connector copies the document only while its
\* revision is the one the job expects.
Fetch(j) ==
  /\ child[j].pc = "fetch"
  /\ remote[DocOf[j]] = job[j].rev
  /\ scratch' = [scratch EXCEPT ![DocOf[j]] = job[j].rev]
  /\ GoChild(j, "build")
  /\ UNCHANGED <<storeVars, worker>>

\* The context manager removes the document's directory either way.
FetchRaises(j, error) ==
  /\ child[j].pc = "fetch"
  /\ \/ error = "transient"
        /\ (remote[DocOf[j]] # job[j].rev \/ "fetch" \in IndexFaults)
     \/ error = "denied" /\ "forbidden" \in IndexFaults
  /\ scratch' = [scratch EXCEPT ![DocOf[j]] = NoRev]
  /\ Exit(j, error)
  /\ UNCHANGED <<storeVars, worker>>

\* The payload is built from the file in the directory, which is removed.
Build(j) ==
  /\ child[j].pc = "build"
  /\ LET d == DocOf[j] IN
       /\ scratch[d] # NoRev
       /\ scratch' = [scratch EXCEPT ![d] = NoRev]
       /\ \/ child' = [child EXCEPT ![j].pc = "fence",
                                    ![j].content = scratch[d]]
          \/ "skip" \in IndexFaults /\ GoChild(j, "skip")
  /\ UNCHANGED <<storeVars, worker>>

\* The build fails, as it must when the file is gone.
BuildRaises(j, error) ==
  /\ child[j].pc = "build"
  /\ IF scratch[DocOf[j]] = NoRev THEN error = "permanent"
     ELSE error \in {"transient", "permanent"} /\ "build" \in IndexFaults
  /\ scratch' = [scratch EXCEPT ![DocOf[j]] = NoRev]
  /\ Exit(j, error)
  /\ UNCHANGED <<storeVars, worker>>

\* Mutation: an index is published without a fence.
FenceOpen(j) ==
  /\ child[j].pc = "fence"
  /\ GoChild(j, "publish")
  /\ UNCHANGED <<storeVars, worker, scratch>>

\* _persist_completed_document: the fence, and the discard behind it.
Fence(j) ==
  /\ child[j].pc = "fence"
  /\ IF JobSuperseded(j)
     THEN EndJob(j) /\ Exit(j, "none")
     ELSE UNCHANGED job /\ GoChild(j, "publish")
  /\ UNCHANGED <<remote, source, discovery, collection, project, rules, doc,
                 idx, run, worker, scratch>>

Publish(j) ==
  /\ child[j].pc = "publish"
  /\ LET d == DocOf[j] IN
       /\ idx' = [idx EXCEPT ![d] = [rev |-> job[j].rev,
                                     content |-> child[j].content,
                                     current |-> TRUE]]
       /\ doc' = [doc EXCEPT ![d].status = "ready", ![d].eligible = TRUE]
  /\ EndJob(j)
  /\ Exit(j, "none")
  /\ UNCHANGED <<remote, source, discovery, collection, project, rules, run,
                 worker, scratch>>

\* _persist_skipped_document has no fence.
PersistSkipped(j) ==
  /\ child[j].pc = "skip"
  /\ doc' = [doc EXCEPT ![DocOf[j]].status = "skipped"]
  /\ EndJob(j)
  /\ Exit(j, "none")
  /\ UNCHANGED <<remote, source, discovery, collection, project, rules, idx,
                 run, worker, scratch>>

\* The process is killed, for instance for want of memory.
ChildDies(j) ==
  /\ Alive(j) /\ "kill" \in IndexFaults
  /\ Exit(j, "abrupt")
  /\ UNCHANGED <<storeVars, worker, scratch>>

-----------------------------------------------------------------------------
(* fail_document_job: the parent reads and judges, then writes             *)

AttemptLimit(error) ==
  IF error = "abrupt" /\ AbruptAttempts < MaxAttempts
  THEN AbruptAttempts ELSE MaxAttempts

\* Mutation: one retry too many.
VerdictLate(j, error) ==
  IF JobSuperseded(j) THEN "superseded"
  ELSE IF error = "denied" THEN "denied"
  ELSE IF error # "permanent" /\ job[j].attempts <= AttemptLimit(error)
  THEN "retry" ELSE "fail"

Verdict(j, error) ==
  IF JobSuperseded(j) THEN "superseded"
  ELSE IF error = "denied" THEN "denied"
  ELSE IF error # "permanent" /\ job[j].attempts < AttemptLimit(error)
  THEN "retry" ELSE "fail"

\* A job that is not running any more is left as it is.
Judge(j, error) ==
  IF job[j].status = "running"
  THEN /\ child' = [child EXCEPT ![j] = [NoChild EXCEPT
                      !.pc = "failing", !.note = Verdict(j, error)]]
       /\ UNCHANGED job
  ELSE Forget(j)

Pass(j, verdict) ==
  /\ child[j].pc = "failing" /\ child[j].note = verdict
  /\ child' = [child EXCEPT ![j] = NoChild]
  /\ UNCHANGED <<remote, discovery, collection, project, rules, run, worker,
                 scratch>>

\* The document keeps the status 'indexing'.
FailSuperseded(j) ==
  /\ Pass(j, "superseded")
  /\ job' = [job EXCEPT ![j] = NoJob]
  /\ UNCHANGED <<source, doc, idx>>

FailDenied(j) ==
  /\ Pass(j, "denied")
  /\ LET d == DocOf[j] IN
       /\ doc' = [doc EXCEPT ![d].status = "failed",
                             ![d].life = "access_revoked",
                             ![d].eligible = FALSE]
       /\ idx' = [idx EXCEPT ![d].current = FALSE]
  /\ job' = [job EXCEPT ![j] = NoJob]
  /\ source' = [source EXCEPT !.unknown = FALSE]

\* Mutation: a retry starts with a fresh budget.
FailRetryAfresh(j) ==
  /\ Pass(j, "retry")
  /\ job' = [job EXCEPT ![j] = NewJob(@.rev, @.config)]
  /\ UNCHANGED <<source, doc, idx>>

\* Queued again with the attempts it has used; the document is reset only
\* while it expects the job's revision.
FailRetry(j) ==
  /\ Pass(j, "retry")
  /\ job' = [job EXCEPT ![j].status = "queued"]
  /\ doc' = IF doc[DocOf[j]].rev = job[j].rev
            THEN [doc EXCEPT ![DocOf[j]].status = "uploaded"] ELSE doc
  /\ UNCHANGED <<source, idx>>

FailForGood(j) ==
  /\ Pass(j, "fail")
  /\ job' = [job EXCEPT ![j] = NoJob]
  /\ doc' = [doc EXCEPT ![DocOf[j]].status = "failed"]
  /\ UNCHANGED <<source, idx>>

-----------------------------------------------------------------------------
(* collect_finished_jobs                                                   *)

Collect(j) ==
  /\ worker = "up" /\ ~Busy
  /\ child[j].pc = "exited"
  /\ IF child[j].note = "none" THEN Forget(j) ELSE Judge(j, child[j].note)
  /\ UNCHANGED <<remote, source, discovery, collection, project, rules, doc,
                 idx, run, worker, scratch>>

\* A child over its time limit is terminated, which unwinds it and removes
\* its directory unless it had to be killed.
Terminate(j) ==
  /\ Alive(j)
  /\ Judge(j, "transient")
  /\ scratch' \in {scratch, [scratch EXCEPT ![DocOf[j]] =
                      IF child[j].pc \in {"fetch", "build"} THEN NoRev
                      ELSE @]}
  /\ UNCHANGED <<remote, source, discovery, collection, project, rules, doc,
                 idx, run, worker>>

Timeout(j) ==
  /\ worker = "up" /\ ~Busy /\ "timeout" \in IndexFaults
  /\ Terminate(j)

-----------------------------------------------------------------------------
(* stop_active_jobs (SIGTERM), a crash, and fail_orphaned_running_jobs     *)

Stop ==
  /\ worker = "up" /\ ~Busy /\ "stop" \in IndexFaults
  /\ worker' = "stopping"
  /\ UNCHANGED <<storeVars, child, scratch>>

StopChild(j) ==
  /\ worker = "stopping" /\ ~Busy
  /\ Terminate(j)

\* A child that reported its error exited with code 0, so the error is not
\* recorded: only a killed one has another exit code.
StopExited(j) ==
  /\ worker = "stopping" /\ ~Busy
  /\ child[j].pc = "exited"
  /\ IF child[j].note = "abrupt" THEN Judge(j, "abrupt") ELSE Forget(j)
  /\ UNCHANGED <<remote, source, discovery, collection, project, rules, doc,
                 idx, run, worker, scratch>>

Stopped ==
  /\ worker = "stopping" /\ ActiveJobs = {}
  /\ worker' = "down"
  /\ UNCHANGED <<storeVars, child, scratch>>

\* The parent is PID 1 of its container: its children die with it.
IndexCrash ==
  /\ worker # "down" /\ "crash" \in IndexFaults
  /\ worker' = "down"
  /\ child' = [j \in Jobs |-> NoChild]
  /\ job' = [j \in Jobs |-> IF job[j].status = "terminal" THEN NoJob
                            ELSE job[j]]
  /\ UNCHANGED <<remote, source, discovery, collection, project, rules, doc,
                 idx, run, scratch>>

\* Mutation: a restarted worker does not look for orphaned jobs.
RestartUp ==
  /\ worker = "down"
  /\ worker' = "up"
  /\ UNCHANGED <<storeVars, child, scratch>>

Restart ==
  /\ worker = "down"
  /\ worker' = "recovering"
  /\ UNCHANGED <<storeVars, child, scratch>>

\* A job left running by the previous process is failed as WorkerLost.
RecoverJob(j) ==
  /\ worker = "recovering" /\ ~Busy
  /\ job[j].status = "running"
  /\ Judge(j, "abrupt")
  /\ UNCHANGED <<remote, source, discovery, collection, project, rules, doc,
                 idx, run, worker, scratch>>

Recovered ==
  /\ worker = "recovering" /\ ~Busy
  /\ \A j \in Jobs : job[j].status # "running"
  /\ worker' = "up"
  /\ UNCHANGED <<storeVars, child, scratch>>

-----------------------------------------------------------------------------
ChildNext(j) ==
  \/ CheckJob(j) \/ MarkSuperseded(j)
  \/ Fetch(j) \/ Build(j)
  \/ (\E error \in Errors : FetchRaises(j, error) \/ BuildRaises(j, error))
  \/ Fence(j) \/ Publish(j) \/ PersistSkipped(j)

FailJob(j) ==
  FailSuperseded(j) \/ FailDenied(j) \/ FailRetry(j) \/ FailForGood(j)

ParentNext ==
  \/ \E j \in Jobs : Claim(j) \/ StartChild(j) \/ Collect(j) \/ FailJob(j)
  \/ \E j \in Jobs : StopChild(j) \/ StopExited(j) \/ RecoverJob(j)
  \/ Stopped \/ Restart \/ Recovered

IndexNext ==
  \/ \E j \in Jobs : ChildNext(j)
  \/ ParentNext

\* What befalls the index worker.
IndexMishap ==
  \/ \E j \in Jobs : ChildDies(j) \/ Timeout(j)
  \/ Stop \/ IndexCrash
=============================================================================
