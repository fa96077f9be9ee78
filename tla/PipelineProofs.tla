--------------------------- MODULE PipelineProofs ---------------------------
(***************************************************************************)
(* For every value of the constants: index jobs keep to their lifecycle    *)
(* and, without reindexing, apart; eligibility keeps to current indexes; a *)
(* synchronization keeps its run; and an index holds what it names, where  *)
(* there is one child at a time.                                           *)
(***************************************************************************)
EXTENDS PipelineTypes, FiniteSetTheorems

(***************************************************************************)
(* What a job row and its child process have to do with each other, at     *)
(* every point of claiming, working, failing, stopping and restarting.     *)
(***************************************************************************)
SlotInv(j) ==
  /\ job[j].status \in {"none", "queued"} => child[j].pc = "none"
  /\ job[j].status = "terminal" => child[j].pc = "exited"
  /\ Alive(j) \/ child[j].pc \in {"claimed", "failing"}
       => job[j].status = "running"
  /\ child[j].pc = "exited" =>
       job[j].status = IF child[j].note = "none" THEN "terminal"
                       ELSE "running"
  /\ job[j].status = "queued" => job[j].attempts < MaxAttempts
  /\ job[j].status = "running" => job[j].attempts \in 1 .. MaxAttempts
  /\ child[j].pc = "failing" /\ child[j].note = "retry"
       => job[j].attempts < MaxAttempts
  /\ job[j].status = "running" /\ child[j].pc = "none" => worker # "up"

JobInv == \A j \in Jobs : SlotInv(j)

\* The step of one slot, as the abstract lifecycle sees it.
SlotStep(j) ==
  \/ Lifecycles!Enqueue(j) \/ Lifecycles!Cancel(j) \/ Lifecycles!Claim(j)
  \/ Lifecycles!Requeue(j) \/ Lifecycles!End(j) \/ Lifecycles!Forget(j)
  \/ Lifecycles!Keep(j)

-----------------------------------------------------------------------------
(* The web process and the source worker touch queued rows and free slots  *)
(* only: every slot is kept, cancelled or queued.                          *)
RowStep(j) ==
  \/ job'[j] = job[j]
  \/ job[j].status = "queued" /\ job'[j] = NoJob
  \/ /\ job[j].status \in {"none", "queued"}
     /\ job'[j].status = "queued" /\ job'[j].attempts = 0

\* Superseding queued jobs is a row step.
LEMMA DropQueuedRows ==
  ASSUME TypeOK, NEW D, job' = DropQueued(job, D), NEW j \in Jobs
  PROVE  RowStep(j)
  BY DEF DropQueued, RowStep

\* The web process takes only row steps.
LEMMA AdminRows ==
  ASSUME TypeOK, AdminStep, NEW j \in Jobs
  PROVE  RowStep(j)
<1>1. CASE UNCHANGED job
  BY <1>1 DEF RowStep
<1>2. CASE CancelQueuedWork
  BY <1>2, DropQueuedRows DEF CancelQueuedWork
<1>3. ASSUME NEW d \in Docs, ExcludeDocument(d)
      PROVE  RowStep(j)
  BY <1>1, <1>3, DropQueuedRows DEF ExcludeDocument
<1>4. CASE ExcludeCollection
  BY <1>4, DropQueuedRows DEF ExcludeCollection
<1>5. ASSUME NEW d \in Docs, CreateIndexJob(d)
      PROVE  RowStep(j)
  <2>1. PICK k \in (IF LiveJobs(d) = {} THEN FreeSlots(d) ELSE LiveJobs(d)) :
          job' = IF job[k].status = "running" THEN job
                 ELSE [job EXCEPT ![k] = NewJob(doc[d].rev, doc[d].config)]
    BY <1>5 DEF CreateIndexJob
  <2>2. k \in Jobs /\ job[k].status \in {"none", "queued", "running"}
    BY <2>1 DEF FreeSlots, LiveJobs, Live
  <2>3. job \in [Jobs -> JobRec]
    BY DEF TypeOK, StoreTypeOK
  <2>. QED BY <2>1, <2>2, <2>3 DEF RowStep, NewJob
<1>. QED
  BY <1>1, <1>2, <1>3, <1>4, <1>5
     DEF AdminStep, AdminNext, AdminOperation, EditSettings, EditConnection,
         RequestValidation, Disable, Enable, RequestPurge, Restore,
         ManualSync, SelectAll, SelectExplicitly, Deselect, SetSelection,
         DeleteExclusion

\* The source worker takes only row steps.
LEMMA SyncRows ==
  ASSUME TypeOK, SyncStep, NEW j \in Jobs
  PROVE  RowStep(j)
<1>1. CASE UNCHANGED job
  BY <1>1 DEF RowStep
<1>2. CASE UNCHANGED storeVars
  BY <1>1, <1>2 DEF storeVars
<1>3. CASE CommitBatch
  <2>1. PICK batch \in SUBSET sw.todo :
          LET wanted == {d \in batch : WantsJob(d)}
              excluded ==
                {d \in batch : Lifecycle(d, sw.obs[d]) = "excluded"} IN
          \E slot \in [wanted -> Jobs] :
            /\ \A d \in wanted : slot[d] \in FreeSlots(d)
            /\ job' = [k \in Jobs |->
                         IF DocOf[k] \in wanted /\ slot[DocOf[k]] = k
                         THEN NewJob(sw.obs[DocOf[k]], sw.config)
                         ELSE DropQueued(job, excluded)[k]]
    BY <1>3 DEF CommitBatch
  <2> DEFINE wanted == {d \in batch : WantsJob(d)}
             excluded ==
               {d \in batch : Lifecycle(d, sw.obs[d]) = "excluded"}
  <2>2. PICK slot \in [wanted -> Jobs] :
          /\ \A d \in wanted : slot[d] \in FreeSlots(d)
          /\ job'[j] = IF DocOf[j] \in wanted /\ slot[DocOf[j]] = j
                       THEN NewJob(sw.obs[DocOf[j]], sw.config)
                       ELSE DropQueued(job, excluded)[j]
    BY <2>1
  <2>3. CASE DocOf[j] \in wanted /\ slot[DocOf[j]] = j
    BY <2>2, <2>3 DEF RowStep, NewJob, FreeSlots
  <2>4. CASE ~(DocOf[j] \in wanted /\ slot[DocOf[j]] = j)
    BY <2>2, <2>4 DEF RowStep, DropQueued
  <2>. QED BY <2>3, <2>4
<1>4. CASE FailRun
  BY <1>1, <1>4, DropQueuedRows DEF FailRun
<1>5. UNCHANGED job \/ UNCHANGED storeVars \/ CommitBatch \/ FailRun
  BY DEF SyncStep, SyncNext, Recover, RecoverFail, ReadValidation,
         ClaimValidation, Probe, CommitValid, CommitInvalid, ClaimDueSource,
         StartDiscovery,
         NothingDue, ReadCollection, ListNothing, DiscoveryRaises,
         UpsertCollection, FenceDiscovery, CommitDiscovery, FailDiscovery,
         ReadQueuedRun, DropStaleRun, ClaimRun, LoadPlan, Scan, ScanRaises,
         FenceScan, FenceBatch, FenceComplete, CommitComplete, Supersede,
         CommitRaises, JudgeFailure, HandlerFails
<1>. QED BY <1>1, <1>2, <1>3, <1>4, <1>5

\* Whoever takes only row steps preserves the invariant of every slot.
LEMMA RowStepsSafe ==
  ASSUME TypeOK, JobInv, UNCHANGED <<child, worker>>,
         \A j \in Jobs : RowStep(j)
  PROVE  JobInv' /\ \A j \in Jobs : SlotStep(j)
<1> SUFFICES ASSUME NEW j \in Jobs
             PROVE  SlotInv(j)' /\ SlotStep(j)
  BY DEF JobInv
<1>1. SlotInv(j) /\ RowStep(j)
  BY DEF JobInv
<1>2. CASE job'[j] = job[j]
  <2>1. SlotInv(j)'
    BY <1>1, <1>2 DEF SlotInv, Alive
  <2>2. Lifecycles!Keep(j)
    BY <1>2 DEF Lifecycles!Keep
  <2>. QED BY <2>1, <2>2 DEF SlotStep
<1>3. CASE job[j].status = "queued" /\ job'[j] = NoJob
  <2>1. SlotInv(j)'
    BY <1>1, <1>3 DEF SlotInv, Alive, NoJob
  <2>2. Lifecycles!Cancel(j)
    BY <1>3 DEF Lifecycles!Cancel, NoJob
  <2>. QED BY <2>1, <2>2 DEF SlotStep
<1>4. CASE /\ job[j].status \in {"none", "queued"}
           /\ job'[j].status = "queued" /\ job'[j].attempts = 0
  <2>1. SlotInv(j)'
    BY <1>1, <1>4, MaxAttemptsAssumption DEF SlotInv, Alive
  <2>2. Lifecycles!Enqueue(j)
    BY <1>4 DEF Lifecycles!Enqueue
  <2>. QED BY <2>1, <2>2 DEF SlotStep
<1>. QED BY <1>1, <1>2, <1>3, <1>4 DEF RowStep

-----------------------------------------------------------------------------
(* The index worker's own steps concern one slot, except a crash.          *)
Others(j) ==
  \A k \in Jobs \ {j} : job'[k] = job[k] /\ child'[k] = child[k]

\* A step that touches one slot need only be judged there.
LEMMA OneSlot ==
  ASSUME JobInv, NEW j \in Jobs, UNCHANGED worker, Others(j),
         SlotInv(j)', SlotStep(j)
  PROVE  JobInv' /\ \A k \in Jobs : SlotStep(k)
<1> SUFFICES ASSUME NEW k \in Jobs \ {j}
             PROVE  SlotInv(k)' /\ SlotStep(k)
  BY DEF JobInv
<1>1. job'[k] = job[k] /\ child'[k] = child[k] /\ SlotInv(k)
  BY DEF Others, JobInv
<1>2. SlotInv(k)'
  BY <1>1 DEF SlotInv, Alive
<1>3. Lifecycles!Keep(k)
  BY <1>1 DEF Lifecycles!Keep
<1>. QED BY <1>2, <1>3 DEF SlotStep

\* The parent forgets a child whose job is not running.
LEMMA ForgetSlot ==
  ASSUME TypeOK, JobInv, NEW j \in Jobs, UNCHANGED worker, Forget(j),
         job[j].status # "running"
  PROVE  Others(j) /\ SlotInv(j)' /\ SlotStep(j)
<1> USE DEF TypeOK, StoreTypeOK, IndexTypeOK
<1>1. Others(j)
  BY DEF Others, Forget
<1>2. child'[j] = NoChild
  BY DEF Forget
<1>3. job[j].status \in {"none", "queued", "terminal"}
  BY DEF JobRec, JobStatuses
<1>4. CASE job[j].status = "terminal"
  <2>1. job'[j] = NoJob
    BY <1>4 DEF Forget
  <2>2. SlotInv(j)'
    BY <1>2, <2>1 DEF SlotInv, Alive, NoJob, NoChild
  <2>3. Lifecycles!Forget(j)
    BY <1>4, <2>1 DEF Lifecycles!Forget, NoJob
  <2>. QED BY <1>1, <2>2, <2>3 DEF SlotStep
<1>5. CASE job[j].status \in {"none", "queued"}
  <2>1. job'[j] = job[j]
    BY <1>5 DEF Forget
  <2>2. SlotInv(j)'
    BY <1>2, <1>5, <2>1 DEF JobInv, SlotInv, Alive, NoChild
  <2>3. Lifecycles!Keep(j)
    BY <2>1 DEF Lifecycles!Keep
  <2>. QED BY <1>1, <2>2, <2>3 DEF SlotStep
<1>. QED BY <1>3, <1>4, <1>5

\* The parent judges an error; it grants a retry only within the budget.
LEMMA JudgeSlot ==
  ASSUME TypeOK, JobInv, NEW j \in Jobs, NEW error, UNCHANGED worker,
         Judge(j, error)
  PROVE  JobInv' /\ \A k \in Jobs : SlotStep(k)
<1> USE DEF TypeOK, StoreTypeOK, IndexTypeOK
<1>1. CASE job[j].status = "running"
  <2>1. /\ child'[j] = [NoChild EXCEPT !.pc = "failing",
                                       !.note = Verdict(j, error)]
        /\ job' = job /\ Others(j)
    BY <1>1 DEF Judge, Others
  <2>2. Verdict(j, error) = "retry" => job[j].attempts < MaxAttempts
    <3>1. job[j].attempts \in Nat
      BY DEF JobRec
    <3>. QED
      BY <3>1, MaxAttemptsAssumption, AbruptAttemptsAssumption
         DEF Verdict, AttemptLimit
  <2>3. child'[j].pc = "failing" /\ child'[j].note = Verdict(j, error)
    BY <2>1 DEF NoChild
  <2>4. SlotInv(j)'
    BY <1>1, <2>1, <2>2, <2>3 DEF JobInv, SlotInv, Alive
  <2>5. Lifecycles!Keep(j)
    BY <2>1 DEF Lifecycles!Keep
  <2>. QED BY <2>1, <2>4, <2>5, OneSlot DEF SlotStep
<1>2. CASE job[j].status # "running"
  BY <1>2, ForgetSlot, OneSlot DEF Judge
<1>. QED BY <1>1, <1>2

\* A child goes on with its running job.
LEMMA ChildGoesOn ==
  ASSUME TypeOK, JobInv, NEW j \in Jobs, UNCHANGED <<worker, job>>,
         Alive(j) \/ child[j].pc = "claimed",
         Others(j),
         Alive(j)' \/ (child'[j].pc = "exited" /\ child'[j].note # "none")
  PROVE  JobInv' /\ \A k \in Jobs : SlotStep(k)
<1>1. job[j].status = "running" /\ job'[j] = job[j]
  BY DEF JobInv, SlotInv
<1>2. SlotInv(j)'
  BY <1>1 DEF JobInv, SlotInv, Alive
<1>3. Lifecycles!Keep(j)
  BY <1>1 DEF Lifecycles!Keep
<1>. QED BY <1>2, <1>3, OneSlot DEF SlotStep

\* A child ends its job and exits without an error.
LEMMA ChildEndsJob ==
  ASSUME TypeOK, JobInv, NEW j \in Jobs, UNCHANGED worker, Alive(j),
         EndJob(j), Exit(j, "none")
  PROVE  JobInv' /\ \A k \in Jobs : SlotStep(k)
<1> USE DEF TypeOK, StoreTypeOK, IndexTypeOK
<1>1. Others(j)
  BY DEF EndJob, Exit, Others
<1>2. job[j].status = "running"
  BY DEF JobInv, SlotInv
<1>3. job'[j].status = "terminal"
  BY DEF EndJob, JobRec
<1>4. child'[j].pc = "exited" /\ child'[j].note = "none"
  BY DEF Exit, NoChild
<1>5. SlotInv(j)'
  BY <1>3, <1>4 DEF SlotInv, Alive
<1>6. Lifecycles!End(j)
  BY <1>2, <1>3 DEF Lifecycles!End
<1>. QED BY <1>1, <1>5, <1>6, OneSlot DEF SlotStep

\* Every step of a child preserves the invariant of the jobs.
LEMMA ChildJobs ==
  ASSUME TypeOK, JobInv, NEW j \in Jobs, ChildNext(j) \/ ChildDies(j)
  PROVE  JobInv' /\ \A k \in Jobs : SlotStep(k)
<1> USE DEF TypeOK, StoreTypeOK, IndexTypeOK
<1>1. ASSUME NEW pc \in {"mark", "fetch", "build", "publish", "skip"},
             GoChild(j, pc), Alive(j), UNCHANGED <<worker, job>>
      PROVE  JobInv' /\ \A k \in Jobs : SlotStep(k)
  <2>1. Others(j)
    BY <1>1 DEF GoChild, Others
  <2>2. child'[j].pc = pc
    BY <1>1 DEF GoChild, ChildRec
  <2>3. Alive(j)'
    BY <1>1, <2>2 DEF Alive
  <2>. QED BY <1>1, <2>1, <2>3, ChildGoesOn
<1>2. ASSUME NEW error \in Errors, Exit(j, error), Alive(j),
             UNCHANGED <<worker, job>>
      PROVE  JobInv' /\ \A k \in Jobs : SlotStep(k)
  <2>1. Others(j)
    BY <1>2 DEF Exit, Others
  <2>2. child'[j].pc = "exited" /\ child'[j].note # "none"
    BY <1>2 DEF Exit, NoChild, Errors
  <2>. QED BY <1>2, <2>1, <2>2, ChildGoesOn
<1>3. CASE CheckJob(j)
  BY <1>1, <1>3 DEF CheckJob, storeVars, Alive
<1>4. CASE MarkSuperseded(j)
  BY <1>4, ChildEndsJob DEF MarkSuperseded, Alive
<1>5. CASE Fetch(j)
  BY <1>1, <1>5 DEF Fetch, storeVars, Alive
<1>6. CASE Build(j)
  <2>1. CASE GoChild(j, "skip")
    BY <1>1, <1>6, <2>1 DEF Build, storeVars, Alive
  <2>2. CASE child' = [child EXCEPT ![j].pc = "fence",
                                    ![j].content = scratch[DocOf[j]]]
    <3>1. child' = [child EXCEPT ![j] =
                      [child[j] EXCEPT !.pc = "fence",
                                       !.content = scratch[DocOf[j]]]]
      BY <2>2
    <3>2. Others(j)
      BY <1>6, <3>1 DEF Others, Build, storeVars
    <3>3. child'[j].pc = "fence"
      BY <3>1 DEF ChildRec
    <3>4. Alive(j)' /\ Alive(j)
      BY <1>6, <3>3 DEF Alive, Build
    <3>. QED BY <1>6, <3>2, <3>4, ChildGoesOn DEF Build, storeVars
  <2>. QED BY <1>6, <2>1, <2>2 DEF Build
<1>7. ASSUME NEW error \in Errors, FetchRaises(j, error)
      PROVE  JobInv' /\ \A k \in Jobs : SlotStep(k)
  BY <1>2, <1>7 DEF FetchRaises, storeVars, Alive
<1>8. ASSUME NEW error \in Errors, BuildRaises(j, error)
      PROVE  JobInv' /\ \A k \in Jobs : SlotStep(k)
  BY <1>2, <1>8 DEF BuildRaises, storeVars, Alive
<1>9. CASE Fence(j)
  BY <1>1, <1>9, ChildEndsJob DEF Fence, Alive
<1>10. CASE Publish(j)
  BY <1>10, ChildEndsJob DEF Publish, Alive
<1>11. CASE PersistSkipped(j)
  BY <1>11, ChildEndsJob DEF PersistSkipped, Alive
<1>12. CASE ChildDies(j)
  BY <1>2, <1>12 DEF ChildDies, storeVars, Errors
<1>. QED
  BY <1>3, <1>4, <1>5, <1>6, <1>7, <1>8, <1>9, <1>10, <1>11, <1>12
     DEF ChildNext

\* So does every step of the index worker itself, and every mishap.
LEMMA ParentJobs ==
  ASSUME TypeOK, JobInv,
         ParentNext \/ Stop \/ IndexCrash \/ (\E j \in Jobs : Timeout(j))
  PROVE  JobInv' /\ \A k \in Jobs : SlotStep(k)
<1> USE DEF TypeOK, StoreTypeOK, IndexTypeOK
<1>1. ASSUME NEW j \in Jobs, Claim(j)
      PROVE  JobInv' /\ \A k \in Jobs : SlotStep(k)
  <2>1. job' = [job EXCEPT ![j] = [job[j] EXCEPT
                                     !.status = "running",
                                     !.attempts = job[j].attempts + 1]]
    BY <1>1 DEF Claim
  <2>2. Others(j)
    BY <1>1, <2>1 DEF Others, Claim, GoChild
  <2>3. /\ job[j].status = "queued" /\ job[j].attempts < MaxAttempts
        /\ job[j].attempts \in Nat
    BY <1>1 DEF Claim, JobInv, SlotInv, JobRec
  <2>4. /\ job'[j].status = "running"
        /\ job'[j].attempts = job[j].attempts + 1
    BY <2>1 DEF JobRec
  <2>5. child'[j].pc = "claimed"
    BY <1>1 DEF Claim, GoChild, ChildRec
  <2>6. SlotInv(j)'
    BY <2>3, <2>4, <2>5, MaxAttemptsAssumption DEF SlotInv, Alive
  <2>7. Lifecycles!Claim(j)
    BY <2>3, <2>4 DEF Lifecycles!Claim
  <2>. QED BY <1>1, <2>2, <2>6, <2>7, OneSlot DEF SlotStep, Claim
<1>2. ASSUME NEW j \in Jobs, StartChild(j)
      PROVE  JobInv' /\ \A k \in Jobs : SlotStep(k)
  <2>1. Others(j)
    BY <1>2 DEF StartChild, GoChild, Others
  <2>2. Alive(j)'
    BY <1>2 DEF StartChild, GoChild, ChildRec, Alive
  <2>. QED BY <1>2, <2>1, <2>2, ChildGoesOn DEF StartChild
<1>3. ASSUME NEW j \in Jobs, child[j].pc = "exited",
             Forget(j), child[j].note = "none" \/ job[j].status # "running",
             UNCHANGED worker
      PROVE  JobInv' /\ \A k \in Jobs : SlotStep(k)
  <2>1. job[j].status # "running"
    BY <1>3 DEF JobInv, SlotInv
  <2>. QED BY <1>3, <2>1, ForgetSlot, OneSlot
<1>4. ASSUME NEW j \in Jobs, Collect(j)
      PROVE  JobInv' /\ \A k \in Jobs : SlotStep(k)
  BY <1>3, <1>4, JudgeSlot DEF Collect
<1>5. ASSUME NEW j \in Jobs, Pass(j, child[j].note),
             job' = [job EXCEPT ![j] = NoJob]
      PROVE  JobInv' /\ \A k \in Jobs : SlotStep(k)
  <2>1. job[j].status = "running"
    BY <1>5 DEF Pass, JobInv, SlotInv
  <2>2. job'[j] = NoJob /\ child'[j] = NoChild /\ Others(j)
    BY <1>5 DEF Pass, Others
  <2>3. SlotInv(j)'
    BY <2>2 DEF SlotInv, Alive, NoJob, NoChild
  <2>4. Lifecycles!End(j)
    BY <2>1, <2>2 DEF Lifecycles!End, NoJob
  <2>. QED BY <1>5, <2>2, <2>3, <2>4, OneSlot DEF SlotStep, Pass
<1>6. ASSUME NEW j \in Jobs, FailRetry(j)
      PROVE  JobInv' /\ \A k \in Jobs : SlotStep(k)
  <2>1. job[j].status = "running" /\ job[j].attempts < MaxAttempts
    BY <1>6 DEF FailRetry, Pass, JobInv, SlotInv
  <2>2. job' = [job EXCEPT ![j] = [job[j] EXCEPT !.status = "queued"]]
    BY <1>6 DEF FailRetry
  <2>3. child'[j] = NoChild /\ Others(j)
    BY <1>6, <2>2 DEF FailRetry, Pass, Others
  <2>4. job'[j].status = "queued" /\ job'[j].attempts = job[j].attempts
    BY <2>2 DEF JobRec
  <2>5. SlotInv(j)'
    BY <2>1, <2>3, <2>4 DEF SlotInv, Alive, NoChild
  <2>6. Lifecycles!Requeue(j)
    BY <2>1, <2>4 DEF Lifecycles!Requeue
  <2>. QED BY <1>6, <2>3, <2>5, <2>6, OneSlot DEF SlotStep, FailRetry, Pass
<1>7. ASSUME NEW j \in Jobs, FailJob(j)
      PROVE  JobInv' /\ \A k \in Jobs : SlotStep(k)
  BY <1>5, <1>6, <1>7
     DEF FailJob, FailSuperseded, FailDenied, FailForGood, Pass
<1>8. ASSUME NEW j \in Jobs, StopChild(j) \/ Timeout(j)
      PROVE  JobInv' /\ \A k \in Jobs : SlotStep(k)
  BY <1>8, JudgeSlot DEF StopChild, Timeout, Terminate
<1>9. ASSUME NEW j \in Jobs, StopExited(j)
      PROVE  JobInv' /\ \A k \in Jobs : SlotStep(k)
  <2>1. CASE Judge(j, "abrupt")
    BY <1>9, <2>1, JudgeSlot DEF StopExited
  <2>2. CASE Forget(j) /\ job[j].status # "running"
    BY <1>9, <2>2, ForgetSlot, OneSlot DEF StopExited
  <2>3. CASE Forget(j) /\ job[j].status = "running"
    <3>1. job'[j] = job[j] /\ child'[j] = NoChild /\ Others(j)
      BY <2>3 DEF Forget, Others
    <3>2. SlotInv(j) /\ worker' = "stopping"
      BY <1>9 DEF JobInv, StopExited
    <3>3. SlotInv(j)'
      BY <2>3, <3>1, <3>2 DEF SlotInv, Alive, NoChild
    <3>4. Lifecycles!Keep(j)
      BY <3>1 DEF Lifecycles!Keep
    <3>. QED BY <1>9, <3>1, <3>3, <3>4, OneSlot DEF SlotStep, StopExited
  <2>. QED BY <1>9, <2>1, <2>2, <2>3 DEF StopExited
<1>10. ASSUME NEW j \in Jobs, RecoverJob(j)
       PROVE  JobInv' /\ \A k \in Jobs : SlotStep(k)
  BY <1>10, JudgeSlot DEF RecoverJob
<1>11. CASE Stopped \/ Restart \/ Recovered \/ Stop
  <2> SUFFICES ASSUME NEW j \in Jobs
               PROVE  SlotInv(j)' /\ SlotStep(j)
    BY DEF JobInv
  <2>1. UNCHANGED <<job, child>> /\ SlotInv(j)
    BY <1>11 DEF Stopped, Restart, Recovered, Stop, storeVars, JobInv
  <2>2. worker' # "up" \/ job[j].status # "running"
    BY <1>11 DEF Stopped, Restart, Recovered, Stop
  <2>3. SlotInv(j)'
    BY <2>1, <2>2 DEF SlotInv, Alive
  <2>4. Lifecycles!Keep(j)
    BY <2>1 DEF Lifecycles!Keep
  <2>. QED BY <2>3, <2>4 DEF SlotStep
<1>12. CASE IndexCrash
  <2> SUFFICES ASSUME NEW j \in Jobs
               PROVE  SlotInv(j)' /\ SlotStep(j)
    BY DEF JobInv
  <2>1. /\ child'[j] = NoChild /\ worker' = "down" /\ SlotInv(j)
        /\ job'[j] = IF job[j].status = "terminal" THEN NoJob ELSE job[j]
    BY <1>12 DEF IndexCrash, JobInv
  <2>2. SlotInv(j)'
    BY <2>1 DEF SlotInv, Alive, NoChild, NoJob
  <2>3. CASE job[j].status = "terminal"
    <3>1. Lifecycles!Forget(j)
      BY <2>1, <2>3 DEF Lifecycles!Forget, NoJob
    <3>. QED BY <2>2, <3>1 DEF SlotStep
  <2>4. CASE job[j].status # "terminal"
    <3>1. Lifecycles!Keep(j)
      BY <2>1, <2>4 DEF Lifecycles!Keep
    <3>. QED BY <2>2, <3>1 DEF SlotStep
  <2>. QED BY <2>3, <2>4
<1>. QED
  BY <1>1, <1>2, <1>4, <1>7, <1>8, <1>9, <1>10, <1>11, <1>12 DEF ParentNext

-----------------------------------------------------------------------------
\* The invariant of the jobs holds initially.
LEMMA JobInit ==
  ASSUME Init
  PROVE  JobInv
  BY DEF Init, StoreInit, IndexInit, JobInv, SlotInv, Alive, NoJob, NoChild

\* Every step preserves it and is a step of the lifecycle.
LEMMA JobSteps ==
  ASSUME TypeOK, JobInv, [Next]_vars
  PROVE  JobInv' /\ [Lifecycles!Next]_(Lifecycles!vars)
<1>1. CASE AdminStep \/ SyncStep
  <2>1. UNCHANGED <<child, worker>>
    BY <1>1 DEF AdminStep, SyncStep, indexVars
  <2>2. \A j \in Jobs : RowStep(j)
    BY <1>1, AdminRows, SyncRows
  <2>. QED BY <2>1, <2>2, RowStepsSafe DEF SlotStep, Lifecycles!Next
<1>2. CASE ReindexStep \/ UNCHANGED <<job, child, worker>>
  <2>1. UNCHANGED <<job, child, worker>>
    BY <1>2, ReindexRow
  <2>2. \A j \in Jobs : RowStep(j)
    BY <2>1 DEF RowStep
  <2>. QED BY <2>1, <2>2, RowStepsSafe DEF SlotStep, Lifecycles!Next
<1>3. CASE IndexNext \/ IndexMishap
  <2>1. JobInv' /\ \A k \in Jobs : SlotStep(k)
    BY <1>3, ChildJobs, ParentJobs DEF IndexNext, IndexMishap
  <2>. QED BY <2>1 DEF SlotStep, Lifecycles!Next
<1>4. \/ AdminStep \/ ReindexStep \/ SyncStep \/ IndexNext \/ IndexMishap
      \/ UNCHANGED <<job, child, worker>>
  BY DEF Next, IndexStep, Disturbance, SourceChange, SyncCrash, vars,
         storeVars, indexVars
<1>. QED BY <1>1, <1>2, <1>3, <1>4

(***************************************************************************)
(* Row and process of every job agree in every reachable state.            *)
(***************************************************************************)
THEOREM JobsConsistent == Spec => []JobInv
  BY TypeCorrect, JobInit, JobSteps, PTL DEF Spec

(***************************************************************************)
(* A queued job has an attempt left and a running one is within            *)
(* max_attempts, though claim_next_job has no bound of its own: the budget *)
(* rests on fail_document_job and on nobody else requeueing a running job. *)
(***************************************************************************)
THEOREM BudgetKept == Spec => []RetryBudget
<1>1. JobInv => RetryBudget
  BY DEF JobInv, SlotInv, RetryBudget
<1>. QED BY <1>1, JobsConsistent, PTL

(***************************************************************************)
(* While the index worker is up, every running job has a child the parent  *)
(* will collect, and a child that has not ended holds its job.             *)
(***************************************************************************)
THEOREM JobsOwned == Spec => []RunningJobOwned
<1>1. JobInv => RunningJobOwned
  BY DEF JobInv, SlotInv, RunningJobOwned
<1>. QED BY <1>1, JobsConsistent, PTL

(***************************************************************************)
(* The pipeline implements the lifecycle of an index job.                  *)
(***************************************************************************)
THEOREM LifecycleImplemented == Spec => ImplementsJobLifecycle
<1>1. Init => Lifecycles!Init
  BY DEF Init, StoreInit, NoJob, Lifecycles!Init
<1>. QED
  BY <1>1, TypeCorrect, JobsConsistent, JobSteps, PTL
     DEF Spec, ImplementsJobLifecycle, Lifecycles!Spec

-----------------------------------------------------------------------------
(* Eligibility and indexes.  Most steps leave both alone or only take      *)
(* eligibility away.                                                       *)
Withheld(d) ==
  /\ doc'[d].eligible => doc[d].eligible
  /\ idx'[d].current = idx[d].current

\* The administrator never makes a document eligible.
LEMMA AdminWithholds ==
  ASSUME TypeOK, AdminStep, NEW d \in Docs
  PROVE  Withheld(d)
<1> USE DEF TypeOK, StoreTypeOK
<1>1. CASE UNCHANGED <<doc, idx>>
  BY <1>1 DEF Withheld
<1>2. ASSUME NEW e \in Docs, ExcludeDocument(e)
      PROVE  Withheld(d)
  <2>1. CASE doc[e].gone
    BY <1>2, <2>1 DEF ExcludeDocument, Withheld
  <2>2. CASE ~doc[e].gone
    <3>1. doc' = [doc EXCEPT ![e] = [doc[e] EXCEPT !.life = "excluded",
                                                   !.eligible = FALSE]]
      BY <1>2, <2>2 DEF ExcludeDocument
    <3>2. [doc[e] EXCEPT !.life = "excluded", !.eligible = FALSE].eligible
            = FALSE
      BY DEF DocRec
    <3>. QED BY <1>2, <3>1, <3>2 DEF ExcludeDocument, Withheld
  <2>. QED BY <2>1, <2>2
<1>3. CASE ExcludeCollection
  <2>1. [doc[d] EXCEPT !.life = "excluded", !.eligible = FALSE].eligible
          = FALSE
    BY DEF DocRec
  <2>2. doc'[d] \in {doc[d], [doc[d] EXCEPT !.life = "excluded",
                                            !.eligible = FALSE]}
    BY <1>3 DEF ExcludeCollection
  <2>. QED BY <1>3, <2>1, <2>2 DEF ExcludeCollection, Withheld
<1>. QED
  BY <1>1, <1>2, <1>3
     DEF AdminStep, AdminNext, AdminOperation, EditSettings, EditConnection,
         RequestValidation, Disable, Enable, RequestPurge, Restore,
         ManualSync, SelectAll, SelectExplicitly, Deselect, SetSelection,
         DeleteExclusion, CreateIndexJob

\* A reconciled document is eligible only if its index matches and is kept.
LEMMA SyncEligible ==
  ASSUME TypeOK, EligibleHasIndex, SyncStep, NEW d \in Docs
  PROVE  doc'[d].eligible => idx'[d].current
<1> USE DEF TypeOK, StoreTypeOK, EligibleHasIndex
<1>1. CASE Withheld(d)
  BY <1>1 DEF Withheld
<1>2. CASE CommitBatch
  <2>1. PICK batch \in SUBSET sw.todo :
          /\ doc' = [e \in Docs |->
                       IF e \in batch THEN ReconciledDoc(e) ELSE doc[e]]
          /\ idx' = [e \in Docs |->
                       IF e \in batch /\ RetiresIndex(e)
                       THEN [idx[e] EXCEPT !.current = FALSE] ELSE idx[e]]
    BY <1>2 DEF CommitBatch
  <2>2. CASE d \in batch
    <3>1. ASSUME doc'[d].eligible
          PROVE  /\ Lifecycle(d, sw.obs[d]) = "active"
                 /\ ReconciledStatus(d, sw.obs[d]) = "ready"
      BY <2>1, <2>2, <3>1 DEF ReconciledDoc
    <3>2. ASSUME doc'[d].eligible
          PROVE  IndexMatches(d, sw.obs[d])
      BY <3>1, <3>2 DEF ReconciledStatus
    <3>. QED BY <2>1, <2>2, <3>2 DEF RetiresIndex, IndexMatches
  <2>3. CASE d \notin batch
    BY <2>1, <2>3
  <2>. QED BY <2>2, <2>3
<1>3. CASE CommitComplete
  <2>1. [doc[d] EXCEPT !.life = "missing", !.eligible = FALSE,
                       !.status = "deleted", !.gone = TRUE].eligible = FALSE
    BY DEF DocRec
  <2>2. doc'[d] \in {doc[d],
                     [doc[d] EXCEPT !.life = "missing", !.eligible = FALSE,
                                    !.status = "deleted", !.gone = TRUE]}
    BY <1>3 DEF CommitComplete
  <2>. QED BY <1>1, <1>3, <2>1, <2>2 DEF CommitComplete, Withheld
<1>4. CASE FailRun
  <2>1. [doc[d] EXCEPT !.eligible = FALSE].eligible = FALSE
    BY DEF DocRec
  <2>2. doc'[d] \in {doc[d], [doc[d] EXCEPT !.eligible = FALSE]}
    BY <1>4 DEF FailRun
  <2>. QED BY <1>1, <1>4, <2>1, <2>2 DEF FailRun, Withheld
<1>5. \/ UNCHANGED <<doc, idx>> \/ UNCHANGED storeVars
      \/ CommitBatch \/ CommitComplete \/ FailRun
  BY DEF SyncStep, SyncNext, Recover, RecoverFail, ReadValidation,
         ClaimValidation, Probe, CommitValid, CommitInvalid, ClaimDueSource,
         StartDiscovery,
         NothingDue, ReadCollection, ListNothing, DiscoveryRaises,
         UpsertCollection, FenceDiscovery, CommitDiscovery, FailDiscovery,
         ReadQueuedRun, DropStaleRun, ClaimRun, LoadPlan, Scan, ScanRaises,
         FenceScan, FenceBatch, FenceComplete, Supersede, CommitRaises,
         JudgeFailure, HandlerFails
<1>. QED BY <1>1, <1>2, <1>3, <1>4, <1>5 DEF Withheld, storeVars

\* A child makes its document eligible together with its index.
LEMMA IndexEligible ==
  ASSUME TypeOK, EligibleHasIndex, IndexNext \/ IndexMishap, NEW d \in Docs
  PROVE  doc'[d].eligible => idx'[d].current
<1> USE DEF TypeOK, StoreTypeOK, EligibleHasIndex
<1>1. CASE Withheld(d)
  BY <1>1 DEF Withheld
<1>2. ASSUME NEW j \in Jobs, NEW status,
             doc' = [doc EXCEPT ![DocOf[j]].status = status], idx' = idx
      PROVE  Withheld(d)
  <2>1. DocOf[j] \in Docs
    BY DocOfAssumption
  <2>2. doc' = [doc EXCEPT ![DocOf[j]] =
                  [doc[DocOf[j]] EXCEPT !.status = status]]
    BY <1>2
  <2>3. [doc[DocOf[j]] EXCEPT !.status = status].eligible
          = doc[DocOf[j]].eligible
    BY <2>1 DEF DocRec
  <2>. QED BY <1>2, <2>1, <2>2, <2>3 DEF Withheld
<1>3. ASSUME NEW j \in Jobs, Publish(j)
      PROVE  doc'[d].eligible => idx'[d].current
  <2>1. CASE d = DocOf[j]
    BY <1>3, <2>1 DEF Publish
  <2>2. CASE d # DocOf[j]
    <3>1. doc'[d] = doc[d] /\ idx'[d] = idx[d]
      BY <1>3, <2>2 DEF Publish
    <3>. QED BY <3>1
  <2>. QED BY <2>1, <2>2
<1>4. ASSUME NEW j \in Jobs, FailDenied(j)
      PROVE  doc'[d].eligible => idx'[d].current
  <2>1. CASE d = DocOf[j]
    <3>1. doc'[d] = [doc[d] EXCEPT !.status = "failed",
                                   !.life = "access_revoked",
                                   !.eligible = FALSE]
      BY <1>4, <2>1 DEF FailDenied
    <3>2. doc'[d].eligible = FALSE
      BY <3>1 DEF DocRec
    <3>. QED BY <3>2
  <2>2. CASE d # DocOf[j]
    <3>1. doc'[d] = doc[d] /\ idx'[d] = idx[d]
      BY <1>4, <2>2 DEF FailDenied
    <3>. QED BY <3>1
  <2>. QED BY <2>1, <2>2
<1>5. CASE UNCHANGED <<doc, idx>>
  BY <1>1, <1>5 DEF Withheld
<1>6. ASSUME NEW j \in Jobs,
             StartChild(j) \/ MarkSuperseded(j) \/ PersistSkipped(j)
             \/ FailRetry(j) \/ FailForGood(j)
      PROVE  doc'[d].eligible => idx'[d].current
  <2>1. UNCHANGED idx
    BY <1>6 DEF StartChild, MarkSuperseded, PersistSkipped, FailRetry,
                FailForGood
  <2>2. doc' = doc \/ \E status : doc' = [doc EXCEPT ![DocOf[j]].status
                                                       = status]
    BY <1>6 DEF StartChild, MarkSuperseded, PersistSkipped, FailRetry,
                FailForGood
  <2>. QED BY <1>1, <1>2, <1>5, <2>1, <2>2
<1>7. \/ UNCHANGED <<doc, idx>>
      \/ \E j \in Jobs : \/ Publish(j) \/ FailDenied(j) \/ StartChild(j)
                         \/ MarkSuperseded(j) \/ PersistSkipped(j)
                         \/ FailRetry(j) \/ FailForGood(j)
  BY DEF IndexNext, IndexMishap, ChildNext, ParentNext, FailJob, Claim,
         CheckJob, Fetch, Build, FetchRaises, BuildRaises, Fence, Collect,
         FailSuperseded, StopChild, StopExited, RecoverJob, Stopped, Restart,
         Recovered, ChildDies, Timeout, Terminate, Stop, IndexCrash,
         storeVars
<1>. QED BY <1>3, <1>4, <1>5, <1>6, <1>7

(***************************************************************************)
(* retrieval_eligible is set only on a document that has a current index,  *)
(* in whatever order reconciliations, retirements, publications, denials   *)
(* and administrative operations commit.                                   *)
(***************************************************************************)
THEOREM EligibleIndexed == Spec => []EligibleHasIndex
<1>1. Init => EligibleHasIndex
  BY DEF Init, StoreInit, NoDoc, EligibleHasIndex
<1>2. TypeOK /\ EligibleHasIndex /\ [Next]_vars => EligibleHasIndex'
  <2> SUFFICES ASSUME TypeOK, EligibleHasIndex, [Next]_vars, NEW d \in Docs
               PROVE  doc'[d].eligible => idx'[d].current
    BY DEF EligibleHasIndex
  <2>1. CASE AdminStep
    BY <2>1, AdminWithholds DEF Withheld, EligibleHasIndex
  <2>2. CASE UNCHANGED <<doc, idx>>
    BY <2>2 DEF EligibleHasIndex
  <2>3. CASE ReindexStep
    BY <2>3, ReindexRow DEF EligibleHasIndex
  <2>4. \/ AdminStep \/ ReindexStep \/ SyncStep \/ IndexNext \/ IndexMishap
        \/ UNCHANGED <<doc, idx>>
    BY DEF Next, IndexStep, Disturbance, SourceChange, SyncCrash, vars,
           storeVars
  <2>. QED BY <2>1, <2>2, <2>3, <2>4, SyncEligible, IndexEligible
<1>. QED BY <1>1, <1>2, TypeCorrect, PTL DEF Spec

-----------------------------------------------------------------------------
(* The run.  The administrator queues a run or asks a running one for a    *)
(* follow-up, and never ends or starts one.                                *)
RunKept == run'.status = "running" <=> run.status = "running"

\* The administrator's operations neither start nor end a running run.
LEMMA AdminKeepsRun ==
  ASSUME TypeOK, AdminStep
  PROVE  RunKept
<1> USE DEF TypeOK, StoreTypeOK
<1>1. CASE UNCHANGED run
  BY <1>1 DEF RunKept
<1>2. CASE CancelQueuedWork
  BY <1>2 DEF CancelQueuedWork, NoRun, RunKept
<1>3. [run EXCEPT !.follow = TRUE].status = run.status
  BY DEF RunRec
<1>4. CASE ManualSync
  BY <1>3, <1>4 DEF ManualSync, NewRun, RunActive, RunKept
<1>5. ASSUME QueueFilterSync(NextFilter)
      PROVE  RunKept
  <2>1. [run EXCEPT !.config = source.config, !.filter = NextFilter].status
          = run.status
    BY DEF RunRec
  <2>2. run.status \in {"none", "queued", "running"}
    BY DEF RunRec
  <2>3. CASE run.status = "queued"
    BY <1>5, <2>1, <2>3 DEF QueueFilterSync, RunKept
  <2>4. CASE run.status = "running"
    BY <1>3, <1>5, <2>4 DEF QueueFilterSync, RunKept
  <2>5. CASE run.status = "none"
    BY <1>5, <2>5 DEF QueueFilterSync, NewRun, RunKept
  <2>. QED BY <2>2, <2>3, <2>4, <2>5
<1>. QED
  BY <1>1, <1>2, <1>4, <1>5
     DEF AdminStep, AdminNext, AdminOperation, EditSettings, EditConnection,
         RequestValidation, Disable, Enable, RequestPurge, Restore,
         SelectAll, SelectExplicitly, Deselect, SetSelection,
         ExcludeDocument, ExcludeCollection, DeleteExclusion, CreateIndexJob

\* The worker starts a run when it takes it up and ends it when it is done.
LEMMA SyncOwnsRun ==
  ASSUME TypeOK, RunOwned, SyncStep
  PROVE  RunOwned'
<1> USE DEF At
<1>1. \A pc : /\ Idle(pc).pc = pc
              /\ [sw EXCEPT !.pc = pc].pc = pc
  BY DEF Idle, TypeOK, SwTypeOK, SwRec
<1>2. /\ NoRun.status = "none"
      /\ SupersededRun.status \in {"none", "queued"}
      /\ [run EXCEPT !.status = "running"].status = "running"
      /\ \A c, config : QueueRun(NoRun, c, config).status # "running"
      /\ \A c, config : QueueRun(run, c, config).status = "running"
                          <=> run.status = "running"
  BY DEF NoRun, SupersededRun, NewRun, QueueRun, TypeOK, StoreTypeOK, RunRec
<1>3. CASE /\ ~Synchronizing /\ ~Synchronizing'
           /\ ~At("recover") /\ RunKept
  BY <1>3 DEF RunOwned, RunKept
<1>4. CASE Synchronizing /\ Synchronizing' /\ UNCHANGED run
  BY <1>4 DEF RunOwned
<1>5. CASE run'.status # "running" /\ ~Synchronizing'
  BY <1>5 DEF RunOwned
<1>6. CASE Recover \/ FailRun \/ Supersede
  BY <1>1, <1>2, <1>6
     DEF Recover, FailRun, Supersede, RunOwned, Synchronizing
<1>7. CASE RecoverFail \/ ClaimValidation \/ CommitValid \/ CommitInvalid
           \/ StartDiscovery \/ NothingDue \/ UpsertCollection
           \/ ListNothing \/ DiscoveryRaises \/ FailDiscovery
  BY <1>1, <1>3, <1>7
     DEF RecoverFail, ClaimValidation, CommitValid, CommitInvalid,
         StartDiscovery, NothingDue, UpsertCollection, ListNothing,
         DiscoveryRaises, FailDiscovery, Goto, Synchronizing, RunKept,
         storeVars
<1>8. CASE FenceDiscovery \/ \E valid \in BOOLEAN : Probe(valid)
  BY <1>1, <1>3, <1>8
     DEF FenceDiscovery, Probe, Goto, Synchronizing, RunKept, storeVars
<1>9. CASE ReadValidation \/ ClaimDueSource \/ ReadCollection
  <2>1. sw'.pc \in {"claimValidation", "due", "startDiscovery", "upsert"}
    BY ZenonT(30), <1>1, <1>9
       DEF ReadValidation, ClaimDueSource, ReadCollection, TypeOK,
           SwTypeOK, SwRec
  <2>. QED
    BY <1>3, <1>9, <2>1
       DEF ReadValidation, ClaimDueSource, ReadCollection, Synchronizing,
           RunKept, storeVars
<1>10. CASE CommitDiscovery
  BY <1>1, <1>2, <1>3, <1>10
     DEF CommitDiscovery, Synchronizing, RunKept
<1>11. CASE ReadQueuedRun
  <2>1. sw'.pc \in {"claimRun", "dropStale", "validate"}
    BY <1>1, <1>11 DEF ReadQueuedRun, TypeOK, SwTypeOK, SwRec
  <2>. QED
    BY <1>3, <1>11, <2>1 DEF ReadQueuedRun, Synchronizing, RunKept, storeVars
<1>12. CASE DropStaleRun
  <2>1. [SupersededRun EXCEPT !.status = "running"].status = "running"
    BY DEF SupersededRun, NewRun, NoRun
  <2>2. \A config, filter : [sw EXCEPT !.pc = "plan", !.config = config,
                                       !.filter = filter].pc = "plan"
    BY DEF TypeOK, SwTypeOK, SwRec
  <2>3. CASE SupersededRun.status = "queued"
    <3>1. /\ run' = [SupersededRun EXCEPT !.status = "running"]
          /\ sw' = [sw EXCEPT !.pc = "plan", !.config = SupersededRun.config,
                              !.filter = SupersededRun.filter]
      BY <1>12, <2>3 DEF DropStaleRun
    <3>2. run'.status = "running" /\ sw'.pc = "plan"
      BY <2>1, <2>2, <3>1
    <3>. QED BY <3>2 DEF RunOwned, Synchronizing
  <2>4. CASE SupersededRun.status # "queued"
    <3>1. run' = SupersededRun /\ sw' = Idle("validate")
      BY <1>12, <2>4 DEF DropStaleRun
    <3>. QED BY <1>1, <1>2, <1>5, <3>1 DEF Synchronizing
  <2>. QED BY <2>3, <2>4
<1>13. CASE ClaimRun
  <2>1. CASE run.status = "queued"
    <3>1. run'.status = "running" /\ sw'.pc = "plan"
      BY <1>1, <1>2, <1>13, <2>1 DEF ClaimRun, Goto
    <3>. QED BY <3>1 DEF RunOwned, Synchronizing
  <2>2. CASE run.status # "queued"
    <3>1. run' = run /\ sw'.pc = "validate"
      BY <1>1, <1>13, <2>2 DEF ClaimRun
    <3>. QED BY <1>3, <1>13, <3>1 DEF ClaimRun, Synchronizing, RunKept
  <2>. QED BY <2>1, <2>2
<1>14. CASE LoadPlan \/ Scan \/ (\E denied \in BOOLEAN : ScanRaises(denied))
            \/ CommitBatch
  <2>1. sw'.pc \in {"scan", "supersede", "fenceScan", "scanFailed",
                    "reconcile"}
    BY <1>14
       DEF LoadPlan, Scan, ScanRaises, CommitBatch, TypeOK, SwTypeOK, SwRec
  <2>. QED
    BY <1>4, <1>14, <2>1
       DEF LoadPlan, Scan, ScanRaises, CommitBatch, Synchronizing, storeVars
<1>15. CASE FenceScan \/ FenceBatch \/ FenceComplete \/ JudgeFailure
            \/ CommitRaises
  <2>1. sw'.pc \in {"reconcile", "supersede", "complete", "commitBatch",
                    "commitComplete", "failRun", "scanFailed"}
    <3>1. \E pc \in {"reconcile", "supersede", "complete", "commitBatch",
                     "commitComplete", "failRun", "scanFailed"} :
            sw' = [sw EXCEPT !.pc = pc]
      BY <1>15
         DEF FenceScan, FenceBatch, FenceComplete, JudgeFailure,
             CommitRaises, Goto
    <3>. QED BY <1>1, <3>1
  <2>. QED
    BY <1>4, <1>15, <2>1
       DEF FenceScan, FenceBatch, FenceComplete, JudgeFailure, CommitRaises,
           Synchronizing, storeVars
<1>16. CASE CommitComplete
  <2>1. run' = NoRun \/ run' = QueueRun(NoRun, collection', sw.config)
    BY <1>16 DEF CommitComplete
  <2>2. sw'.pc = "validate"
    BY <1>1, <1>16 DEF CommitComplete
  <2>. QED BY <1>2, <1>5, <2>1, <2>2 DEF Synchronizing
<1>17. CASE HandlerFails
  BY <1>1, <1>17 DEF HandlerFails, RunOwned, Synchronizing
<1>. QED
  BY <1>6, <1>7, <1>8, <1>9, <1>10, <1>11, <1>12, <1>13, <1>14, <1>15,
     <1>16, <1>17 DEF SyncStep, SyncNext

(***************************************************************************)
(* A claimed run stays running until the worker ends it, and a running run *)
(* is worked on or awaits recovery, unless the handler itself can fail.    *)
(***************************************************************************)
THEOREM RunKeptByWorker == Spec => []RunOwned
<1>1. Init => RunOwned
  BY DEF Init, StoreInit, SwInit, Idle, NoRun, RunOwned, Synchronizing, At
<1>2. TypeOK /\ RunOwned /\ [Next]_vars => RunOwned'
  <2> SUFFICES ASSUME TypeOK, RunOwned, [Next]_vars PROVE RunOwned'
    OBVIOUS
  <2>1. CASE RunKept /\ UNCHANGED sw
    BY <2>1 DEF RunKept, RunOwned, Synchronizing, At
  <2>2. CASE AdminStep
    BY <2>1, <2>2, AdminKeepsRun DEF AdminStep
  <2>3. CASE SyncStep
    BY <2>3, SyncOwnsRun
  <2>4. CASE SyncCrash
    BY <2>4 DEF SyncCrash, Idle, storeVars, RunOwned, Synchronizing, At
  <2>5. CASE UNCHANGED <<run, sw>>
    BY <2>1, <2>5 DEF RunKept
  <2>6. CASE IndexStep \/ (IndexMishap /\ UNCHANGED sw)
    <3>1. UNCHANGED run
      BY <2>6
         DEF IndexStep, IndexNext, IndexMishap, ChildNext, ParentNext,
             FailJob, Claim, StartChild, CheckJob, MarkSuperseded, Fetch,
             Build, FetchRaises, BuildRaises, Fence, Publish,
             PersistSkipped, Collect, FailSuperseded, FailDenied, FailRetry,
             FailForGood, Pass, StopChild, StopExited, RecoverJob, Stopped,
             Restart, Recovered, ChildDies, Timeout, Terminate, Stop,
             IndexCrash, storeVars
    <3>. QED BY <2>5, <2>6, <3>1 DEF IndexStep
  <2>. QED
    <3>1. ReindexStep => UNCHANGED <<run, sw>>
      BY ReindexRow
    <3>. QED
      BY <2>2, <2>3, <2>4, <2>5, <2>6, <3>1
         DEF Next, Disturbance, SourceChange, vars
<1>. QED BY <1>1, <1>2, TypeCorrect, PTL DEF Spec

-----------------------------------------------------------------------------
(* One job per revision.  Apart from reconciliation and reindexing nobody  *)
(* makes a row live, or gives a live one another revision.                 *)
LiveKept(j) == Live(j)' => Live(j) /\ job'[j].rev = job[j].rev

\* Superseding queued jobs makes no row live.
LEMMA DropQueuedKeepsLive ==
  ASSUME NEW D, NEW j \in Jobs, job'[j] = DropQueued(job, D)[j]
  PROVE  LiveKept(j)
  BY DEF DropQueued, LiveKept, Live, NoJob

\* The administrator makes no row live, unless a document is reindexed.
LEMMA AdminKeepsLive ==
  ASSUME "reindex" \notin AdminOps, AdminStep, NEW j \in Jobs
  PROVE  LiveKept(j)
<1>1. CASE UNCHANGED job
  BY <1>1 DEF LiveKept, Live
<1>2. CASE \/ CancelQueuedWork \/ ExcludeCollection
           \/ \E d \in Docs : ExcludeDocument(d)
  BY <1>1, <1>2, DropQueuedKeepsLive
     DEF CancelQueuedWork, ExcludeCollection, ExcludeDocument
<1>. QED
  BY <1>1, <1>2
     DEF AdminStep, AdminNext, AdminOperation, EditSettings, EditConnection,
         RequestValidation, Disable, Enable, RequestPurge, Restore,
         ManualSync, SelectAll, SelectExplicitly, Deselect, SetSelection,
         DeleteExclusion, CreateIndexJob

\* The index worker claims, requeues and ends jobs under their revision.
LEMMA IndexKeepsLive ==
  ASSUME TypeOK, JobInv, IndexNext \/ IndexMishap, NEW k \in Jobs
  PROVE  LiveKept(k)
<1> USE DEF TypeOK, StoreTypeOK
<1>1. CASE UNCHANGED job
  BY <1>1 DEF LiveKept, Live
<1>2. ASSUME NEW j \in Jobs, job' = [job EXCEPT ![j] = NoJob]
      PROVE  LiveKept(k)
  BY <1>2 DEF LiveKept, Live, NoJob
<1>3. ASSUME NEW j \in Jobs, Forget(j)
      PROVE  LiveKept(k)
  BY <1>1, <1>2, <1>3 DEF Forget
<1>4. ASSUME NEW j \in Jobs, NEW error, Judge(j, error)
      PROVE  LiveKept(k)
  BY <1>1, <1>3, <1>4 DEF Judge
<1>5. ASSUME NEW j \in Jobs, EndJob(j)
      PROVE  LiveKept(k)
  <2>1. [job[j] EXCEPT !.status = "terminal"].status = "terminal"
    BY DEF JobRec
  <2>2. job' = [job EXCEPT ![j] = [job[j] EXCEPT !.status = "terminal"]]
    BY <1>5 DEF EndJob
  <2>. QED BY <2>1, <2>2 DEF LiveKept, Live
<1>6. ASSUME NEW j \in Jobs, Claim(j)
      PROVE  LiveKept(k)
  <2>1. job' = [job EXCEPT ![j] = [job[j] EXCEPT
                                     !.status = "running",
                                     !.attempts = job[j].attempts + 1]]
    BY <1>6 DEF Claim
  <2>2. [job[j] EXCEPT !.status = "running",
                       !.attempts = job[j].attempts + 1].rev = job[j].rev
    BY DEF JobRec
  <2>3. Live(j)
    BY <1>6 DEF Claim, Live
  <2>. QED BY <2>1, <2>2, <2>3 DEF LiveKept, Live
<1>7. ASSUME NEW j \in Jobs, FailRetry(j)
      PROVE  LiveKept(k)
  <2>1. job' = [job EXCEPT ![j] = [job[j] EXCEPT !.status = "queued"]]
    BY <1>7 DEF FailRetry
  <2>2. [job[j] EXCEPT !.status = "queued"].rev = job[j].rev
    BY DEF JobRec
  <2>3. Live(j)
    BY <1>7 DEF FailRetry, Pass, JobInv, SlotInv, Live
  <2>. QED BY <2>1, <2>2, <2>3 DEF LiveKept, Live
<1>8. CASE IndexCrash
  BY <1>8 DEF IndexCrash, LiveKept, Live, NoJob
<1>9. ASSUME NEW j \in Jobs, ChildNext(j) \/ ChildDies(j)
      PROVE  LiveKept(k)
  BY <1>1, <1>5, <1>9
     DEF ChildNext, ChildDies, CheckJob, MarkSuperseded, Fetch, Build,
         FetchRaises, BuildRaises, Fence, Publish, PersistSkipped, storeVars
<1>10. ASSUME NEW j \in Jobs,
              Collect(j) \/ StopExited(j) \/ StopChild(j) \/ Timeout(j)
              \/ RecoverJob(j)
       PROVE  LiveKept(k)
  BY <1>3, <1>4, <1>10
     DEF Collect, StopExited, StopChild, Timeout, Terminate, RecoverJob
<1>11. ASSUME NEW j \in Jobs, StartChild(j) \/ FailJob(j)
       PROVE  LiveKept(k)
  BY <1>1, <1>2, <1>7, <1>11
     DEF StartChild, FailJob, FailSuperseded, FailDenied, FailForGood
<1>12. CASE Stopped \/ Restart \/ Recovered \/ Stop
  BY <1>1, <1>12 DEF Stopped, Restart, Recovered, Stop, storeVars
<1>. QED
  BY <1>6, <1>8, <1>9, <1>10, <1>11, <1>12
     DEF IndexNext, IndexMishap, ParentNext

\* Who makes no row live keeps live rows of one document apart.
LEMMA LiveKeptApart ==
  ASSUME OneJobPerRevision, \A j \in Jobs : LiveKept(j)
  PROVE  OneJobPerRevision'
  BY DEF OneJobPerRevision, LiveKept

\* Reconciliation queues a job only beside jobs of other revisions.
LEMMA SyncKeepsApart ==
  ASSUME TypeOK, OneJobPerRevision, SyncStep
  PROVE  OneJobPerRevision'
<1>1. CASE UNCHANGED job
  BY <1>1, LiveKeptApart DEF LiveKept, Live
<1>2. CASE FailRun
  BY <1>1, <1>2, LiveKeptApart, DropQueuedKeepsLive DEF FailRun
<1>3. CASE CommitBatch
  <2>1. PICK batch \in SUBSET sw.todo :
          LET wanted == {d \in batch : WantsJob(d)}
              excluded ==
                {d \in batch : Lifecycle(d, sw.obs[d]) = "excluded"} IN
          \E slot \in [wanted -> Jobs] :
            /\ \A d \in wanted : slot[d] \in FreeSlots(d)
            /\ job' = [k \in Jobs |->
                         IF DocOf[k] \in wanted /\ slot[DocOf[k]] = k
                         THEN NewJob(sw.obs[DocOf[k]], sw.config)
                         ELSE DropQueued(job, excluded)[k]]
    BY <1>3 DEF CommitBatch
  <2> DEFINE wanted == {d \in batch : WantsJob(d)}
             excluded ==
               {d \in batch : Lifecycle(d, sw.obs[d]) = "excluded"}
  <2>2. PICK slot \in [wanted -> Jobs] :
          job' = [k \in Jobs |->
                    IF DocOf[k] \in wanted /\ slot[DocOf[k]] = k
                    THEN NewJob(sw.obs[DocOf[k]], sw.config)
                    ELSE DropQueued(job, excluded)[k]]
    BY <2>1
  <2> DEFINE New(j) == DocOf[j] \in wanted /\ slot[DocOf[j]] = j
  <2>3. ASSUME NEW j \in Jobs, ~New(j)
        PROVE  LiveKept(j)
    BY <2>2, <2>3, DropQueuedKeepsLive
  <2>4. ASSUME NEW j \in Jobs, New(j), NEW k \in Jobs, j # k,
               DocOf[j] = DocOf[k], Live(k)'
        PROVE  job'[j].rev # job'[k].rev
    <3>1. job'[j].rev = sw.obs[DocOf[j]]
      BY <2>2, <2>4 DEF NewJob
    <3>2. ~New(k)
      BY <2>4
    <3>3. Live(k) /\ job'[k].rev = job[k].rev
      BY <2>3, <2>4, <3>2 DEF LiveKept
    <3>4. WantsJob(DocOf[j]) /\ k \in LiveJobs(DocOf[j])
      BY <2>4, <3>3 DEF LiveJobs
    <3>. QED BY <3>1, <3>3, <3>4 DEF WantsJob
  <2>5. ASSUME NEW j \in Jobs, NEW k \in Jobs, j # k, DocOf[j] = DocOf[k],
               Live(j)', Live(k)'
        PROVE  job'[j].rev # job'[k].rev
    <3>1. CASE New(j) \/ New(k)
      BY <2>4, <2>5, <3>1
    <3>2. CASE ~New(j) /\ ~New(k)
      BY <2>3, <2>5, <3>2 DEF LiveKept, OneJobPerRevision
    <3>. QED BY <3>1, <3>2
  <2>. QED BY <2>5 DEF OneJobPerRevision
<1>. QED
  BY <1>1, <1>2, <1>3
     DEF SyncStep, SyncNext, Recover, RecoverFail, ReadValidation,
         ClaimValidation, Probe, CommitValid, CommitInvalid, ClaimDueSource,
         StartDiscovery,
         NothingDue, ReadCollection, ListNothing, DiscoveryRaises,
         UpsertCollection, FenceDiscovery, CommitDiscovery, FailDiscovery,
         ReadQueuedRun, DropStaleRun, ClaimRun, LoadPlan, Scan, ScanRaises,
         FenceScan, FenceBatch, FenceComplete, CommitComplete, Supersede,
         CommitRaises, JudgeFailure, HandlerFails, storeVars

(***************************************************************************)
(* Unless the administrator reindexes, no two queued or running jobs of a  *)
(* document index the same revision: whatever is retried, cancelled or     *)
(* recovered between the batches that queue them.                          *)
(***************************************************************************)
THEOREM JobsApart ==
  ASSUME "reindex" \notin AdminOps
  PROVE  Spec => []OneJobPerRevision
<1>1. Init => OneJobPerRevision
  BY DEF Init, StoreInit, OneJobPerRevision, Live, NoJob
<1>2. TypeOK /\ JobInv /\ OneJobPerRevision /\ [Next]_vars
        => OneJobPerRevision'
  <2> SUFFICES ASSUME TypeOK, JobInv, OneJobPerRevision, [Next]_vars
               PROVE  OneJobPerRevision'
    OBVIOUS
  <2>1. CASE UNCHANGED job
    BY <2>1, LiveKeptApart DEF LiveKept, Live
  <2>2. CASE AdminStep
    BY <2>2, AdminKeepsLive, LiveKeptApart
  <2>3. CASE IndexNext \/ IndexMishap
    BY <2>3, IndexKeepsLive, LiveKeptApart
  <2>4. ReindexStep => UNCHANGED job
    BY ReindexRow
  <2>. QED
    BY <2>1, <2>2, <2>3, <2>4, SyncKeepsApart
       DEF Next, IndexStep, Disturbance, SourceChange, SyncCrash, storeVars,
           vars
<1>. QED BY <1>1, <1>2, TypeCorrect, JobsConsistent, PTL DEF Spec

-----------------------------------------------------------------------------
(* Contents.  With one child at a time, nobody else writes the document's  *)
(* directory between a child's fetch and its build.                        *)
Active(j) == child[j].pc # "none"

OneChild ==
  /\ \A j, k \in Jobs : Active(j) /\ Active(k) => j = k
  /\ worker \in {"down", "recovering"} =>
       \A j \in Jobs : child[j].pc \in {"none", "failing"}

SlotContent(j) ==
  /\ child[j].pc = "build" => scratch[DocOf[j]] = job[j].rev
  /\ child[j].pc \in {"fence", "publish"} => child[j].content = job[j].rev

ContentInv == OneChild /\ (\A j \in Jobs : SlotContent(j)) /\ IndexOfItsContent

\* A step of one slot, after which no other has a child.
Alone(j) ==
  \A k \in Jobs \ {j} : ~Active(k) /\ child'[k] = child[k]

\* What the index worker does to its children, one at a time.
LEMMA ChildAlone ==
  ASSUME Concurrency <= 1, TypeOK, OneChild, NEW j \in Jobs,
         \/ Claim(j) \/ StartChild(j) \/ Collect(j) \/ FailJob(j)
         \/ StopChild(j) \/ StopExited(j) \/ RecoverJob(j)
         \/ ChildNext(j) \/ ChildDies(j) \/ Timeout(j)
  PROVE  Alone(j) /\ UNCHANGED worker
<1> USE DEF TypeOK, IndexTypeOK
<1>1. UNCHANGED worker
  BY DEF Claim, StartChild, Collect, FailJob, FailSuperseded, FailDenied,
         FailRetry, FailForGood, Pass, StopChild, StopExited, RecoverJob,
         ChildDies, Timeout, Terminate, ChildNext, CheckJob, MarkSuperseded,
         Fetch, Build, FetchRaises, BuildRaises, Fence, Publish,
         PersistSkipped
<1>2. \A k \in Jobs \ {j} : child'[k] = child[k]
  BY DEF Claim, StartChild, Collect, FailJob, FailSuperseded, FailDenied,
         FailRetry, FailForGood, Pass, StopChild, StopExited, RecoverJob,
         ChildDies, Timeout, Terminate, ChildNext, CheckJob, MarkSuperseded,
         Fetch, Build, FetchRaises, BuildRaises, Fence, Publish,
         PersistSkipped, GoChild, Exit, Judge, Forget
<1>3. CASE Active(j)
  BY <1>1, <1>2, <1>3 DEF Alone, OneChild
<1>4. CASE Claim(j)
  <2>1. Cardinality(ActiveJobs) < Concurrency
    BY <1>4 DEF Claim
  <2>2. ASSUME NEW k \in Jobs, Active(k)
        PROVE  FALSE
    <3>1. ActiveJobs = {k}
      BY <2>2 DEF ActiveJobs, OneChild, Active
    <3>2. Cardinality(ActiveJobs) = 1
      BY <3>1, FS_Singleton
    <3>. QED BY <2>1, <3>2, ConcurrencyAssumption
  <2>. QED BY <1>1, <1>2, <2>2 DEF Alone
<1>5. CASE RecoverJob(j)
  BY <1>1, <1>2, <1>5 DEF RecoverJob, OneChild, Busy, Alone, Active
<1>6. Claim(j) \/ RecoverJob(j) \/ Active(j)
  BY DEF StartChild, Collect, FailJob, FailSuperseded, FailDenied,
         FailRetry, FailForGood, Pass, StopChild, StopExited,
         ChildDies, Timeout, Terminate, ChildNext, CheckJob, MarkSuperseded,
         Fetch, Build, FetchRaises, BuildRaises, Fence, Publish,
         PersistSkipped, Active, Alive
<1>. QED BY <1>3, <1>4, <1>5, <1>6

\* Such a step is judged at its slot.
LEMMA AloneSafe ==
  ASSUME TypeOK, ContentInv, NEW j \in Jobs, Alone(j), UNCHANGED worker,
         SlotContent(j)', IndexOfItsContent',
         worker \in {"down", "recovering"} =>
           child'[j].pc \in {"none", "failing"}
  PROVE  ContentInv'
<1>1. OneChild'
  BY DEF ContentInv, OneChild, Alone, Active
<1>2. \A k \in Jobs \ {j} : SlotContent(k)'
  BY DEF Alone, Active, SlotContent
<1>. QED BY <1>1, <1>2 DEF ContentInv

\* A child's steps keep contents and revisions together.
LEMMA ChildContent ==
  ASSUME Concurrency <= 1, TypeOK, ContentInv, NEW j \in Jobs,
         ChildNext(j) \/ ChildDies(j)
  PROVE  ContentInv'
<1> USE DEF TypeOK, StoreTypeOK, IndexTypeOK
<1>1. Alone(j) /\ UNCHANGED worker
  BY ChildAlone DEF ContentInv
<1>2. worker \notin {"down", "recovering"}
  BY DEF ContentInv, OneChild, ChildNext, ChildDies, CheckJob,
         MarkSuperseded, Fetch, Build, FetchRaises, BuildRaises, Fence,
         Publish, PersistSkipped, Alive
<1>3. DocOf[j] \in Docs
  BY DocOfAssumption
<1>4. ASSUME UNCHANGED idx
      PROVE  IndexOfItsContent'
  BY <1>4 DEF ContentInv, IndexOfItsContent
<1>5. ASSUME NEW error, Exit(j, error), UNCHANGED idx
      PROVE  ContentInv'
  <2>1. child'[j].pc = "exited"
    BY <1>5 DEF Exit, NoChild
  <2>. QED BY <1>1, <1>2, <1>4, <1>5, <2>1, AloneSafe DEF SlotContent
<1>6. ASSUME NEW pc \in {"mark", "fetch", "skip"}, GoChild(j, pc),
             UNCHANGED idx
      PROVE  ContentInv'
  <2>1. child'[j].pc = pc
    BY <1>6 DEF GoChild, ChildRec
  <2>. QED BY <1>1, <1>2, <1>4, <1>6, <2>1, AloneSafe DEF SlotContent
<1>7. CASE Fetch(j)
  <2>1. child'[j].pc = "build"
    BY <1>7 DEF Fetch, GoChild, ChildRec
  <2>2. scratch'[DocOf[j]] = job'[j].rev /\ UNCHANGED idx
    BY <1>3, <1>7 DEF Fetch, storeVars
  <2>. QED BY <1>1, <1>2, <1>4, <2>1, <2>2, AloneSafe DEF SlotContent
<1>8. CASE Build(j)
  <2>1. UNCHANGED <<idx, job>> /\ child[j].pc = "build"
    BY <1>8 DEF Build, storeVars
  <2>2. CASE GoChild(j, "skip")
    BY <1>6, <2>1, <2>2
  <2>3. CASE child' = [child EXCEPT ![j].pc = "fence",
                                    ![j].content = scratch[DocOf[j]]]
    <3>1. child' = [child EXCEPT ![j] =
                      [child[j] EXCEPT !.pc = "fence",
                                       !.content = scratch[DocOf[j]]]]
      BY <2>3
    <3>2. child'[j].pc = "fence" /\ child'[j].content = scratch[DocOf[j]]
      BY <3>1 DEF ChildRec
    <3>3. scratch[DocOf[j]] = job[j].rev
      BY <2>1 DEF ContentInv, SlotContent
    <3>. QED
      BY <1>1, <1>2, <1>4, <2>1, <3>2, <3>3, AloneSafe DEF SlotContent
  <2>. QED BY <1>8, <2>2, <2>3 DEF Build
<1>9. CASE Fence(j) /\ GoChild(j, "publish") /\ UNCHANGED job
  <2>1. child'[j].pc = "publish" /\ child'[j].content = child[j].content
    BY <1>9 DEF GoChild, ChildRec
  <2>2. UNCHANGED idx /\ child[j].content = job[j].rev
    BY <1>9 DEF Fence, ContentInv, SlotContent
  <2>. QED
    BY <1>1, <1>2, <1>4, <1>9, <2>1, <2>2, AloneSafe DEF SlotContent
<1>10. CASE Publish(j)
  <2>1. child[j].content = job[j].rev
    BY <1>10 DEF Publish, ContentInv, SlotContent
  <2>2. IndexOfItsContent'
    BY <1>3, <1>10, <2>1 DEF Publish, ContentInv, IndexOfItsContent
  <2>3. child'[j].pc = "exited"
    BY <1>10 DEF Publish, Exit, NoChild
  <2>. QED BY <1>1, <1>2, <2>2, <2>3, AloneSafe DEF SlotContent
<1>. QED
  BY <1>5, <1>6, <1>7, <1>8, <1>9, <1>10
     DEF ChildNext, ChildDies, CheckJob, MarkSuperseded, FetchRaises,
         BuildRaises, Fence, PersistSkipped, storeVars

\* So do the parent's.
LEMMA ParentContent ==
  ASSUME Concurrency <= 1, TypeOK, ContentInv,
         ParentNext \/ Stop \/ IndexCrash \/ (\E j \in Jobs : Timeout(j))
  PROVE  ContentInv'
<1> USE DEF TypeOK, StoreTypeOK, IndexTypeOK
<1>1. ASSUME UNCHANGED idx
      PROVE  IndexOfItsContent'
  BY <1>1 DEF ContentInv, IndexOfItsContent
<1>2. ASSUME NEW j \in Jobs,
             \/ Claim(j) \/ StartChild(j) \/ Collect(j) \/ FailJob(j)
             \/ StopChild(j) \/ StopExited(j) \/ RecoverJob(j) \/ Timeout(j),
             child'[j].pc \in {"claimed", "start", "none", "failing"},
             worker \in {"down", "recovering"} =>
               child'[j].pc \in {"none", "failing"},
             IndexOfItsContent'
      PROVE  ContentInv'
  <2>1. Alone(j) /\ UNCHANGED worker
    BY <1>2, ChildAlone DEF ContentInv
  <2>. QED BY <1>2, <2>1, AloneSafe DEF SlotContent
<1>3. ASSUME NEW j \in Jobs, Forget(j)
      PROVE  child'[j].pc = "none"
  BY <1>3 DEF Forget, NoChild
<1>4. ASSUME NEW j \in Jobs, NEW error, Judge(j, error)
      PROVE  child'[j].pc \in {"none", "failing"}
  <2>1. [NoChild EXCEPT !.pc = "failing",
                        !.note = Verdict(j, error)].pc = "failing"
    BY DEF NoChild
  <2>. QED BY <1>3, <1>4, <2>1 DEF Judge
<1>5. ASSUME NEW j \in Jobs,
             Collect(j) \/ StopChild(j) \/ StopExited(j) \/ RecoverJob(j)
             \/ Timeout(j)
      PROVE  ContentInv'
  <2>1. child'[j].pc \in {"none", "failing"} /\ UNCHANGED idx
    BY <1>3, <1>4, <1>5
       DEF Collect, StopChild, StopExited, RecoverJob, Timeout, Terminate
  <2>. QED BY <1>1, <1>2, <1>5, <2>1
<1>6. ASSUME NEW j \in Jobs, FailJob(j)
      PROVE  ContentInv'
  <2>1. child'[j].pc = "none"
    BY <1>6 DEF FailJob, FailSuperseded, FailDenied, FailRetry, FailForGood,
                Pass, NoChild
  <2>2. CASE UNCHANGED idx
    BY <1>1, <1>2, <1>6, <2>1, <2>2
  <2>3. CASE FailDenied(j)
    <3>1. idx' = [idx EXCEPT ![DocOf[j]] =
                    [idx[DocOf[j]] EXCEPT !.current = FALSE]]
      BY <2>3 DEF FailDenied
    <3>2. [idx[DocOf[j]] EXCEPT !.current = FALSE].current = FALSE
      BY DocOfAssumption DEF IdxRec
    <3>3. IndexOfItsContent'
      BY <3>1, <3>2 DEF ContentInv, IndexOfItsContent
    <3>. QED BY <1>2, <1>6, <2>1, <3>3
  <2>. QED BY <1>6, <2>2, <2>3
           DEF FailJob, FailSuperseded, FailRetry, FailForGood
<1>7. ASSUME NEW j \in Jobs, Claim(j)
      PROVE  ContentInv'
  <2>1. child'[j].pc = "claimed" /\ UNCHANGED idx /\ worker = "up"
    BY <1>7 DEF Claim, GoChild, ChildRec
  <2>. QED BY <1>1, <1>2, <1>7, <2>1
<1>8. ASSUME NEW j \in Jobs, StartChild(j)
      PROVE  ContentInv'
  <2>1. child'[j].pc = "start" /\ UNCHANGED idx
    BY <1>8 DEF StartChild, GoChild, ChildRec
  <2>2. worker \notin {"down", "recovering"}
    BY <1>8 DEF StartChild, ContentInv, OneChild
  <2>. QED BY <1>1, <1>2, <1>8, <2>1, <2>2
<1>9. CASE Stopped \/ Restart \/ Recovered \/ Stop
  <2>1. UNCHANGED <<idx, job, child, scratch>>
    BY <1>9 DEF Stopped, Restart, Recovered, Stop, storeVars
  <2>2. worker' \in {"down", "recovering"} =>
          \A j \in Jobs : child[j].pc \in {"none", "failing"}
    BY <1>9 DEF Stopped, Restart, Recovered, Stop, ActiveJobs, ContentInv,
                OneChild
  <2>. QED
    BY <1>1, <2>1, <2>2 DEF ContentInv, OneChild, SlotContent, Active
<1>10. CASE IndexCrash
  <2>1. \A j \in Jobs : child'[j].pc = "none"
    BY <1>10 DEF IndexCrash, NoChild
  <2>2. UNCHANGED idx
    BY <1>10 DEF IndexCrash
  <2>. QED BY <1>1, <2>1, <2>2 DEF ContentInv, OneChild, SlotContent, Active
<1>. QED BY <1>5, <1>6, <1>7, <1>8, <1>9, <1>10 DEF ParentNext

\* The other processes leave running jobs, children and files alone and at
\* most retire an index.
LEMMA OthersContent ==
  ASSUME TypeOK, JobInv, ContentInv, AdminStep \/ SyncStep
  PROVE  ContentInv'
<1> USE DEF TypeOK, StoreTypeOK
<1>1. UNCHANGED <<child, worker, scratch>>
  BY DEF AdminStep, SyncStep, indexVars
<1>2. ASSUME NEW j \in Jobs
      PROVE  SlotContent(j)'
  <2>1. CASE Alive(j)
    <3>1. job'[j] = job[j]
      BY <2>1, AdminRows, SyncRows DEF RowStep, JobInv, SlotInv
    <3>. QED BY <1>1, <3>1 DEF ContentInv, SlotContent
  <2>2. CASE ~Alive(j)
    BY <1>1, <2>2 DEF Alive, SlotContent
  <2>. QED BY <2>1, <2>2
<1>3. CASE UNCHANGED idx
  BY <1>1, <1>2, <1>3
     DEF ContentInv, OneChild, Active, IndexOfItsContent
<1>4. CASE CommitBatch
  <2>1. \A d \in Docs :
          [idx[d] EXCEPT !.current = FALSE].current = FALSE
    BY DEF IdxRec
  <2>2. \A d \in Docs :
          idx'[d] \in {idx[d], [idx[d] EXCEPT !.current = FALSE]}
    BY <1>4 DEF CommitBatch
  <2>3. IndexOfItsContent'
    BY <2>1, <2>2 DEF ContentInv, IndexOfItsContent
  <2>. QED BY <1>1, <1>2, <2>3 DEF ContentInv, OneChild, Active
<1>5. UNCHANGED idx \/ CommitBatch
  BY DEF AdminStep, AdminNext, AdminOperation, EditSettings, EditConnection,
         RequestValidation, Disable, Enable, RequestPurge, Restore,
         ManualSync, SelectAll, SelectExplicitly, Deselect, SetSelection,
         ExcludeDocument, ExcludeCollection, DeleteExclusion,
         CreateIndexJob, SyncStep, SyncNext, Recover, RecoverFail,
         ReadValidation, ClaimValidation, Probe, CommitValid, CommitInvalid,
         ClaimDueSource, StartDiscovery, NothingDue, ReadCollection,
         ListNothing, DiscoveryRaises, UpsertCollection, FenceDiscovery,
         CommitDiscovery, FailDiscovery, ReadQueuedRun, DropStaleRun,
         ClaimRun, LoadPlan, Scan, ScanRaises, FenceScan, FenceBatch,
         FenceComplete, CommitComplete, Supersede, CommitRaises,
         JudgeFailure, FailRun, HandlerFails, storeVars
<1>. QED BY <1>3, <1>4, <1>5

(***************************************************************************)
(* While one child at a time is at work, a current index was built from    *)
(* the content of its revision, whatever files a killed or terminated      *)
(* child leaves behind: the next one fetches before it builds.             *)
(***************************************************************************)
THEOREM IndexesFaithful ==
  ASSUME Concurrency <= 1
  PROVE  Spec => []IndexOfItsContent
<1>1. Init => ContentInv
  BY DEF Init, StoreInit, IndexInit, NoChild, NoIdx, ContentInv, OneChild,
         Active, SlotContent, IndexOfItsContent
<1>2. TypeOK /\ JobInv /\ ContentInv /\ [Next]_vars => ContentInv'
  <2> SUFFICES ASSUME TypeOK, JobInv, ContentInv, [Next]_vars
               PROVE  ContentInv'
    OBVIOUS
  <2>1. CASE UNCHANGED <<idx, job, child, worker, scratch>>
    BY <2>1 DEF ContentInv, OneChild, Active, SlotContent, IndexOfItsContent
  <2>2. CASE IndexNext \/ IndexMishap
    BY <2>2, ChildContent, ParentContent DEF IndexNext, IndexMishap
  <2>3. ReindexStep => UNCHANGED <<idx, job, child, worker, scratch>>
    BY ReindexRow
  <2>4. \/ AdminStep \/ SyncStep \/ IndexNext \/ IndexMishap
        \/ UNCHANGED <<idx, job, child, worker, scratch>>
    BY <2>3
       DEF Next, IndexStep, Disturbance, SourceChange, SyncCrash, storeVars,
           indexVars, vars
  <2>. QED BY <2>1, <2>2, <2>4, OthersContent
<1>3. ContentInv => IndexOfItsContent
  BY DEF ContentInv
<1>. QED BY <1>1, <1>2, <1>3, TypeCorrect, JobsConsistent, PTL DEF Spec
=============================================================================
