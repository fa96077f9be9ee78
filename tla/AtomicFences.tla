----------------------------- MODULE AtomicFences ------------------------------
(***************************************************************************)
(* The promises that hold as soon as a fence and the write it guards are   *)
(* one step.  The behaviours are those of the pipeline in which no other   *)
(* process commits between a block's last read and its first write, as if  *)
(* every such transaction were opened with BEGIN IMMEDIATE: they tell      *)
(* whether the fences ask for enough, apart from when they are evaluated.  *)
(***************************************************************************)
EXTENDS DocumentedPromises

\* A process is between the check and the write of one transaction.
SyncWriting ==
  sw.pc \in {"claimValidation", "commitValid", "commitInvalid", "upsert",
             "commitDiscovery", "dropStale", "claimRun", "commitBatch",
             "commitComplete"}
ChildWriting(j) == child[j].pc \in {"mark", "publish", "failing"}

AtomicNext ==
  /\ PromiseNext
  /\ SyncWriting => sw' # sw
  /\ \A j \in Jobs : ChildWriting(j) => child'[j] # child[j]

AtomicSpec == PromiseInit /\ [][AtomicNext]_promiseVars
=============================================================================
