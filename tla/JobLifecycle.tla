----------------------------- MODULE JobLifecycle ------------------------------
(***************************************************************************)
(* What the jobs table promises of index jobs, seen from outside.  A job   *)
(* is queued with a fresh budget, claimed at the price of an attempt, and  *)
(* either ends or is queued again while an attempt is left.  A queued job  *)
(* may be cancelled, or given a fresh budget by the administrator; a       *)
(* running one ends only by its worker's hand: it is never cancelled and   *)
(* never claimed twice.  One step may concern any number of jobs.          *)
(***************************************************************************)
EXTENDS Naturals

CONSTANTS
  Jobs,         \* job slots
  MaxAttempts,  \* jobs.max_attempts
  Resting       \* the statuses in which no worker will touch a job

VARIABLES
  status,    \* jobs.status
  attempts   \* jobs.attempt_count

vars == <<status, attempts>>

Init == \A j \in Jobs : status[j] \in Resting /\ attempts[j] = 0

Enqueue(j) ==
  /\ status[j] \in Resting \cup {"queued"}
  /\ status'[j] = "queued" /\ attempts'[j] = 0

Cancel(j) == status[j] = "queued" /\ status'[j] \in Resting

Claim(j) ==
  /\ status[j] = "queued" /\ attempts[j] < MaxAttempts
  /\ status'[j] = "running" /\ attempts'[j] = attempts[j] + 1

Requeue(j) ==
  /\ status[j] = "running" /\ attempts[j] < MaxAttempts
  /\ status'[j] = "queued" /\ attempts'[j] = attempts[j]

End(j) == status[j] = "running" /\ status'[j] \in Resting

Forget(j) == status[j] \in Resting /\ status'[j] \in Resting

Keep(j) == status'[j] = status[j] /\ attempts'[j] = attempts[j]

Next ==
  \A j \in Jobs : \/ Enqueue(j) \/ Cancel(j) \/ Claim(j) \/ Requeue(j)
                  \/ End(j) \/ Forget(j) \/ Keep(j)

Spec == Init /\ [][Next]_vars
=============================================================================
