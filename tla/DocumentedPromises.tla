-------------------------- MODULE DocumentedPromises ---------------------------
(***************************************************************************)
(* What the architecture decision records and the design document say of   *)
(* the pipeline and the code does not keep.  A run of its own refutes each *)
(* of them, except two that AtomicFences alone uses: ExcludedNotServed and *)
(* ReturnIsFenced, which fail here for the same reason as                  *)
(* ServedRevisionIsExpected.  PROJECT.json quotes the sentences.           *)
(***************************************************************************)
EXTENDS MCPipeline

\* The project has been in retrieval before.
VARIABLE activated

promiseVars == <<mcVars, activated>>

PromiseInit == MCInit /\ activated = FALSE
PromiseNext == MCNext /\ activated' = (activated \/ project.eligible)
PromiseSpec == PromiseInit /\ [][PromiseNext]_promiseVars
PromiseFairSpec == PromiseSpec /\ Fairness

-----------------------------------------------------------------------------
(* A validation ends in an answer: the source becomes active or needs      *)
(* attention (ADR 0054).  _validate_source and _fail_validation return     *)
(* without one when the configuration revision moved, and an edit of the   *)
(* settings moves it without requesting another validation.                *)
ValidationResolves ==
  source.state = "validating" ~> source.state # "validating"

(* Background work does not undo a deactivation (ADR 0053): only the       *)
(* administrator takes a source out of 'disabled' and 'pending_purge'.     *)
Deactivated == {"disabled", "pending_purge"}
WorkerNeverReactivates ==
  [][source.state \in Deactivated /\ source'.state \notin Deactivated =>
       UNCHANGED sw]_vars

(* An index is published only while the document still expects its         *)
(* revision (ADR 0048), so none of another revision is servable.           *)
ServedRevisionIsExpected == \A d \in Docs : ~Stale(d)

(* An exclusion rule fences every synchronization that started before it   *)
(* (ADR 0063): what the rule excludes is not retrievable.                  *)
ExcludedNotServed == \A d \in Docs : Excluded(d) => ~Retrievable(d)

(* A manual request made during a run is not forgotten when that run ends  *)
(* (ADR 0052): a run is queued, or the source is still due.                *)
FollowUpKept ==
  [][run.follow /\ run'.status = "none" => source'.due # "null"]_vars

(* A project returns to retrieval only by a synchronization of the current *)
(* configuration, selection and principal (ADR 0054 and 0055).             *)
ReturnIsFenced == [][~project.eligible /\ project'.eligible => Current]_vars

(* A failed scan does not change the presence of a known collection (ADR   *)
(* 0005): between two passes of an active source, a project that was in    *)
(* retrieval is still in it.                                               *)
FailedScanKeepsServing ==
  activated /\ At("validate") /\ source.state = "active" =>
    project.eligible \/ RunActive
=============================================================================
