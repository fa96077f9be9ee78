----------------------------- MODULE SourceAdmin -----------------------------
(***************************************************************************)
(* The administration API of the web process.  An operation is one         *)
(* transaction (better-sqlite3 is synchronous), hence one action; only     *)
(* reindexing a document takes two, and the web process, being single      *)
(* threaded, serves no other request in between.  AdminOps names the       *)
(* operations a configuration may call.                                    *)
(***************************************************************************)
EXTENDS CorpusStore

VARIABLE reindexing   \* the document between the two transactions, if any

CONSTANT AdminOps

ASSUME AdminOpsAssumption ==
  AdminOps \subseteq {"settings", "rotate", "principal", "validate",
                      "disable", "enable", "purge", "restore", "sync",
                      "select", "explicit", "deselect", "exclude",
                      "exclude_all", "include", "reindex"}

-----------------------------------------------------------------------------
(* corpus-source-store.ts: updateCorpusSource                              *)

\* Name, schedule or size limit only: the state and a pending validation
\* request are kept as they are.
EditSettings ==
  /\ "settings" \in AdminOps /\ source.config < MaxConfig
  /\ source' = [source EXCEPT !.config = @ + 1]
  /\ UNCHANGED <<remote, discovery, collection, project, rules, doc, idx,
                 job, run>>

\* Connection settings or credentials, with the same principal or another.
EditConnection(samePrincipal) ==
  /\ (IF samePrincipal THEN "rotate" ELSE "principal") \in AdminOps
  /\ source.config < MaxConfig
  /\ source' = [source EXCEPT
                  !.config = @ + 1, !.requested = TRUE, !.unknown = TRUE,
                  !.state = IF @ = "draft" THEN "draft"
                            ELSE IF @ = "active" /\ samePrincipal
                            THEN "active" ELSE "validation_pending"]
  /\ project' = IF samePrincipal THEN project
                ELSE [project EXCEPT !.eligible = FALSE]
  /\ UNCHANGED <<remote, discovery, collection, rules, doc, idx, job, run>>

-----------------------------------------------------------------------------
(* source-lifecycle-store.ts                                               *)

RequestValidation ==
  /\ "validate" \in AdminOps
  /\ source.state \notin {"disabled", "pending_purge"}
  /\ source' = [source EXCEPT !.requested = TRUE, !.unknown = TRUE]
  /\ UNCHANGED <<remote, discovery, collection, project, rules, doc, idx,
                 job, run>>

\* Mutation: running work is cancelled too.
CancelAllWork ==
  /\ job' = DropQueued(job, Docs)
  /\ run' = NoRun

\* Queued jobs and the queued run of the source become superseded.
CancelQueuedWork ==
  /\ job' = DropQueued(job, Docs)
  /\ run' = IF run.status = "queued" THEN NoRun ELSE run

Disable ==
  /\ "disable" \in AdminOps
  /\ source' = [source EXCEPT !.state = "disabled", !.due = "null"]
  /\ project' = [life |-> "inactive", eligible |-> FALSE]
  /\ CancelQueuedWork
  /\ UNCHANGED <<remote, discovery, collection, rules, doc, idx>>

Enable ==
  /\ "enable" \in AdminOps
  /\ source.state \in {"disabled", "needs_attention"}
  /\ source' = [source EXCEPT !.state = "validation_pending",
                              !.requested = TRUE, !.unknown = TRUE]
  /\ UNCHANGED <<remote, discovery, collection, project, rules, doc, idx,
                 job, run>>

RequestPurge ==
  /\ "purge" \in AdminOps
  /\ source' = [source EXCEPT !.state = "pending_purge"]
  /\ collection' = [collection EXCEPT !.life = "pending_purge"]
  /\ project' = [life |-> "pending_purge", eligible |-> FALSE]
  /\ CancelQueuedWork
  /\ UNCHANGED <<remote, discovery, rules, doc, idx>>

Restore ==
  /\ "restore" \in AdminOps
  /\ source.state = "pending_purge"
  /\ source' = [source EXCEPT !.state = "disabled", !.unknown = TRUE]
  /\ collection' = [collection EXCEPT !.life = "inactive"]
  /\ project' = [life |-> "inactive", eligible |-> FALSE]
  /\ UNCHANGED <<remote, discovery, rules, doc, idx, job, run>>

ManualSync ==
  /\ "sync" \in AdminOps
  /\ source.state = "active"
  /\ source' = [source EXCEPT !.due = "now"]
  /\ run' = IF ~collection.selected THEN run
            ELSE IF RunActive THEN [run EXCEPT !.follow = TRUE]
            ELSE NewRun(source.config, collection.filter)
  /\ UNCHANGED <<remote, discovery, collection, project, rules, doc, idx,
                 job>>

-----------------------------------------------------------------------------
(* source-collection-store.ts: setCollectionSelectionPolicy                *)

\* Policy 'none' deselects, 'all' and an explicit choice of the collection
\* select it; neither touches queued runs or jobs.
SetSelection(op, all, selected) ==
  /\ op \in AdminOps
  /\ LET life == IF Whole \in rules THEN "excluded"
                 ELSE IF selected THEN "pending" ELSE "inactive" IN
       /\ source' = [source EXCEPT !.all = all]
       /\ collection' = [collection EXCEPT !.selected = selected,
                                           !.life = life]
       /\ project' = [life |-> life, eligible |-> FALSE]
  /\ UNCHANGED <<remote, discovery, rules, doc, idx, job, run>>

SelectAll == SetSelection("select", TRUE, TRUE)
SelectExplicitly == SetSelection("explicit", FALSE, TRUE)
Deselect == SetSelection("deselect", FALSE, FALSE)

-----------------------------------------------------------------------------
(* source-exclusion-store.ts                                               *)

\* queueFilterSync, under the new filter revision f: the source becomes due,
\* a queued run is moved to the current revisions, a running one is asked
\* for a follow-up, and otherwise a run is queued.
QueueFilterSync(f) ==
  LET eligible == source.state = "active" /\ collection.selected IN
  /\ source' = IF eligible THEN [source EXCEPT !.due = "now"] ELSE source
  /\ run' = IF ~eligible THEN run
            ELSE CASE run.status = "queued" ->
                        [run EXCEPT !.config = source.config, !.filter = f]
                   [] run.status = "running" -> [run EXCEPT !.follow = TRUE]
                   [] OTHER -> NewRun(source.config, f)

\* Mutation: a rule does not advance the filter revision.
SameFilter == collection.filter

NextFilter == collection.filter + 1

ExcludeDocument(d) ==
  /\ "exclude" \in AdminOps /\ NextFilter <= MaxFilter
  /\ Exists(d) /\ d \notin rules
  /\ rules' = rules \cup {d}
  /\ collection' = [collection EXCEPT !.filter = NextFilter]
  /\ IF doc[d].gone THEN UNCHANGED <<doc, job>>
     ELSE /\ doc' = [doc EXCEPT ![d].life = "excluded",
                                ![d].eligible = FALSE]
          /\ job' = DropQueued(job, {d})
  /\ QueueFilterSync(NextFilter)
  /\ UNCHANGED <<remote, discovery, project, idx>>

ExcludeCollection ==
  /\ "exclude_all" \in AdminOps /\ NextFilter <= MaxFilter
  /\ Whole \notin rules
  /\ rules' = rules \cup {Whole}
  /\ collection' = [collection EXCEPT !.filter = NextFilter,
                                      !.life = "excluded"]
  /\ project' = [life |-> "excluded", eligible |-> FALSE]
  /\ LET present == {d \in Docs : Exists(d) /\ ~doc[d].gone} IN
       /\ doc' = [d \in Docs |->
                    IF d \in present
                    THEN [doc[d] EXCEPT !.life = "excluded",
                                        !.eligible = FALSE]
                    ELSE doc[d]]
       /\ job' = DropQueued(job, present)
  /\ QueueFilterSync(NextFilter)
  /\ UNCHANGED <<remote, discovery, idx>>

DeleteExclusion(t) ==
  /\ "include" \in AdminOps /\ NextFilter <= MaxFilter
  /\ t \in rules
  /\ rules' = rules \ {t}
  /\ collection' = [collection EXCEPT !.filter = NextFilter]
  /\ QueueFilterSync(NextFilter)
  /\ UNCHANGED <<remote, discovery, project, doc, idx, job>>

-----------------------------------------------------------------------------
(* The reindex route: job-store.ts createIndexJob, then document-store.ts  *)
(* resetDocumentForReindex                                                 *)

\* A queued job of the document is reset to the document's revisions with a
\* fresh budget, a running one is left alone, otherwise one is queued.
CreateIndexJob(d) ==
  /\ "reindex" \in AdminOps
  /\ Exists(d) /\ ~doc[d].gone /\ doc[d].life = "active"
  /\ source.state = "active" /\ doc[d].config = source.config
  /\ collection.selected
  /\ collection.life \in {"pending", "active"}
  /\ project.life \in {"pending", "active"}
  /\ \E j \in IF LiveJobs(d) = {} THEN FreeSlots(d) ELSE LiveJobs(d) :
       job' = IF job[j].status = "running" THEN job
              ELSE [job EXCEPT ![j] = NewJob(doc[d].rev, doc[d].config)]
  /\ reindexing' = {d}
  /\ UNCHANGED <<remote, source, discovery, collection, project, rules, doc,
                 idx, run>>

\* The document is 'uploaded' again, whatever its job has done by now.
ResetForReindex ==
  /\ reindexing # {} /\ reindexing' = {}
  /\ doc' = [d \in Docs |-> IF d \in reindexing /\ ~doc[d].gone
                            THEN [doc[d] EXCEPT !.status = "uploaded"]
                            ELSE doc[d]]
  /\ UNCHANGED <<remote, source, discovery, collection, project, rules, idx,
                 job, run>>

\* The web process dies between the two transactions and is restarted.
WebDies == reindexing # {} /\ reindexing' = {} /\ UNCHANGED storeVars

-----------------------------------------------------------------------------
AdminInit == reindexing = {}
AdminTypeOK == reindexing \subseteq Docs

AdminOperation ==
  \/ EditSettings
  \/ \E samePrincipal \in BOOLEAN : EditConnection(samePrincipal)
  \/ RequestValidation
  \/ Disable
  \/ Enable
  \/ RequestPurge
  \/ Restore
  \/ ManualSync
  \/ SelectAll
  \/ SelectExplicitly
  \/ Deselect
  \/ \E d \in Docs : ExcludeDocument(d)
  \/ ExcludeCollection
  \/ \E t \in Docs \cup {Whole} : DeleteExclusion(t)

AdminNext ==
  /\ reindexing = {}
  /\ \/ AdminOperation /\ UNCHANGED reindexing
     \/ \E d \in Docs : CreateIndexJob(d)

ReindexNext == ResetForReindex \/ WebDies
=============================================================================
