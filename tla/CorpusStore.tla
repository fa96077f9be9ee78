----------------------------- MODULE CorpusStore -----------------------------
(***************************************************************************)
(* The tables that ReasonKB's processes share through SQLite, restricted   *)
(* to one corpus source with one source collection (hence one project),    *)
(* and the predicates that more than one process evaluates over them.      *)
(*                                                                         *)
(* A job row is a slot: rows of one document reuse the slots DocOf assigns *)
(* to it once they are terminal and nobody refers to them.  There is one   *)
(* sync-run slot, because the schema admits one queued or running run per  *)
(* collection.                                                             *)
(***************************************************************************)
EXTENDS Integers, FiniteSets

CONSTANTS
  Docs,           \* the documents of the collection (external ids)
  Revs,           \* the source revisions a document can have
  BadRevs,        \* the revisions that are unsupported or oversized
  NoRev,          \* no such document / no such row
  Whole,          \* the target of an exclusion rule for the collection
  Jobs,           \* index job slots
  DocOf,          \* the document a slot's job indexes
  Scheduled,      \* TRUE: schedule_mode 'scheduled', FALSE: 'manual'
  MaxAttempts,    \* jobs.max_attempts
  MaxConfig,      \* bound on corpus_sources.config_revision
  MaxFilter       \* bound on source_collections.filter_revision

ASSUME RevsAssumption == BadRevs \subseteq Revs /\ NoRev \notin Revs
ASSUME WholeAssumption == Whole \notin Docs
ASSUME DocOfAssumption == DocOf \in [Jobs -> Docs]
ASSUME ScheduledAssumption == Scheduled \in BOOLEAN
ASSUME MaxAttemptsAssumption == MaxAttempts \in Nat \ {0}
ASSUME BoundsAssumption == MaxConfig \in Nat \ {0} /\ MaxFilter \in Nat

VARIABLES
  remote,      \* external: the revision of each document at the source
  source,      \* corpus_sources
  discovery,   \* a source_discovery_runs row is 'running'
  collection,  \* source_collections
  project,     \* projects
  rules,       \* source_exclusion_rules: targets that are excluded
  doc,         \* documents (with their source_items)
  idx,         \* document_indexes
  job,         \* jobs
  run          \* sync_runs

storeVars == <<remote, source, discovery, collection, project, rules, doc,
               idx, job, run>>

-----------------------------------------------------------------------------
SourceStates == {"draft", "validation_pending", "validating", "active",
                 "needs_attention", "disabled", "pending_purge"}
CollectionLives == {"pending", "active", "inactive", "missing", "excluded",
                    "access_revoked", "pending_purge"}
DocStatuses == {"none", "uploaded", "indexing", "ready", "failed", "skipped",
                "deleted"}
DocLives == {"none", "active", "excluded", "unsupported", "missing",
             "access_revoked"}
JobStatuses == {"none", "queued", "running", "terminal"}

\* next_sync_at is NULL, at most the present, or in the future.
Dues == {"null", "now", "later"}

Configs == 1 .. MaxConfig
Filters == 0 .. MaxFilter

SourceRec == [state : SourceStates, config : Configs, all : BOOLEAN,
              requested : BOOLEAN, unknown : BOOLEAN, due : Dues]
CollectionRec == [selected : BOOLEAN, life : CollectionLives,
                  filter : Filters]
ProjectRec == [life : CollectionLives, eligible : BOOLEAN]
DocRec == [status : DocStatuses, rev : Revs \cup {NoRev},
           config : Configs \cup {0}, life : DocLives, eligible : BOOLEAN,
           gone : BOOLEAN]
IdxRec == [rev : Revs \cup {NoRev}, content : Revs \cup {NoRev},
           current : BOOLEAN]
JobRec == [status : JobStatuses, rev : Revs \cup {NoRev},
           config : Configs \cup {0}, attempts : Nat]
RunRec == [status : {"none", "queued", "running"}, config : Configs,
           filter : Filters, follow : BOOLEAN]

NoDoc == [status |-> "none", rev |-> NoRev, config |-> 0, life |-> "none",
          eligible |-> FALSE, gone |-> FALSE]
NoIdx == [rev |-> NoRev, content |-> NoRev, current |-> FALSE]
NoJob == [status |-> "none", rev |-> NoRev, config |-> 0, attempts |-> 0]
NoRun == [status |-> "none", config |-> 1, filter |-> 0, follow |-> FALSE]

StoreTypeOK ==
  /\ remote \in [Docs -> Revs \cup {NoRev}]
  /\ source \in SourceRec
  /\ discovery \in BOOLEAN
  /\ collection \in CollectionRec
  /\ project \in ProjectRec
  /\ rules \subseteq Docs \cup {Whole}
  /\ doc \in [Docs -> DocRec]
  /\ idx \in [Docs -> IdxRec]
  /\ job \in [Jobs -> JobRec]
  /\ run \in RunRec

(***************************************************************************)
(* A source that was validated once, with policy 'all' and its collection  *)
(* discovered and enabled, before the first synchronization.               *)
(***************************************************************************)
StoreInit ==
  /\ remote \in [Docs -> Revs \cup {NoRev}]
  /\ source = [state |-> "active", config |-> 1, all |-> TRUE,
               requested |-> FALSE, unknown |-> FALSE,
               due |-> IF Scheduled THEN "now" ELSE "null"]
  /\ discovery = FALSE
  /\ collection = [selected |-> TRUE, life |-> "pending", filter |-> 0]
  /\ project = [life |-> "pending", eligible |-> FALSE]
  /\ rules = {}
  /\ doc = [d \in Docs |-> NoDoc]
  /\ idx = [d \in Docs |-> NoIdx]
  /\ job = [j \in Jobs |-> NoJob]
  /\ run = NoRun

-----------------------------------------------------------------------------
Exists(d) == doc[d].status # "none"
Live(j) == job[j].status \in {"queued", "running"}
LiveJobs(d) == {j \in Jobs : DocOf[j] = d /\ Live(j)}
FreeSlots(d) == {j \in Jobs : DocOf[j] = d /\ job[j].status = "none"}
RunActive == run.status # "none"

\* 'queued' job rows of the documents in D become 'superseded'.
DropQueued(jobs, D) ==
  [j \in Jobs |-> IF DocOf[j] \in D /\ jobs[j].status = "queued"
                  THEN NoJob ELSE jobs[j]]

NewJob(rev, config) ==
  [status |-> "queued", rev |-> rev, config |-> config, attempts |-> 0]
NewRun(config, filter) ==
  [status |-> "queued", config |-> config, filter |-> filter,
   follow |-> FALSE]

(***************************************************************************)
(* The eligibility fence of the index worker: a job whose revision,        *)
(* configuration, source, collection, project or document moved on is      *)
(* superseded.                                                             *)
(***************************************************************************)
JobSuperseded(j) ==
  LET d == DocOf[j] IN
  \/ job[j].rev # doc[d].rev
  \/ job[j].config # source.config
  \/ source.state # "active"
  \/ ~collection.selected
  \/ collection.life \in {"inactive", "missing", "pending_purge"}
  \/ project.life \notin {"pending", "active"}
  \/ doc[d].life # "active"

(***************************************************************************)
(* The fence of a sync run that started under config and filter, evaluated *)
(* on a collection row c (a transaction may have changed it already).      *)
(***************************************************************************)
Syncable(c) ==
  /\ source.state = "active"
  /\ c.selected
  /\ c.life \notin {"missing", "access_revoked"}
  /\ Whole \notin rules

RunCurrent(config, filter) ==
  /\ Syncable(collection)
  /\ source.config = config
  /\ collection.filter = filter

(***************************************************************************)
(* What the retrieval API serves: a ready document with a current index in *)
(* an active project, collection and source.                               *)
(***************************************************************************)
Retrievable(d) ==
  /\ doc[d].status = "ready" /\ ~doc[d].gone
  /\ doc[d].life = "active" /\ doc[d].eligible
  /\ idx[d].current
  /\ project.life = "active" /\ project.eligible
  /\ source.state = "active"
  /\ collection.selected /\ collection.life = "active"
=============================================================================
