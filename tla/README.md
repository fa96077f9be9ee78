# ReasonKB: a TLA+ model

ReasonKB mirrors document sources (local directories, SMB shares, Seeyon
archives) into a SQLite store, indexes the documents and answers questions over
what is indexed. Several processes share that store without any lock held
across an operation: a web process (administration API), a source worker
(validation, discovery, synchronization), an index worker with one child
process per job, and a retrieval API. What may be retrieved at a moment is
decided by the columns those processes write, each on the strength of what it
read before.

Around that pipeline stand the parts that users and operators meet: an MCP gateway
and a web server with administrator sessions, API keys, chat, settings and an item
browser; the semantic index; the migration of a source to another URL and the
maintenance that deletes what is no longer kept; the migrations of the database
itself.

This directory models the pipeline and these parts, checks them on small instances
with TLC and proves with TLAPS, for all instances, every invariant and action property
those runs find to hold. Paths below are relative to the repository (`services/...` is
`src/services/...` in `PROJECT.json`).

## 1. Inventory

| Component | State it keeps | Operations | Interacts by | What is hard | What makes it correct |
| --- | --- | --- | --- | --- | --- |
| Shared store (`web/lib/db/schema.sql`) | sources, collections, projects, rules, documents, indexes, jobs, runs | | rows read and written by every process | no operation of the Python processes holds a lock from its reads to its writes | a document is served only with a current index of its revision |
| Administration (`web/lib/repos/*-store.ts`) | none of its own | edit, validate, disable, enable, purge, restore, sync, select, exclude, include, reindex | immediate transactions on the rows; cancels queued jobs and runs | acts at any moment of the workers' operations | its decision takes effect at once and late work does not undo it |
| Source worker (`services/source_worker/engine.py`) | the claimed row, exclusion plan, observations | recover, validate, discover, scan, reconcile in batches, complete, supersede, fail | rows; connectors | each block reads, calls out or decides, then writes; crashes; failing handlers | every claimed run ends; only authoritative scans of the current revision change visibility |
| Index worker (`services/index_worker/worker.py`) | active children | claim, start, collect, time limit, stop, recover, retry | job rows; child processes, exit codes and an error queue | kills, crashes, time limits racing the child's commit | each job is owned, ends, and keeps to its retry budget |
| Index child (`index_document.py`, `remote_fetch.py`) | payload, a directory per document | check, fetch, build, publish, skip, discard | rows; the directory; the connector | the document moves on while it builds; two children of one document | an index is published only for the expected revision, with that revision's content |
| Retrieval API (`services/retrieval_api`) | per request | select documents, gather evidence, answer, stream | reads rows; model calls | deadlines, cancelled streams, partial failures | only retrievable documents are seen |
| Source migration (`source-migration-store.ts`, `engine.py`) | `corpus_source_migrations`, its runs, plan and candidate items | request, validate, plan, scan under the target, preflight, confirm, apply, fail, cancel, recover | rows; excludes ordinary runs of its source | read and write are two steps of the worker, the administrator falls between; a restart; one run superseded of several | applied when everything was scanned at the target; it ends and gives the source back |
| Registered collections (`source-collection-store.ts`) | registration and validation state | register, validate, deregister | rows | interrupted validation, re-registration | a collection is synchronized only once valid |
| Seeyon token cache (`connectors/seeyon.py`) | tokens, leases | get, authenticate, invalidate | shared dictionaries of the index worker | leases that expire, dying owners | one authentication at a time, no stale token reinstated |
| Semantic index (`services/common/semantic_index.py`) | generations, leases, vectors | create a generation, claim, backfill, confirm, activate, retire, degrade, release | rows; the settings; publications of the index children | settings and documents that change during a step; leases that expire under a worker that goes on | vectors are those of their index; in the end the wanted model serves every document |
| Maintenance (`services/source_worker/maintenance.py`) | purge queue, files | due purges, retention, removal of queued files and old directories | rows and files, both also written by the index children | reads in one step and deletes in a later one; restores and late conversions in between; removals that fail | files of a purged source stay queued until they are gone; no index that is back in service is deleted |
| MCP gateway (`web/mcp-server.mjs`) | sessions, requests under way, counters of authentications, controls and tools | POST of a call, a notification, an initialization, a cancellation; DELETE; timers; shutdown | HTTP to the web server; the transport of the MCP SDK; a retrieval stream | callbacks of one request between the awaits of others; ids used again; capacity checked before the session exists | every request answered once, no tool or session left behind |
| Retrieval stream (`retrieval-client.ts`, `mcp-server.mjs`) | buffer, where to scan from | read a chunk, find an event's end, hand the event on, end | the retrieval API's server-sent events | line ends cut by chunks, both kinds of them | events handed on in order, as soon as they are complete |
| Conversations (`conversation-store.ts`, `app/api/chat/send`, `chat-composer.tsx`) | messages, titles, the composer of a tab | create, choose projects, send, stream, persist, title | rows; retrieval API | clients that leave, failing streams, two places that store the answer, restarts | an answer is stored once, and before it is seen |
| Administrator sessions (`admin-auth-store.ts`, `app/api/admin/auth`) | credential, sessions, cookies | bootstrap, log in, change and reset the password, log out, expire | rows; cookies | a login between the comparison of the password and its session | a new password ends the earlier sessions |
| API keys (`api-key-store.ts`, `api-key-manager.tsx`) and agent access (`agent-auth.ts`, `app/api/agent`) | keys, audit events, the page; grants and the corpus's projects | create, revoke, list; check a key, query projects | rows; the page's calls; retrieval API | answers in another order than the writes; projects that leave between check and search | the page is never ahead of the store; a key is told only of what it grants |
| System settings (`system-settings-form.tsx`, `system-settings-store.ts`, `server-env-file.ts`) | three forms, table, environment file | load, edit, save, switch the projects root, start | rows; a file the next start reads | pages loaded earlier; models split by the page and rebuilt by the route; a save that fails at the file or between file and table | a save changes what was touched; a recorded switch is completed |
| Database migrations (`db/migrate.ts`, `db/migrations.ts`, `db/legacy-corpus-migration.ts`) | `schema_migrations`, old documents and files, a purge queue | migrate, reject, purge files | rows and files at each start | killed and rejected starts | a file exists as long as its document, and is queued after |
| Item browser (`admin-source-manager.tsx`, `source-observability-store.ts`) | collection, folder, items, cursor, requests under way | select, open, back, load more, exclude, restore, timer | keyset queries over rows the worker writes | answers late and in any order, pages over moving rows | what it shows is a listing of the folder |
| Connectors, PageIndex runtime, model access, telemetry, other pages, CLI, deployment | see `PROJECT.json` | | | I/O and pure computation | |

`PROJECT.json` lists every component with its sources and what of it is
modelled, and under `hazards` each place in the code where something hard to
test can go wrong, with the properties that would show it.

## 2. Modules

```
 CorpusStore        rows shared by all processes, and the predicates over them
   |- SourceAdmin   the administration API: one action per operation
   |- SyncWorker    the source worker: one action per block between two windows
   |- IndexWorker   the index worker's parent and children
        |
 CorpusPipeline     the four over one store, fairness, the properties
   |- JobLifecycle  abstract: what the jobs table promises (INSTANCE)
   |- MCPipeline    model values, bounds
   |    |- DocumentedPromises   sentences of the docs the code does not keep
   |         |- AtomicFences    the same sentences with atomic fences
   |- PipelineTypes, PipelineProofs, FenceProofs   theorems

 McpGateway         requests, sessions and tools of the MCP gateway
 RetrievalStream    server-sent events cut into chunks
 Chat               turns: composer, route, stored messages
 AdminSessions      the administrator's password, sessions, cookies
 ApiKeys            keys, their audit trail, the page that shows them
 AgentAccess        what a key is granted while the corpus changes
 Settings           the forms, the table, the environment file
 SemanticIndex      generations and leases
 Migrations         starts that migrate the database
 SourceMigration    a source moves to another URL
 SourceMaintenance  purges, retention and the queue of files
 ItemBrowser        pages of a folder, answered late
        |
 MCWeb              one of them runs (Parts): McpGateway, Chat, ApiKeys and
                    AgentAccess extended, the others instantiated

 ServiceProofs      theorems of McpGateway, Chat, ApiKeys and AgentAccess
 StreamProofs       of RetrievalStream
 PartProofs         of AdminSessions, Settings, Migrations, SourceMaintenance
                    and SemanticIndex
 RelocationProofs   of SourceMigration
 BrowserProofs      of ItemBrowser, and the types of all twelve
```

### What is an action

The web process uses better-sqlite3, which is synchronous, with
`runImmediateTransaction` around each operation: an operation is one action.
(`job-store.ts` uses a deferred transaction, which is atomic in effect.) The
reindex route is the exception: it runs two transactions, `CreateIndexJob` and
`ResetForReindex`; the process is single threaded, so no other request comes
between them (`AdminNext` waits for `reindexing = {}`), but the workers do, and
the process may die there (`WebDies`).

The Python processes use the `sqlite3` module's default transaction control: a
transaction opens at the first INSERT, UPDATE, DELETE or REPLACE statement. A
SELECT at the start of a `with open_db(...)` block is therefore outside the
transaction that the block's first write opens, and another process may commit
in between. A block that checks and then writes is two actions: `FenceBatch` and
`CommitBatch`, `FenceComplete` and `CommitComplete`, `Fence` and `Publish`,
`ReadValidation` and `ClaimValidation`, and so on; `sw` and `child` hold what the
first one read. Reads behind the first write belong to the second action. The
claim of a job is a single UPDATE that begins with WITH, for which the module
opens no transaction: it commits by itself, so the update of the document that
follows is a second action (`Claim`, `StartChild`).

Where a read and the write that follows it cannot be told apart from one action,
they are one: `ClaimDueSource` compares and swaps `next_sync_at`, the state and
the configuration in its WHERE clause. `ReadQueuedRun` merges the two queries of
`_claim_sync_run` (the list of stale runs and the row to claim); a change
between them that makes the run stale only costs the code one more iteration, in
which the run is superseded.

The modules of the second group follow the same rule. What the web server or the
gateway does between two awaits is one action (both are single threaded), and an
await is a place where anything else may happen: in `McpGateway` the body, the
authentication, the transport's answer; in `Chat` the body, the retrieval stream;
in `AgentAccess` the body between the check of the key and the reads that use it. In
`AdminSessions` the password command is another process, so the comparison of a
password and the insertion of its session are two steps. A page of the browser is
its state and the calls it has under way: an answer is served (it takes what the
store has) and delivered (the page takes it, or finds it outdated) in two steps,
between which the store and the page move. `SemanticIndex` has one action per
statement, since the worker holds no transaction across the model's call.
`SourceMigration` splits each transaction of the worker that reads before its first
write, as in the pipeline.

### State

| TLA+ | Code |
| --- | --- |
| `source.state`, `.config`, `.requested`, `.due` | `corpus_sources.state`, `config_revision`, `validation_requested_at IS NOT NULL`, `next_sync_at` (`null`, `now`: at most the present, `later`: in the future, and may have come when the worker looks) |
| `source.unknown` | `health_state = 'unknown'` with `validated_at` NULL; other health states are display only |
| `source.all` | `selection_policy = 'all'` |
| `collection.selected`, `.life`, `.filter` | `selected`, `lifecycle_state`, `filter_revision` |
| `project.life`, `.eligible` | `projects.lifecycle_state`, `retrieval_eligible` |
| `rules` | `source_exclusion_rules`; `Whole` stands for the collection |
| `doc[d]` | `documents` and its `source_items` row: `status`, `expected_source_revision`, `expected_source_config_revision`, `lifecycle_state`, `retrieval_eligible`, `deleted_at IS NOT NULL` |
| `idx[d]` | `document_indexes`: `source_revision`, `is_current`; `content` is a ghost: the revision of the bytes the index was built from |
| `job[j]` | a row of `jobs`. `terminal` stands for completed, failed, superseded while the parent still refers to the row; `none` is a slot to reuse |
| `run` | the queued or running row of `sync_runs`; the schema admits one per collection |
| `discovery` | a row of `source_discovery_runs` is `running` |
| `sw` | the local variables of `SourceWorkerEngine.run_once` |
| `child[j]`, `worker` | `ActiveDocumentJob`, its process, and the parent |
| `scratch[d]` | the directory `REMOTE_CACHE_ROOT/<document>` |
| `remote[d]` | external: the revision of the document at the source |

In the pipeline a source is modelled from its first successful validation on, with one
discovered collection (one project). One collection is enough for the fences,
which compare rows of one source, collection and document; the interference of
two collections of one source is limited to the source row. (`SourceMigration` has
two.)

Each module of the second group names the columns and fields its variables stand
for in its declarations. What they leave out of the data: a password is its place in
the order they came into force, a key or a message is its name, a text of the
stream is a sequence of line ends and data lines, a field of the settings is a number (0
is empty where the field may be), a model is a provider's prefix, or none, and a name
(`llm-model-format.ts`), and what is saved is what the table has or else the
environment, which does not change between starts; an item is an id with a name, a folder and the change that last touched it, a
scan at a migration's target tells only whether the items match.

Two of them say what a query or a text amounts to rather than how it is computed. In
`ItemBrowser` a page is the first `Limit` elements of `Ordered(found, Before)`: the one
sequence of the rows found, each once, in which every row is `Before` the next (the
query's ORDER BY); `Lies` is its WHERE clause and `Unknown` the filter of `loadMore`. In
`RetrievalStream` `Frames` puts line ends behind each event by position and `DataIn`
collects the data lines of a text, a recursive function over its length.

## 3. Runs

| Run | Configuration | Shows |
| --- | --- | --- |
| `index_faults` | one document, two revisions, two slots and two children at a time, all failures of the index worker | `TypeOK`, `RunningJobOwned`, `RetryBudget`, `OneJobPerRevision`, `EligibleHasIndex`, `ImplementsJobLifecycle`, `StaleOnlyByLatePublish` |
| `sync_faults` | a manual source, two documents in two batches, all failures of the source worker but a locked database, edits, disabling, purging, restoring, exclusion of the collection | `RunOwned`, `RunEnds`, `DueMarkerCleared`, `ValidationAnswered` |
| `converges` | a scheduled source, all administrative operations but credential rotation, crashes, kills, time limits, shutdown, an unsupported revision | `IndexOfItsContent`, `ExcludedOnlyByLateBatch`, `Converges`, `JobEnds` |
| `atomic_fences` | the promises below once a fence and its write are one step, with failing commits and handlers (a locked database), administration, two slots | `ServedRevisionIsExpected`, `ExcludedNotServed`, `ReturnIsFenced` |
| `web` | the twelve modules of the second group, one at a time | their safety and action properties, `TypeOK` |
| `services` | gateway, semantic index, source migration, with fairness | `AlwaysAnswered`, `DesiredServed`, `MigrationEnds`, `SessionCapacity`, `NoSessionAfterShutdown` |
| six more | see below | promises of the documentation that fail |

### The pipeline

`MCPipeline` gives each configuration a `Budget`: how many interventions (of the
administrator, the source or a mishap) may happen. The workers are not bounded,
nor are a builder's and a connector's failures (`fetch`, `build`, `skip`,
`scan`, `busy`, ...), which are outcomes of their steps. The other bounds are the
number of job slots per document, `MaxConfig` and `MaxFilter` (revisions), `Docs`
and `Revs`, `MaxAttempts` (2 instead of 6) and `BatchSize` 1.

Two revisions are enough for 'an older one and the current one', and since
`SourceChange` may go back to an earlier revision also for one that recurs; two
slots for an overtaken job beside the current one; two or three interventions
for a process to be overtaken twice, or for a source to be disabled, enabled and
edited during one operation. `CommitBatch` waits when no slot is free, which the
code never does; the slot is freed by the index worker, whose fairness lets the
wait end. A run takes a few seconds to three minutes (`converges`).

A property is checked in the run whose faults could break it: `EligibleHasIndex`
where children of two revisions publish beside each other, `RunOwned` where
queued runs are cancelled and the worker crashes, `ExcludedOnlyByLateBatch` where
rules change during batches.

`sync_faults` lets the index worker do nothing (`Concurrency` 0): its properties
are about the source worker alone, which never waits for a job to end.
`OneJobPerRevision` is checked without reindexing: `createIndexJob` resets a
queued job of the document, of whatever revision, to the current one, and the
model lets it pick any live job where the code picks the one created last.
`ValidationAnswered` says of every behaviour that a requested validation is claimed
(or the source disabled or purged), and of those without an edit that it is answered:
an edit may leave it unanswered (`validation_resolves` below, and an edit of the
credentials between the read and the write of a claim).
`atomic_fences` does not check for deadlock: a block that holds a fence excludes
all other writers, also the one that would free the job slot it waits for, which
is an artefact of the bounded slots. The other runs of the pipeline check it.

### The other parts

The parts share no state with the pipeline or each other, so `MCWeb` runs them one
at a time: `Init` chooses which (`Parts`). The four parts that `MCWeb` extends
rest in one of their initial states while another runs, and their properties are
checked as the theorems state them; the variables of the others have no value, and
their properties say for which part they hold. The sum has as many states
as its parts together, the product would multiply them and show nothing more. Both
runs have `CHECK_DEADLOCK FALSE`: a part stops when its bounded requests, starts or
events are used up.

| Part | Bounds | Why they are enough |
| --- | --- | --- |
| gateway, `web` | two requests (a finished one is forgotten and its place used again), one session entry, one id, one authentication, control request and tool at a time, both modes | a call and its cancellation, its deletion, its duplicate or its successor with the same id, and a second request that a limit refuses; the theorems hold for any number of each |
| gateway, `services` | two requests, two entries, capacity 1, two authentications and tools | two initializations overlap with an entry too many to take: what `SessionCapacity` and `NoSessionAfterShutdown` need; with one entry the capacity cannot be exceeded |
| chat | two turns, two conversations, restarts | turns of one conversation or of two, beside each other |
| stream | up to three events, each line end, cuts anywhere | an event ahead, one that is cut, one that follows; progress after the result |
| sessions | two browsers, two session rows, two passwords | a session of each password; a browser that logs in while the other changes it |
| keys | two keys, two calls of the page | an answer that overtakes another |
| access | two projects, one agent | granted and not granted, served and not |
| settings | two pages of three forms, two saves under way at once (`MaxSaves`), three roots, one of them what a start mounts when the line in the file is lost (`Torn`); one value of a field besides empty, models with a prefix or none (`Providers`), one event (`MaxEvents`) | one page loaded before the other saved, and two forms that save at once; an event is an edit, a change of root begun or an edit of the file, after which saves, failures and starts are free. An installation differs from a plain one in its fields, in its models, or in its file and recorded root, one of the three (`Mixed` is off); all three, and both providers, hold `SettingsInv` in 1.5 million states, too many to repeat in each run |
| semantic | two models, one document with two indexes, two workers, four generations, two events | a worker that outlives its lease beside its successor, an index replaced during a call, a model wanted again |
| migrations | two documents, three starts | a killed or rejected start, its repetition and a quiet one |
| browser | a folder and a document at the root and a third item; a page of one row, two names, two requests at a time, one rule, one change unknown to the page | rows before and after a cursor, equal names that the id tells apart, a page asked for in one folder and answered in another |
| relocation | two collections, two migrations, one change of rules per collection, two events (`web`), one (`services`) | one collection scanned and one not; an edit and a restart, a failure and a cancellation. Liveness with two events would not end in time |
| upkeep | one document, both passes, any number of purges, restorations, ageings and children | each race is of one document's files and rows with the pass; the children of two documents and their files do not meet (with two documents `SourceMaintenance` alone shows no violation either, in 6.4 million states, too many to repeat in each run) |

In `Settings` the values matter only as 'as loaded' and 'touched', a model's prefix as
one the form knows or none. In
`SemanticIndex` four generations are what two models and an invalidated generation
need; the branch in which the insertion of a generation finds one of the same
model made meanwhile is reached only with more of them. In `ItemBrowser` folders lie
at the root, so that a path is empty or one folder; `BrowserInit` takes both given
items at the root with one name.

### Fairness

`FairSpec` assumes that the source worker's loop goes on (`WF(SyncStep)`), that
the index worker's loop goes on and it is restarted when it died
(`WF(ParentNext)`), that children run (`WF(ChildNext(j))`), and that a time in
the future comes (`SF(ClaimDueSource)`). The code justifies this: both loops
catch every exception of an iteration (`services/source_worker/worker.py:41`), or
end the process, and every service has `restart: unless-stopped` in
`docker/compose.yml`; a restart begins with recovery. The schedule is fixed
intervals and a capped backoff, so a due time comes; strong fairness is needed
because each pass looks once and goes on. Connector calls are assumed to return
(the HTTP connector has time limits, the local one reads files). Neither the
administrator, nor the source, nor any failure has to act.

In `services` fairness is owed by the part that runs. In the gateway, by the
callbacks of each request (`Progress`: the transport, the tool's end, the
`finally`) and its timers (`Deadline`), because Node runs both; the
authentication service, the client's body and the client itself need not answer. In
the semantic index, by each worker's steps, by the expiry of a lease and by the
time of the next try of a degraded generation (the clock); the administrator, the
publications and the failures are bounded and need not come. In a source migration,
by the worker's loop (`Work`), whose order of work the code fixes; the
administrator need not confirm: a migration that is rejected until somebody confirms
it has ended (`failed`) and excludes no ordinary work.

### Documented promises the code does not keep

Each of these runs checks one sentence of the documentation and TLC finds the
behaviour that breaks it; `PROJECT.json` quotes the sentence and the line.

| Run | What happens |
| --- | --- |
| `served_revision` | A child passes its fence, reconciliation moves the document to a new revision and retires the index, the child publishes the old one, which is served. |
| `reactivation` | A source is disabled during its validation, which then makes it active. |
| `validation_resolves` | The settings are edited during a validation, whose answer is dropped: the source stays `validating` until the worker restarts. |
| `follow_up` | A manual source's run fails and the synchronization requested meanwhile is forgotten. |
| `cancelled_migration` | The administrator cancels a migration while the worker probes the target; the worker then sets it `syncing` by its id alone, scans and applies it. |
| `failed_scan` | Each discovery pass takes the project out of retrieval until its scan succeeds, so a failed scan leaves it out. |

`AtomicFences` separates two causes. It keeps only the behaviours in which no
process commits between a block's last read and first write, as with
`BEGIN IMMEDIATE`. `ServedRevisionIsExpected` then holds, and so do two more
promises that fail without atomic fences: `ExcludedNotServed` (a batch passes its
fence, a rule excludes the document, the batch makes it active again: ADR 0063)
and `ReturnIsFenced` (a run passes its completion fence, the principal changes and
the project leaves retrieval, the run puts it back: ADR 0055). These fences ask
for enough, they are evaluated too early. The promises of the other runs are
broken by what the code does, at whatever time it does it.

### Behaviours the model shows and no property forbids

- A discovery that raises leaves its record `running` until the worker restarts
  (`FailDiscovery`), which blocks source migration until then.
- A child whose job was superseded may still mark the document `skipped`
  (`PersistSkipped` has no fence); the next run of the current revision repairs
  it, which `Converges` covers.
- Two children of one document share its directory, and each removes it when it
  leaves: the other then finds no file, or the wrong one, and the job is retried.
- Deselecting a collection cancels nothing that is queued, though ADR 0053 says
  so; the work is superseded when it is claimed.
- Reindexing: the queued job may be claimed, and even published, before the
  second transaction sets the document back to `uploaded`. A current document is
  then withheld until a later synchronization reconciles it; for a manual source,
  until somebody synchronizes it. (`Converges` covers the scheduled source.)
- A job queued under an older configuration keeps `_queue_index_job` from
  queueing one for the same revision; the index worker supersedes it and the
  next run queues another.
- `fail_document_job` leaves the document of a superseded job `indexing`.
- With two children per document and a revision that recurs, an index may be
  built from other content than its revision names; `IndexOfItsContent` is
  checked for one child at a time.
- A successful validation after an edit schedules no synchronization for a
  manual source.
- If the handler of a failed run fails itself (`HandlerFails`), the run stays
  `running` until the worker restarts; `RunOwned` excepts configurations with
  that fault.
- `stop_active_jobs` drops the error of a child that reported one and exited; the
  job is charged as lost at the next start.

- The backoff of a source (`engine.py:43`) and of a job (`worker.py:435`) grows with
  the count and is jittered; only 'later' is modelled. The claim's order
  (`worker.py:34`: priority, then jobs in flight of the source and project) is
  'any queued job', so that a low priority may wait for ever behind a stream of
  reindexing is neither shown nor excluded.
- A collection whose rules or selection changed since the migration's plan is left
  out when the migration is applied, and when its run was the last one to be
  superseded nothing looks at the migration again: it stays `syncing` until it is
  cancelled or the worker restarts. `AppliedAsScanned` and `MigrationEnds` except
  changed collections.
- Confirming a migration does not look for another active one of the source.
- A pass reads which purges are due before its first write opens a transaction
  (`maintenance.py:60`): a source that is restored in between, with success, is
  purged (`RestoreSource` between `ReadDue` and `PurgeSource`), though it is said to
  be restorable until the purge completes (`docs/multi-source-corpus-context.md`).
- A child that fetched before a purge and converts after it leaves a PDF that no
  pass will find; `LeftOnlyByLateConversion` says that nothing else does.
- A file that could not be removed stays queued, and may be removed between a later
  conversion's check that it exists and the build that reads it; the job is retried.
- The passes remove the cache directory of a purged document while its child may
  still read it; that child fails, and its job is gone.
- The item browser stops its timer with the first status that shows no active run;
  items read before the run's last batch then stay on the page
  (`admin-source-manager.tsx:834`). A failed load of the items leaves an empty
  list, and the next answer to the status request clears the error, so that the
  folder looks empty.
- A login whose password was compared before a reset and stored after it opens a
  session of the earlier password, until that expires.
- A page of settings that was opened before another one saved writes its older
  values back.
- Saving the language model's form stores a model that names no provider as one of
  OpenAI: of `gpt-4o` from the environment it makes `openai/gpt-4o`, of `deepseek/x`
  `openai/deepseek/x`, also when only the concurrency was edited
  (`settings/route.ts:154`). `KeptUnlessTouched` says that nothing else is rewritten.
- A write of the environment file that fails has emptied it first
  (`server-env-file.ts:48`), so that the line of the root may be lost or cut short
  although nothing was recorded.
- Without `REASONKB_ENV_FILE_PATH`, which only `docker/compose.release.yml` sets, a
  switch of the root is recorded and no start completes it unless the operator writes
  the file (`settings/route.ts:134`); `SwitchCompletes` excepts such a save.

## 4. Proofs

The theorems hold for every value of the constants that satisfies the named
assumptions below; TLC evaluates them in the runs of the module.

| Assumptions | Say |
| --- | --- |
| those of `CorpusStore`, `SourceAdmin`, `SyncWorker`, `IndexWorker` | bad revisions are revisions, slots belong to documents, bounds are natural numbers, the fault and operation sets contain known names |
| `TurnsFinite`, `NoConvAssumption` (`Chat`) | finitely many turns; the value for 'no conversation' is no conversation, turn or list of messages |
| `GatewayConfig`, `SlotsFinite` (`McpGateway`) | positive limits, which the gateway checks when it starts; finitely many session entries |
| `PartsKnown`, `StreamBounds`, `SessionBounds`, `SettingsBounds`, `SemanticBounds`, `MigrationBounds`, `RelocationBounds` (`MCWeb`) | the parts have known names, bounds are natural numbers, the first root, the root of a torn file and the first model exist, providers are those the form knows or none, nobody is no session |
| `BrowserBounds` (`MCWeb`) | items and names are positive numbers, finitely many items, folders are items, a page has at least one row |

Those of `ApiKeys` and `AgentAccess` assume nothing. Two theorems name a configuration
in their own assumptions: no reindexing for `JobsApart`, one child at a time for
`IndexesFaithful`, the configurations in which the runs check these properties (§3 says
why the code needs them).

| Theorem | Module | States |
| --- | --- | --- |
| `TypeCorrect` | `PipelineTypes` | `Spec => []TypeOK` |
| `JobsConsistent` | `PipelineProofs` | `Spec => []JobInv` |
| `BudgetKept` | `PipelineProofs` | `Spec => []RetryBudget` |
| `JobsOwned` | `PipelineProofs` | `Spec => []RunningJobOwned` |
| `LifecycleImplemented` | `PipelineProofs` | `Spec => ImplementsJobLifecycle` |
| `EligibleIndexed` | `PipelineProofs` | `Spec => []EligibleHasIndex` |
| `RunKeptByWorker` | `PipelineProofs` | `Spec => []RunOwned` |
| `JobsApart` | `PipelineProofs` | without reindexing, `Spec => []OneJobPerRevision` |
| `IndexesFaithful` | `PipelineProofs` | with `Concurrency <= 1`, `Spec => []IndexOfItsContent` |
| `StaleOnlyLate` | `FenceProofs` | `Spec => StaleOnlyByLatePublish` |
| `ExcludedOnlyLate` | `FenceProofs` | `Spec => ExcludedOnlyByLateBatch` |
| `AtomicServesExpected` | `FenceProofs` | `AtomicSpec => []ServedRevisionIsExpected` |
| `AtomicExcludes` | `FenceProofs` | `AtomicSpec => []ExcludedNotServed` |
| `AtomicReturns` | `FenceProofs` | `AtomicSpec => ReturnIsFenced` |
| `ChatConsistent` | `ServiceProofs` | `ChatSpec => []ChatInv` |
| `AnsweredOnce` | `ServiceProofs` | `ChatSpec => []OneAnswer` |
| `SeenKept` | `ServiceProofs` | `ChatSpec => []SeenIsStored` |
| `CancelledStoresNothing` | `ServiceProofs` | `ChatSpec => AbandonedUnanswered` |
| `ResponsesRelease` | `ServiceProofs` | `McpSpec => [](McpTypeOK /\ NothingOutlivesItsResponse)` |
| `SessionsBounded` | `ServiceProofs` | `McpSpec => []SessionCapacity` |
| `ShutdownCloses` | `ServiceProofs` | `McpSpec => []NoSessionAfterShutdown` |
| `GrantKept` | `ServiceProofs` | `AgentSpec => [](AgentTypeOK /\ ToldWithinGrant)` |
| `PageTells` | `ServiceProofs` | `KeySpec => [](KeyTypeOK /\ PageTellsStore)` |
| `EventsDeliveredAsSent` | `StreamProofs` | `Spec => []DeliveredAsSent` |
| `NewPasswordEndsSessions` | `PartProofs` | `Spec => OutdatedOnlyByOvertakenLogin` |
| `OnlyTouchedSettingsChange` | `PartProofs` | `Spec => KeptUnlessTouched` |
| `RootSwitchCompletes` | `PartProofs` | `Spec => SwitchCompletes` |
| `UploadsAccounted` | `PartProofs` | `Spec => []FilesAccounted` |
| `RetentionKeepsServed` | `PartProofs` | `Spec => ServedIndexKept` |
| `OrphansOnlyOfLateConversions` | `PartProofs` | `Spec => LeftOnlyByLateConversion` |
| `VectorsMatchTheirIndex` | `PartProofs` | `Spec => []VectorsOfTheirIndex` |
| `MigrationAppliedAsScanned` | `RelocationProofs` | `Spec => AppliedAsScanned` |
| `BrowserShowsStore` | `BrowserProofs` | `Spec => []ShownAsStored` |
| `TypesCorrect` | `BrowserProofs` | `Spec => []TypeOK` |

From `EventsDeliveredAsSent` on, `Spec` is that of `MCWeb`. The invariant of an
instantiated component is of the form 'while its part runs' there, since its variables
have no value otherwise; `TypesCorrect` joins the types of all twelve, by showing that
the steps of each part are steps of that component's own specification.

**Jobs.** Neither `RetryBudget` nor `RunningJobOwned` is inductive: that a
requeued job has an attempt left depends on the verdict the parent took before,
and that nobody requeues a running job depends on which processes may touch its
row. `JobInv` says, for each slot, which status its row has at each point of its
child, how many attempts it has used, that a job judged 'retry' has one left,
and that a running job without a child is found only while the index worker is
stopping, down or recovering. Web process and source worker change queued rows and free slots only
(`RowStep`); the index worker's actions are taken one by one. The same case
analysis shows that each step is a step of `JobLifecycle`, or keeps the slot.

**Eligibility.** `EligibleHasIndex` is inductive with the types: reconciliation
sets the flag only together with a matching current index, and every step that
retires an index clears it. `Publish` sets both.

**Runs.** `RunOwned` is inductive with the types. Outside of the worker only queued
runs change (`RunKept`); of the worker's steps, `ClaimRun` makes the run running as
it goes to 'plan', and each step that leaves the synchronization also ends the run,
`HandlerFails` excepted.

**One job for a revision.** A row becomes live only in `CreateIndexJob` and in a
batch that found no live job of the revision (`LiveKept`); a requeued job was live
before. A live row keeps its document and its revision, so that without the first,
which gives a queued job another revision, two never meet.

**Contents.** `ContentInv` follows the bytes: the file in the document's directory is
of the job's revision between its fetch and its build, and what was built is of
that revision between build and publication. It needs `OneChild`: with one child at
a time nobody else writes or removes the directory between these steps. What a
killed child leaves there is replaced by the next one's fetch.

**Late publications.** `StaleOnlyLate` is an action property: no other step than
a late `Publish` makes a document served under a revision it does not expect
(`NoGain`); a publication that is not late has the expected revision.

**Late batches.** For `ExcludedOnlyLate` the plan a run reconciles with must be
the rules as they are while its fence still holds. `PlanInv` says that filter
revisions of runs never exceed the collection's, and that a plan loaded under the
current one equals `rules`; it is inductive because each change of the rules
advances the revision. `RowInv` says that a row without a document, or of a
deleted one, is not active, which keeps an exclusion that skips deleted
documents from leaving an active one behind.

**Atomic fences.** `AtomicSpec` allows no step between a fence and the write it
guards, which `FencesHold` says as an invariant: a child about to publish has a
job that is not superseded, a run about to commit is current. So no step of
`AtomicSpec` is one of the late steps of `FenceProofs`, and its two action
properties exclude that a stale or excluded document comes to be served at all;
that none is so initially makes it an invariant. The documented promises then need
no more than that each fence and its write share a transaction.

**Chat.** `ChatInv` relates each turn to the rows: whoever is in a conversation has
one; the question is stored from the time the route has the turn; the answer is
stored only when the route is at or past its end (`MessageInv`), so that the step
that stores it cannot be the second to do so. What was seen stands in order, and
appending keeps positions (`Grows`).

**The gateway.** The three properties are proved from one invariant, `GatewayInv`.
`Held` says of each request what they need to be inductive: a running tool belongs
to a call or a stateless request that is open and that the transport holds; the
transport holds only requests whose handler runs; only calls are in the table of
pending requests; and nobody ends the response of a request in the handshake,
since neither a cancellation nor a closing session finds one there. Nearly every
action goes through `Becomes`, so `Becoming` is proved once: whatever a step does
to the requests before, the entries it closes and those that lapse keep the
invariant if what it attaches was open. The number of entries is taken from the
library's theorems on finite sets: entries only leave, except in `StartSession`,
which adds one to `Taken`.

**Grants.** `ToldWithinGrant` needs `AskedWithinGrant`: the list retrieval works on
is within the grant and, when the grant names projects, not empty. `Constrained`
proves it of `ConstrainProjectIds` for keys that passed `CanAccess`.

**The keys page.** A key only goes from absent to live to revoked (`Onward`). So what a
list or a created key told of the store when it was read (`AnswersTell`) remains
true while the answer is under way, whatever overtakes it.

**The stream.** `StreamInv` says that what was handed on, followed by the events in the
buffer and on the wire, is what was sent (`Remaining`), that between two data lines of
the rest there is an empty line (`Apart`), and that before `scanFrom` no empty line
begins, nor less than two tokens before the end of the buffer, where the next chunk
could complete one (`Scanned`). The last is what resuming the scan near the end needs:
a line end may be cut anywhere. That a chunk or a frame divides the events where it
divides the text (`DataOfBoth`) is proved of `DataIn`, a recursive function.

**Sessions.** `SessionsInv`: an open session, and a login whose password was compared,
are of a password that was in force. So the first password makes no session outdated.
Every later one ends the open sessions in its own step; what remains is
`OpenSession` of a login that was compared before.

**Settings.** `SettingsInv` relates each open page and each body under way to what is
saved (`ShownHolds`, `SentHolds`): of a setting that is neither typed nor stale a page
shows, and a body has, what is saved; of a model its format and name, of an embedding
key the checkbox that says whether one is kept. A body has fields of its own form only.
It is inductive because a save marks what it replaces as stale on the other pages, and
because the route splits into the same format and name what it built of them
(`BuiltIsSplit`), so that a page nobody touched stays right after its own save. The
converse fails, which is the model without a prefix: `OnlyTouchedSettingsChange` is left
with that one change of an untouched setting. `RootSwitchCompletes` needs no
invariant, only which step writes the file and which the table.

**Database migrations.** `FilesInv` adds to `FilesAccounted` what a start holds: the files
it is about to remove are queued and their documents no uploads any more
(`RemovalsQueued`), and a removal it has not marked yet belongs to a file that is gone.
A killed start drops what it holds and leaves the queue.

**Maintenance.** `UpkeepInv`: what a pass is about to retire is still missing, because
passes and synchronizations are of one process, one after the other; and
files await their marks only in the unlinking step. `LeftOnlyByLateConversion` then goes
through the steps that delete a document, a queue entry or write a PDF.

**Semantic index.** `VectorsOfTheirIndex` is inductive with the types, since a worker labels
what it writes with the index whose text it read, and never looks again: neither an
expired lease nor a publication during the model's call can separate the two.

**Source migration.** `AppliedAsScanned` is a property of the one step that applies, but what
that step relies on was read before. `RelocationInv` has four parts. `RevisionsCounted`:
each revision of the source is the first, an edit or an applied migration, which bounds
it. `RunsOfStarted`: a migration has runs only when it is or was carried out.
`Covered`: while one is carried out and neither it was cancelled nor the source moved on,
each selected collection unchanged since its plan has a run that is current or was
scanned. `WorkerHolds`: what the worker read (the status, its plan, the run it scans, the
verdict that all is scanned) still holds when it writes, unless the migration was
cancelled in between; a cancelled one stays so, as only a failed one can be confirmed.

**The item browser.** `Segment` says of rows read at a time, from a cursor and up to the next
one: those untouched since are exactly those that lie in the folder between the two, in
order. `RowsRead` proves it of the query and `SegmentsJoin` that the rows of the next page,
without those already shown, continue the list as a segment, even though some rows
were renamed or moved between the two reads. `BrowserInv` says it of the page and of
each answer under way that is still waited for, and that at most one of each kind is
(`OneFresh`), that a further page is asked for only where the list ends (`Asked`), and
that marks are right until something happens behind the page's back (`MarkedSince`). That
`Ordered` denotes a sequence at all is the lemma `Enumerated`: a finite set with a strict
total order has an ordered enumeration, by counting for each element those before it.

**What is only model-checked.** The liveness properties: `RunEnds`, `ValidationAnswered`,
`DueMarkerCleared`, `Converges`, `JobEnds`, `AlwaysAnswered`, `DesiredServed`
and `MigrationEnds`. They need fairness and ENABLED, which are outside the reach of the
installed prover back ends. Every invariant and action property of a run in which TLC
finds no violation has a theorem. No module declares a RECURSIVE operator, so each can
be proved about; where a proof needs induction over data (the length of a text, the
size of a set), it takes a least counterexample (`WFMin`) instead of an induction
theorem, whose operator parameter the back ends cannot instantiate.

## 5. What is not modelled

**Of the pipeline.** Validation of registered collections, folder rules with
descendants (what the item browser shows of them is), creation of a source and
its first validation in `draft`, the bulk reindex route (it queues the same jobs),
the priority and fairness order of the claim, the lengths of delays, index
telemetry. A locked database is modelled at the commits of reconciliation and in
the error handlers, not at every statement. The local connector compares the
revision and then copies: a file that changes between the two is not modelled.

**Source maintenance and purge.** `SourceMaintenance` has the passes and whom they
meet, with one source whose documents need conversion. The retention of audit events
is a single DELETE and left out. Of the child it keeps what touches files and index
rows; jobs, attempts and revisions are in `IndexWorker`, and the pipeline itself ends
at `pending_purge`. A validation's answer may come whenever the worker is between two
passes, requested or not. That a child lives for less than the 24 hours after which
its directory counts as stale is the worker's time limit on children.

**The Seeyon token cache.** Its dictionaries are apart from the corpus; what it can
lose is one more authentication.

**Queries.** Selection, evidence, synthesis and their deadlines are calls of models
over data read once. When the client of a streamed query leaves while its next
event is computed in a thread (`retrieval_api/app.py:122`), the generator has to be
closed after that thread; the model of the stream begins at its text.

**The parts around.** The JSON-RPC texts and the tools' own queries of the gateway;
the routes that try a model or list host directories; the pages that show what they
read and their polling; the command line tools, each a call of the API; the
agent's projection of progress events; the CSRF token (part of the session).
Content extraction, model calls and telemetry keep no shared state of their own.
The legacy directory watcher is started by no service; PageIndex is vendored.

## 6. Plan

Done: the pipeline with its refinement and documented promises, the twelve modules
around it with their sum and its two runs, and eight proof modules with every safety
property the runs check.

Next:

1. `JobsApart` with reindexing: which second live job of a revision `CreateIndexJob`
   can leave, as an action property like those of the fences.
2. `IndexesFaithful` for several children: an action property that names the step of
   the other child which changes the directory.
3. The bounds of the models that a theorem could do without: the folders of
   `ItemBrowser` at any depth, several documents and sources in `SourceMaintenance`.
