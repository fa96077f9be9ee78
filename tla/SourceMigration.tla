--------------------------- MODULE SourceMigration ---------------------------
(***************************************************************************)
(* The migration of a Seeyon source to another URL: requested, cancelled   *)
(* and confirmed by the administrator (source-migration-store), carried    *)
(* out by the source worker between its other work (engine.run_once).      *)
(*                                                                         *)
(* What the worker reads before the first write of a transaction it reads  *)
(* outside it: reading and writing are two steps, and the administrator    *)
(* falls between them.  The source stays active, since what would change   *)
(* that is refused while a migration is active; an ordinary sync is one    *)
(* step, and a rule for a whole collection counts as deselecting it.       *)
(***************************************************************************)
EXTENDS Naturals, FiniteSets, FiniteSetsExt

CONSTANTS
    Colls,        \* registered and validated collections
    NoColl,
    MaxMigs,      \* migrations requested (bound), in the order of creation
    MaxFilter,    \* filter revisions of a collection (bound)
    MaxEvents     \* edits, changes of collections, failures (bound)

VARIABLES
    source,     \* corpus_sources
    coll,       \* source_collections
    mig,        \* corpus_source_migrations
    run,        \* sync_runs of each migration and collection
    ordinary,   \* collections with a queued run of no migration
    worker,
    events

vars == <<source, coll, mig, run, ordinary, worker, events>>

Migs == 1 .. MaxMigs
Revs == 1 .. MaxMigs + MaxEvents + 1
Filters == 0 .. MaxFilter

Ongoing == {"requested", "validating", "syncing"}

\* scope: the migration whose target it is, 0 for the source as created
Source == [rev : Revs, scope : 0 .. MaxMigs]

\* in: selected;  out: not;  lost: missing or its access revoked
Collection == [state : {"in", "out", "lost"}, filter : Filters]

(***************************************************************************)
(* rev        source_config_revision                                       *)
(* doubtful   preflight_json requires confirmation                         *)
(* risk       allow_risk                                                   *)
(* revoked    the administrator cancelled it                               *)
(* changed    collections whose selection or rules changed since it was    *)
(*            planned (both for the properties only)                       *)
(***************************************************************************)
Migration ==
    [status : {"none", "completed", "failed", "cancelled"} \cup Ongoing,
     rev : Revs, doubtful : BOOLEAN, risk : BOOLEAN,
     revoked : BOOLEAN, changed : SUBSET Colls]

\* matches: what was observed overlaps the items the collection has; none
\* stands for the statuses that nothing reads any more.
Run == [status : {"none", "queued", "running", "scanned"},
        rev : Revs, filter : Filters, matches : BOOLEAN]

NoRun == [status |-> "none", rev |-> 1, filter |-> 0, matches |-> FALSE]

\* plan: the collections it read and their filter revisions
\* rev, filter: of the run as it was claimed
Worker ==
    [pc : {"migrate", "probe", "plan", "sync", "scan", "store",
           "read", "apply", "reject"},
     mig : Migs, coll : Colls \cup {NoColl}, rev : Revs, filter : Filters,
     plan : UNION {[S -> Filters] : S \in SUBSET Colls}]

Idle == [pc |-> "migrate", mig |-> 1, coll |-> NoColl, rev |-> 1,
         filter |-> 0, plan |-> <<>>]

TypeOK ==
    /\ source \in Source
    /\ coll \in [Colls -> Collection]
    /\ mig \in [Migs -> Migration]
    /\ run \in [Migs -> [Colls -> Run]]
    /\ ordinary \subseteq Colls
    /\ worker \in Worker
    /\ events \in 0 .. MaxEvents

Init ==
    /\ source = [rev |-> 1, scope |-> 0]
    /\ coll = [c \in Colls |-> [state |-> "in", filter |-> 0]]
    /\ mig = [m \in Migs |->
                [status |-> "none", rev |-> 1, doubtful |-> FALSE,
                 risk |-> FALSE, revoked |-> FALSE, changed |-> {}]]
    /\ run = [m \in Migs |-> [c \in Colls |-> NoRun]]
    /\ ordinary = {}
    /\ worker = Idle
    /\ events = 0

Happens == events < MaxEvents /\ events' = events + 1

-----------------------------------------------------------------------------
(* The database *)

Active == {m \in Migs : mig[m].status \in Ongoing}

\* The unique index: one queued or running run of a collection.
Busy == ordinary \cup
        {c \in Colls : \E m \in Migs :
                          run[m][c].status \in {"queued", "running"}}

\* The runs of m become superseded.
Superseded(m) == [run EXCEPT ![m] = [c \in Colls |-> NoRun]]

\* _run_is_current_in_connection, for a run of migration m
RunIsCurrent(m, c, rev, filter) ==
    /\ rev = source.rev
    /\ coll[c] = [state |-> "in", filter |-> filter]
    /\ mig[m].status = "syncing"

ClaimIsCurrent ==
    RunIsCurrent(worker.mig, worker.coll, worker.rev, worker.filter)

\* _cancel_migration_in_connection: an ended migration keeps its status.
EndMigration(m, status) ==
    /\ mig' = [mig EXCEPT ![m].status = IF @ \in Ongoing THEN status ELSE @,
                           ![m].changed = {}]
    /\ run' = Superseded(m)

-----------------------------------------------------------------------------
(* The administrator *)

KeepWorker == UNCHANGED worker

Request ==
    LET free == {m \in Migs : mig[m].status = "none"}
    IN /\ free # {} /\ Active = {} /\ Busy = {}
       /\ mig' = [mig EXCEPT ![Min(free)].status = "requested",
                             ![Min(free)].rev = source.rev]
       /\ KeepWorker /\ UNCHANGED <<source, coll, run, ordinary, events>>

\* The latest of those that are active.
Cancel ==
    /\ Active # {}
    /\ LET m == Max(Active)
       IN /\ mig' = [mig EXCEPT ![m].status = "cancelled",
                                ![m].revoked = TRUE, ![m].changed = {}]
          /\ run' = Superseded(m)
    /\ KeepWorker /\ UNCHANGED <<source, coll, ordinary, events>>

\* Whether another migration is active is not asked.
Confirm(m) ==
    /\ mig[m].status = "failed" /\ ~mig[m].risk /\ mig[m].doubtful
    /\ mig[m].rev = source.rev
    /\ mig' = [mig EXCEPT ![m].status = "requested", ![m].risk = TRUE,
                          ![m].revoked = FALSE]
    /\ run' = Superseded(m)
    /\ KeepWorker /\ UNCHANGED <<source, coll, ordinary, events>>

\* updateCorpusSource: refused while a migration is active.
EditSource ==
    /\ Active = {} /\ Happens
    /\ source' = [source EXCEPT !.rev = @ + 1]
    /\ KeepWorker /\ UNCHANGED <<coll, mig, run, ordinary>>

Noted(c) == [m \in Migs |-> [mig[m] EXCEPT !.changed =
                               IF m \in Active THEN @ \cup {c} ELSE @]]

\* A rule is added or removed.  queueFilterSync moves a queued run to the new
\* revision, whosever it is, and queues an ordinary one if there is none.
ChangeRules(c) ==
    /\ coll[c].filter < MaxFilter /\ Happens
    /\ LET f == coll[c].filter + 1
       IN /\ coll' = [coll EXCEPT ![c].filter = f]
          /\ run' = [m \in Migs |->
               IF run[m][c].status = "queued" /\ coll[c].state # "out"
                 THEN [run[m] EXCEPT ![c].filter = f, ![c].rev = source.rev]
                 ELSE run[m]]
    /\ ordinary' = IF coll[c].state = "out" \/ c \in Busy THEN ordinary
                   ELSE ordinary \cup {c}
    /\ mig' = Noted(c)
    /\ KeepWorker /\ UNCHANGED source

\* setCollectionSelectionPolicy touches no run.
SetSelected(c, state) ==
    /\ coll[c].state # state /\ Happens
    /\ coll' = [coll EXCEPT ![c].state = state]
    /\ mig' = Noted(c)
    /\ KeepWorker /\ UNCHANGED <<source, run, ordinary>>

-----------------------------------------------------------------------------
(* The worker: the migration it claims *)

At(pc) == worker.pc = pc

GoTo(pc) == worker' = [worker EXCEPT !.pc = pc]

GoOn(pc) == worker' = [Idle EXCEPT !.pc = pc]

KeepSource == UNCHANGED <<source, coll>>

ClaimMigration ==
    LET requested == {m \in Migs : mig[m].status = "requested"}
    IN /\ At("migrate")
       /\ IF requested = {}
            THEN GoOn("sync") /\ UNCHANGED mig
            ELSE /\ mig' = [mig EXCEPT ![Min(requested)].status = "validating"]
                 /\ worker' = [Idle EXCEPT !.pc = "probe",
                                           !.mig = Min(requested)]
       /\ KeepSource /\ UNCHANGED <<run, ordinary, events>>

\* The target refuses, or something else fails before it is planned.
ProbeFails ==
    /\ At("probe") /\ Happens
    /\ EndMigration(worker.mig, "failed")
    /\ GoOn("sync")
    /\ KeepSource /\ UNCHANGED ordinary

\* The target answers; then the source and its collections are read.
Probe ==
    LET m == worker.mig
        in == {c \in Colls : coll[c].state = "in"}
    IN /\ At("probe")
       /\ IF source.rev # mig[m].rev
            THEN EndMigration(m, "cancelled") /\ GoOn("sync")
          ELSE IF \E c \in Colls : coll[c].state = "lost"
            THEN EndMigration(m, "failed") /\ GoOn("sync")
          ELSE /\ mig' = [mig EXCEPT ![m].changed = {}]
               /\ worker' = [worker EXCEPT !.pc = "plan",
                               !.plan = [c \in in |-> coll[c].filter]]
               /\ UNCHANGED run
       /\ KeepSource /\ UNCHANGED <<ordinary, events>>

\* _apply_migration_in_connection: what is scanned by now is reconciled, the
\* source takes the target's scope and credentials.
Apply(m) ==
    /\ source' = [rev |-> source.rev + 1, scope |-> m]
    /\ mig' = [mig EXCEPT ![m].status = "completed", ![m].changed = {}]
    /\ run' = [run EXCEPT ![m] = [c \in Colls |->
                 IF @[c].status = "scanned" THEN NoRun ELSE @[c]]]

\* The transaction writes whatever the status is by now.  A run that breaks
\* the unique index, or an edited source, rolls it back and fails it.
Plan ==
    LET m == worker.mig
        planned == DOMAIN worker.plan
    IN /\ At("plan")
       /\ \/ /\ \/ planned \cap Busy # {}
                \/ planned = {} /\ source.rev # mig[m].rev
             /\ EndMigration(m, "failed") /\ UNCHANGED source
          \/ /\ planned = {} /\ source.rev = mig[m].rev
             /\ Apply(m)
          \/ /\ planned # {} /\ planned \cap Busy = {}
             /\ mig' = [mig EXCEPT ![m].status = "syncing"]
             /\ run' = [run EXCEPT ![m] = [c \in Colls |->
                  IF c \in planned
                    THEN [status |-> "queued", rev |-> mig[m].rev,
                          filter |-> worker.plan[c], matches |-> FALSE]
                    ELSE @[c]]]
             /\ UNCHANGED source
       /\ GoOn("sync")
       /\ UNCHANGED <<coll, ordinary, events>>

-----------------------------------------------------------------------------
(* The worker: a run *)

\* A discovery, of a source no migration holds, misses or finds a collection.
Discover(c) ==
    /\ At("sync") /\ Active = {} /\ Happens
    /\ coll[c].state # "out"
    /\ coll' = [coll EXCEPT ![c].state = IF @ = "in" THEN "lost" ELSE "in"]
    /\ KeepWorker /\ UNCHANGED <<source, mig, run, ordinary>>

Valid(r) == [m \in Migs |-> [c \in Colls |->
    IF /\ r[m][c].status = "queued"
       /\ ~RunIsCurrent(m, c, r[m][c].rev, r[m][c].filter)
      THEN NoRun ELSE r[m][c]]]

ValidOrdinary ==
    IF Active # {} THEN {} ELSE {c \in ordinary : coll[c].state = "in"}

\* Queued runs that are not current are superseded, then one is claimed; an
\* ordinary one is carried out here.
ClaimRun ==
    LET left == Valid(run)
        queued == {x \in Migs \X Colls : left[x[1]][x[2]].status = "queued"}
    IN /\ At("sync")
       /\ \/ \E x \in queued :
               /\ run' = [left EXCEPT ![x[1]][x[2]].status = "running"]
               /\ worker' = [Idle EXCEPT !.pc = "scan", !.mig = x[1],
                            !.coll = x[2], !.rev = left[x[1]][x[2]].rev,
                            !.filter = left[x[1]][x[2]].filter]
               /\ ordinary' = ValidOrdinary
          \/ \E c \in ValidOrdinary :
               /\ ordinary' = ValidOrdinary \ {c}
               /\ run' = left /\ GoOn("migrate")
          \/ /\ queued = {} /\ ValidOrdinary = {}
             /\ ordinary' = {} /\ run' = left /\ GoOn("migrate")
       /\ KeepSource /\ UNCHANGED <<mig, events>>

\* _supersede_sync_run: it asks for another run when only the rules changed.
SupersedeRun(m, c) ==
    /\ run' = [run EXCEPT ![m][c] =
                 IF @.status \in {"queued", "running"} THEN NoRun ELSE @]
    /\ LET again == /\ worker.rev = source.rev
                    /\ worker.filter # coll[c].filter
                    /\ coll[c].state = "in"
                    /\ Active = {} /\ c \notin ordinary
       IN ordinary' = IF again THEN ordinary \cup {c} ELSE ordinary
    /\ GoOn("migrate")
    /\ UNCHANGED mig

ScanFails ==
    /\ At("scan") /\ Happens
    /\ IF ClaimIsCurrent
         THEN /\ EndMigration(worker.mig, "failed")
              /\ GoOn("migrate") /\ UNCHANGED ordinary
         ELSE SupersedeRun(worker.mig, worker.coll)
    /\ KeepSource

\* The collection has been listed at the target.
Scan ==
    /\ At("scan")
    /\ IF ClaimIsCurrent
         THEN GoTo("store") /\ UNCHANGED <<mig, run, ordinary>>
         ELSE SupersedeRun(worker.mig, worker.coll)
    /\ KeepSource /\ UNCHANGED events

Store ==
    /\ At("store")
    /\ \E matches \in BOOLEAN :
         run' = [run EXCEPT ![worker.mig][worker.coll] =
                   IF @.status = "running"
                     THEN [@ EXCEPT !.status = "scanned", !.matches = matches]
                     ELSE @]
    /\ worker' = [Idle EXCEPT !.pc = "read", !.mig = worker.mig]
    /\ KeepSource /\ UNCHANGED <<mig, ordinary, events>>

\* _maybe_apply_migration up to its first write
Scans(m) == {c \in Colls : run[m][c].status # "none"}

\* Mutation: scans that are still to come are not waited for.
SomeScanned(m) == \E c \in Scans(m) : run[m][c].status = "scanned"

AllScanned(m) ==
    /\ Scans(m) # {}
    /\ \A c \in Scans(m) : run[m][c].status = "scanned"

Read ==
    LET m == worker.mig
        doubtful == \E c \in Scans(m) : ~run[m][c].matches
    IN /\ At("read")
       /\ IF mig[m].status # "syncing" \/ ~AllScanned(m) THEN GoOn("migrate")
          ELSE GoTo(IF doubtful /\ ~mig[m].risk THEN "reject" ELSE "apply")
       /\ KeepSource /\ UNCHANGED <<mig, run, ordinary, events>>

\* _reject_migration_for_preflight_in_connection
Reject ==
    /\ At("reject")
    /\ mig' = [mig EXCEPT ![worker.mig].status = "failed",
                          ![worker.mig].doubtful = TRUE,
                          ![worker.mig].changed = {}]
    /\ run' = Superseded(worker.mig)
    /\ GoOn("migrate")
    /\ KeepSource /\ UNCHANGED <<ordinary, events>>

\* Of an edited source nothing is applied, and its runs stay as they are.
ApplyScanned ==
    /\ At("apply")
    /\ IF source.rev = mig[worker.mig].rev THEN Apply(worker.mig)
       ELSE UNCHANGED <<source, mig, run>>
    /\ GoOn("migrate")
    /\ UNCHANGED <<coll, ordinary, events>>

-----------------------------------------------------------------------------
(* Crash and recover_abandoned_work *)

\* Mutation: only those being validated are given up.
InterruptedEarly == {m \in Migs : mig[m].status = "validating"}

Interrupted == {m \in Migs : mig[m].status \in {"validating", "syncing"}}

Restart ==
    /\ Happens
    /\ mig' = [m \in Migs |-> IF m \in Interrupted
                 THEN [mig[m] EXCEPT !.status = "failed", !.changed = {}]
                 ELSE mig[m]]
    /\ run' = [m \in Migs |-> [c \in Colls |->
                 IF m \in Interrupted \/ run[m][c].status = "running"
                   THEN NoRun ELSE run[m][c]]]
    /\ worker' = Idle
    /\ KeepSource /\ UNCHANGED ordinary

Work ==
    \/ ClaimMigration \/ Probe \/ Plan \/ ClaimRun \/ Scan \/ Store \/ Read
    \/ Reject \/ ApplyScanned

Next ==
    \/ Request \/ Cancel \/ EditSource
    \/ \E m \in Migs : Confirm(m)
    \/ \E c \in Colls : \/ ChangeRules(c) \/ Discover(c)
                        \/ SetSelected(c, "in") \/ SetSelected(c, "out")
    \/ Work \/ ProbeFails \/ ScanFails \/ Restart

Spec == Init /\ [][Next]_vars

\* The worker's loop goes on; the administrator and failures need not come.
FairSpec == Spec /\ WF_vars(Work)

-----------------------------------------------------------------------------
(* Properties; AppliedAsScanned is of every step. *)

\* A migration is applied when every collection of the source has been scanned
\* at the target, and one whose target may be another library only when the
\* administrator accepted that; a collection whose selection or rules changed
\* since the plan may be left out, and of a cancelled migration see below.
AppliedAsScanned ==
    \A m \in Migs : source'.scope # source.scope /\ source'.scope = m
      => \/ mig[m].revoked
         \/ /\ \A c \in Colls \ mig[m].changed :
                 coll[c].state = "in" => run[m][c].status = "scanned"
            /\ mig[m].risk \/ \A c \in Scans(m) : run[m][c].matches

\* A migration ends and gives the source back to its ordinary work, through
\* failures, restarts and a second migration; it may stay for ever only when
\* the rules or the selection of a collection changed since the plan (its last
\* run is then superseded and nothing looks at the migration again), or when it
\* was cancelled.
Holds(m) == m \in Active /\ mig[m].changed = {} /\ ~mig[m].revoked

MigrationEnds == \A m \in Migs : Holds(m) ~> ~Holds(m)

\* The administrator can cancel a migration and the source keeps its scope and
\* credentials (docs/adr/0018: "Administrators can cancel an in-flight
\* migration and retain the old source configuration").
CancelledRetainsSource ==
    [][\A m \in Migs : mig[m].status = "cancelled" \/ mig[m].revoked
         => (source'.scope = m => source.scope = m)]_vars
=============================================================================
