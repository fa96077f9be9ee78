---------------------------- MODULE SemanticIndex ----------------------------
(***************************************************************************)
(* The semantic index: generations of embeddings, one for each embedding   *)
(* model the administrator has wanted, built in the shadow of the active   *)
(* one by the index worker when it has no job (common/semantic_index).     *)
(*                                                                         *)
(* Every statement or transaction on the shared database is a step, so     *)
(* that two workers, the administrator and the publication of a new        *)
(* document index fall between any two of them.  A worker may be killed    *)
(* anywhere; its lease then stays until it expires.                        *)
(***************************************************************************)
EXTENDS Naturals, FiniteSets, FiniteSetsExt

CONSTANTS
    Configs, NoConfig,  \* embedding models (with base URL), none configured
    First,              \* the model configured at the start
    MaxGens,            \* generations (bound)
    Docs,
    MaxVersion,         \* indexes published for a document (bound)
    Workers, NoWorker, Lost,
    MaxEvents           \* failed steps, outlived leases, kills (bound)

VARIABLES
    desired,    \* the configured model
    version,    \* current index of each document, 0 if it is not retrievable
    gen,        \* semantic_index_generations
    emb,        \* semantic_embeddings: of each generation and document
    worker,     \* one iteration of advance_semantic_backfill
    events      \* failed steps, outlived leases and kills so far

vars == <<desired, version, gen, emb, worker, events>>

Gens == 1 .. MaxGens

(***************************************************************************)
(* dim      the model has answered once                                    *)
(* due      next_retry_at has passed                                       *)
(* owner    the lease: its worker, Lost when that worker was killed        *)
(***************************************************************************)
Generation ==
    [config : Configs \cup {NoConfig}, active : BOOLEAN, dim : BOOLEAN,
     status : {"none", "validating", "backfilling", "ready", "degraded",
               "retired"},
     due : BOOLEAN, owner : Workers \cup {NoWorker, Lost}, expired : BOOLEAN]

\* index: document_index_id;  of: the index the text was taken from
Embedding == [index : 0 .. MaxVersion, of : 0 .. MaxVersion]

(***************************************************************************)
(* config   the settings as this iteration read them                       *)
(* gen      its generation                                                 *)
(* ready    the row it read was ready and active                           *)
(* dim      ... and had a dimension                                        *)
(* doc, of  the document it embeds and the index it read the text from     *)
(***************************************************************************)
Iteration ==
    [pc : {"idle", "lookup", "claim", "validate", "find", "embed", "write",
           "count", "confirm", "total", "activate", "degrade",
           "release"},
     config : Configs \cup {NoConfig}, gen : Gens \cup {0},
     ready : BOOLEAN, dim : BOOLEAN, doc : Docs \cup {NoConfig},
     of : 0 .. MaxVersion]

Idle == [pc |-> "idle", config |-> NoConfig, gen |-> 0, ready |-> FALSE,
         dim |-> FALSE, doc |-> NoConfig, of |-> 0]

TypeOK ==
    /\ desired \in Configs \cup {NoConfig}
    /\ version \in [Docs -> 0 .. MaxVersion]
    /\ gen \in [Gens -> Generation]
    /\ emb \in [Gens -> [Docs -> Embedding]]
    /\ worker \in [Workers -> Iteration]
    /\ events \in 0 .. MaxEvents

Init ==
    /\ desired = First
    /\ version = [d \in Docs |-> 0]
    /\ gen = [g \in Gens |->
                [config |-> NoConfig, active |-> FALSE, dim |-> FALSE,
                 status |-> "none", due |-> FALSE, owner |-> NoWorker,
                 expired |-> FALSE]]
    /\ emb = [g \in Gens |-> [d \in Docs |-> [index |-> 0, of |-> 0]]]
    /\ worker = [w \in Workers |-> Idle]
    /\ events = 0

-----------------------------------------------------------------------------
(* The database *)

\* The generations of a model that are in use: the unique index on the model
\* admits one.
Current(c) == {g \in Gens : gen[g].config = c
                            /\ gen[g].status \notin {"none", "retired"}}

\* Giving g a status other than retired breaks that unique index.
Conflicts(g) == gen[g].status = "retired" /\ Current(gen[g].config) # {}

Missing(g) == {d \in Docs : version[d] # 0 /\ emb[g][d].index # version[d]}

-----------------------------------------------------------------------------
(* The administrator, the index jobs and the clock *)

Edit(c) ==
    /\ c # desired /\ events < MaxEvents
    /\ events' = events + 1
    /\ desired' = c
    /\ UNCHANGED <<version, gen, emb, worker>>

Publish(d) ==
    /\ version[d] < MaxVersion
    /\ version' = [version EXCEPT ![d] = @ + 1]
    /\ UNCHANGED <<desired, gen, emb, worker, events>>

KeepWorld == UNCHANGED <<desired, version>>

\* A lease that a killed worker left, or one that the call of a model outlives.
LeaseExpires(g) ==
    /\ gen[g].owner # NoWorker /\ ~gen[g].expired
    /\ gen[g].owner # Lost => events < MaxEvents
    /\ events' = IF gen[g].owner = Lost THEN events ELSE events + 1
    /\ gen' = [gen EXCEPT ![g].expired = TRUE]
    /\ KeepWorld /\ UNCHANGED <<emb, worker>>

RetryDue(g) ==
    /\ gen[g].status = "degraded" /\ ~gen[g].due
    /\ gen' = [gen EXCEPT ![g].due = TRUE]
    /\ KeepWorld /\ UNCHANGED <<emb, worker, events>>

-----------------------------------------------------------------------------
(* An iteration of a worker *)

At(w, pc) == worker[w].pc = pc

GoTo(w, pc) == worker' = [worker EXCEPT ![w].pc = pc]

\* One index worker is deployed; beside its iteration another one begins only
\* while the worker is being replaced.
Begin(w) ==
    /\ At(w, "idle") /\ desired # NoConfig
    /\ LET overlaps == \E v \in Workers : ~At(v, "idle")
       IN /\ overlaps => events < MaxEvents
          /\ events' = IF overlaps THEN events + 1 ELSE events
    /\ worker' = [worker EXCEPT ![w] = [Idle EXCEPT !.pc = "lookup",
                                                    !.config = desired]]
    /\ UNCHANGED <<desired, version, gen, emb>>

\* _get_or_create_desired_generation; a degraded one waits for its retry.
Lookup(w) ==
    /\ At(w, "lookup")
    /\ LET c == worker[w].config
           free == {g \in Gens : gen[g].status = "none"}
           g == IF Current(c) # {} THEN CHOOSE x \in Current(c) : TRUE
                                   ELSE Min(free)
           waits == gen[g].status = "degraded" /\ ~gen[g].due
       IN /\ Current(c) # {} \/ free # {}
          /\ gen' = IF Current(c) # {} THEN gen
                    ELSE [gen EXCEPT ![g].config = c,
                                     ![g].status = "validating"]
          /\ worker' = [worker EXCEPT ![w] =
               IF waits THEN Idle
               ELSE [@ EXCEPT !.pc = "claim", !.gen = g,
                              !.dim = gen[g].dim,
                              !.ready = gen[g].status = "ready"
                                        /\ gen[g].active]]
    /\ KeepWorld /\ UNCHANGED <<emb, events>>

\* Mutation: a lease ends only when it is released.
ClaimReleased(w) ==
    /\ At(w, "claim")
    /\ LET g == worker[w].gen
       IN IF gen[g].owner # NoWorker \/ (worker[w].ready /\ Missing(g) = {})
            THEN worker' = [worker EXCEPT ![w] = Idle] /\ UNCHANGED gen
            ELSE /\ gen' = [gen EXCEPT ![g].owner = w, ![g].expired = FALSE]
                 /\ GoTo(w, IF worker[w].dim THEN "find" ELSE "validate")
    /\ KeepWorld /\ UNCHANGED <<emb, events>>

\* Nothing to do, the lease is held, or it is taken.
Claim(w) ==
    /\ At(w, "claim")
    /\ LET g == worker[w].gen
           held == gen[g].owner # NoWorker /\ ~gen[g].expired
       IN IF held \/ (worker[w].ready /\ Missing(g) = {})
            THEN worker' = [worker EXCEPT ![w] = Idle] /\ UNCHANGED gen
            ELSE /\ gen' = [gen EXCEPT ![g].owner = w, ![g].expired = FALSE]
                 /\ GoTo(w, IF worker[w].dim THEN "find" ELSE "validate")
    /\ KeepWorld /\ UNCHANGED <<emb, events>>

\* The UPDATE that puts the generation to work; on a retired generation it
\* may break the unique index.
SetBackfilling(w, next) ==
    LET g == worker[w].gen
    IN /\ IF Conflicts(g)
            THEN GoTo(w, "degrade") /\ UNCHANGED gen
            ELSE /\ gen' = [gen EXCEPT ![g].status = "backfilling",
                                       ![g].dim = TRUE, ![g].due = FALSE]
                 /\ GoTo(w, next)
       /\ KeepWorld /\ UNCHANGED <<emb, events>>

\* The first call of the model gives the dimension.
Validate(w) == At(w, "validate") /\ SetBackfilling(w, "find")

\* _next_missing_document, with the text of its index.
Find(w) ==
    /\ At(w, "find")
    /\ LET missing == Missing(worker[w].gen)
       IN IF missing = {}
            THEN GoTo(w, "confirm")
            ELSE \E d \in missing :
                   worker' = [worker EXCEPT ![w].pc = "embed",
                                 ![w].doc = d, ![w].of = version[d]]
    /\ KeepWorld /\ UNCHANGED <<gen, emb, events>>

\* After the call of the model, _persist_document_profiles reads whether the
\* index is still the current one, before its transaction begins.
CheckCurrent(w) ==
    /\ At(w, "embed")
    /\ GoTo(w, IF version[worker[w].doc] = worker[w].of THEN "write"
                                                        ELSE "count")
    /\ KeepWorld /\ UNCHANGED <<gen, emb, events>>

\* Mutation: the vectors are labelled with the index that is current now.
WriteAsCurrent(w) ==
    /\ At(w, "write")
    /\ LET d == worker[w].doc
       IN emb' = [emb EXCEPT ![worker[w].gen][d] =
                    [index |-> version[d], of |-> worker[w].of]]
    /\ GoTo(w, "count")
    /\ KeepWorld /\ UNCHANGED <<gen, events>>

Write(w) ==
    /\ At(w, "write")
    /\ emb' = [emb EXCEPT ![worker[w].gen][worker[w].doc] =
                 [index |-> worker[w].of, of |-> worker[w].of]]
    /\ GoTo(w, "count")
    /\ KeepWorld /\ UNCHANGED <<gen, events>>

\* _refresh_generation_counts
Count(w) == At(w, "count") /\ SetBackfilling(w, "release")

\* The settings are read again: a model nobody wants any more stays inactive.
Confirm(w) ==
    /\ At(w, "confirm")
    /\ GoTo(w, IF desired = gen[worker[w].gen].config THEN "total"
                                                      ELSE "release")
    /\ KeepWorld /\ UNCHANGED <<gen, emb, events>>

CountAll(w) == At(w, "total") /\ SetBackfilling(w, "activate")

\* The transaction of _activate_generation.
Activate(w) ==
    /\ At(w, "activate")
    /\ LET g == worker[w].gen
       IN IF Conflicts(g)
            THEN GoTo(w, "degrade") /\ UNCHANGED gen
            ELSE /\ gen' = [h \in Gens |->
                      IF h = g THEN [gen[h] EXCEPT !.active = TRUE,
                                       !.status = "ready", !.due = FALSE]
                      ELSE IF gen[h].active
                        THEN [gen[h] EXCEPT !.active = FALSE,
                                            !.status = "retired"]
                      ELSE gen[h]]
                 /\ GoTo(w, "release")
    /\ KeepWorld /\ UNCHANGED <<emb, events>>

\* _mark_generation_degraded; when it breaks the unique index too, its error
\* ends the iteration all the same.
Degrade(w) ==
    /\ At(w, "degrade")
    /\ LET g == worker[w].gen
       IN gen' = IF Conflicts(g) THEN gen
                 ELSE [gen EXCEPT ![g].status = "degraded",
                                  ![g].due = FALSE]
    /\ GoTo(w, "release")
    /\ KeepWorld /\ UNCHANGED <<emb, events>>

\* Another worker's lease is left alone.
Release(w) ==
    /\ At(w, "release")
    /\ LET g == worker[w].gen
       IN gen' = IF gen[g].owner # w THEN gen
                 ELSE [gen EXCEPT ![g].owner = NoWorker,
                                  ![g].expired = FALSE]
    /\ worker' = [worker EXCEPT ![w] = Idle]
    /\ KeepWorld /\ UNCHANGED <<emb, events>>

\* The model or the database refuses a step.
Fails(w) ==
    /\ events < MaxEvents
    /\ worker[w].pc \notin {"idle", "lookup", "claim", "degrade", "release"}
    /\ events' = events + 1
    /\ GoTo(w, "degrade")
    /\ KeepWorld /\ UNCHANGED <<gen, emb>>

Killed(w) ==
    /\ events < MaxEvents /\ ~At(w, "idle")
    /\ events' = events + 1
    /\ worker' = [worker EXCEPT ![w] = Idle]
    /\ gen' = [g \in Gens |-> IF gen[g].owner = w
                                THEN [gen[g] EXCEPT !.owner = Lost]
                                ELSE gen[g]]
    /\ KeepWorld /\ UNCHANGED emb

Step(w) ==
    \/ Begin(w) \/ Lookup(w) \/ Claim(w) \/ Validate(w) \/ Find(w)
    \/ CheckCurrent(w) \/ Write(w) \/ Count(w) \/ Confirm(w)
    \/ CountAll(w) \/ Activate(w) \/ Degrade(w) \/ Release(w)

Next ==
    \/ \E c \in Configs \cup {NoConfig} : Edit(c)
    \/ \E d \in Docs : Publish(d)
    \/ \E g \in Gens : LeaseExpires(g) \/ RetryDue(g)
    \/ \E w \in Workers : Step(w) \/ Fails(w) \/ Killed(w)

Spec == Init /\ [][Next]_vars

\* A worker goes on and time passes; an edit, a publication or a
\* failure need not come.
Fairness ==
    /\ \A w \in Workers : WF_vars(Step(w))
    /\ \A g \in Gens : WF_vars(LeaseExpires(g)) /\ WF_vars(RetryDue(g))

FairSpec == Spec /\ Fairness

-----------------------------------------------------------------------------
(* Properties *)

\* Once the publications and failures are over, the wanted model's
\* generation is active and holds every document, whatever leases, retired
\* generations and degraded ones the interrupted iterations left.
Served ==
    desired # NoConfig =>
        \E g \in Gens : gen[g].active /\ gen[g].config = desired
                        /\ Missing(g) = {}

DesiredServed == <>[]Served

\* What is stored for an index was computed from the text of that index,
\* though a new one may be published during each call of the model.
VectorsOfTheirIndex ==
    \A g \in Gens, d \in Docs : emb[g][d].index = emb[g][d].of
=============================================================================
