------------------------- MODULE SourceMaintenance -------------------------
(***************************************************************************)
(* What the source worker removes between its runs (maintenance.py):       *)
(* sources whose recovery window is over, indexes of documents that have   *)
(* been missing for 30 days, converted PDFs and cache directories.         *)
(*                                                                         *)
(* A pass reads what is due and writes in steps of its own.  The source    *)
(* worker's runs wait for the pass, as they share its thread; the          *)
(* administrator and the children of the index worker do not.  Where files *)
(* are concerned a child converts first and asks afterwards whether its    *)
(* document still wants the result.                                        *)
(***************************************************************************)
EXTENDS FiniteSets

CONSTANT Docs       \* documents of the source

VARIABLES
    source,     \* the row of corpus_sources
    doc,        \* documents.lifecycle_state; "old": missing for 30 days
    idx,        \* whether a document has rows in document_indexes
    pdf,        \* whether its converted PDF exists
    queue,      \* managed_file_purge_queue
    dir,        \* REMOTE_CACHE_ROOT/<document>, "left" behind or in use
    child,      \* the child process that indexes a document
    pass        \* the maintenance pass

vars == <<source, doc, idx, pdf, queue, dir, child, pass>>

Source == [state : {"active", "disabled", "pending_purge", "gone"},
           due : BOOLEAN]        \* purge_after <= now

Steps == {"idle", "due", "purge", "missing", "retire", "queue", "unlink",
          "temporary"}

\* full: run_once, else run_due_purges.  todo, unlinked: queued files.
\* purged: purged_document_ids.
Pass == [pc : Steps, full : BOOLEAN, todo : SUBSET Docs,
         unlinked : SUBSET Docs, purged : SUBSET Docs]

NoPass == [pc |-> "idle", full |-> FALSE, todo |-> {}, unlinked |-> {},
           purged |-> {}]

TypeOK ==
    /\ source \in Source
    /\ doc \in [Docs -> {"active", "missing", "old", "gone"}]
    /\ idx \in [Docs -> BOOLEAN]
    /\ pdf \in [Docs -> BOOLEAN]
    /\ queue \in [Docs -> {"none", "queued", "purged"}]
    /\ dir \in [Docs -> {"none", "used", "left"}]
    /\ child \in [Docs -> {"none", "fetch", "convert", "build", "fence",
                           "publish"}]
    /\ pass \in Pass

\* Documents that were never indexed, and indexed ones with their PDF.
Init ==
    /\ source = [state |-> "active", due |-> FALSE]
    /\ doc \in [Docs -> {"active", "missing"}]
    /\ idx \in [Docs -> BOOLEAN]
    /\ pdf = idx
    /\ queue = [d \in Docs |-> "none"]
    /\ dir = [d \in Docs |-> "none"]
    /\ child = [d \in Docs |-> "none"]
    /\ pass = NoPass

rows == <<source, doc, idx, queue>>
files == <<pdf, dir>>

-----------------------------------------------------------------------------
(* The administrator, and time                                             *)

\* Immediate purges are due at once.
RequestPurge ==
    /\ source.state # "gone"
    /\ \E immediate \in BOOLEAN :
         source' = [state |-> "pending_purge", due |-> immediate]
    /\ UNCHANGED <<doc, idx, queue, files, child, pass>>

RestoreSource ==
    /\ source.state = "pending_purge"
    /\ source' = [state |-> "disabled", due |-> FALSE]
    /\ UNCHANGED <<doc, idx, queue, files, child, pass>>

DisableSource ==
    /\ source.state # "gone"
    /\ source' = [source EXCEPT !.state = "disabled"]
    /\ UNCHANGED <<doc, idx, queue, files, child, pass>>

WindowEnds ==
    /\ source.state = "pending_purge" /\ ~source.due
    /\ source' = [source EXCEPT !.due = TRUE]
    /\ UNCHANGED <<doc, idx, queue, files, child, pass>>

\* The retention of a missing document ends.
Age(d) ==
    /\ doc[d] = "missing"
    /\ doc' = [doc EXCEPT ![d] = "old"]
    /\ UNCHANGED <<source, idx, queue, files, child, pass>>

-----------------------------------------------------------------------------
(* Between two passes: a validation, and a synchronization that finds a    *)
(* document missing or back                                                *)

At(pc) == pass.pc = pc

\* The answer of a validation that was asked for before or after the source was
\* disabled, whatever has become of the source since.
ValidateSource ==
    /\ At("idle") /\ source.state # "gone"
    /\ source' = [source EXCEPT !.state = "active"]
    /\ UNCHANGED <<doc, idx, queue, files, child, pass>>

\* Mutation: synchronization has a thread of its own.
ScanAnytime(d) ==
    /\ source.state = "active"
    /\ \/ doc[d] = "active" /\ doc' = [doc EXCEPT ![d] = "missing"]
       \/ doc[d] \in {"missing", "old"} /\ doc' = [doc EXCEPT ![d] = "active"]
    /\ UNCHANGED <<source, idx, queue, files, child, pass>>

Scan(d) ==
    /\ At("idle") /\ source.state = "active"
    /\ \/ doc[d] = "active" /\ doc' = [doc EXCEPT ![d] = "missing"]
       \/ doc[d] \in {"missing", "old"} /\ doc' = [doc EXCEPT ![d] = "active"]
    /\ UNCHANGED <<source, idx, queue, files, child, pass>>

-----------------------------------------------------------------------------
(* The child of a job, as far as files and index rows go                   *)

ChildGoes(d, pc) == child' = [child EXCEPT ![d] = pc]

Superseded(d) == source.state # "active" \/ doc[d] # "active"

StartChild(d) ==
    /\ child[d] = "none" /\ ~Superseded(d)
    /\ ChildGoes(d, "fetch")
    /\ UNCHANGED <<rows, files, pass>>

\* _prepared_source_item reads the rows of source and item, then copies.
Fetch(d) ==
    /\ child[d] = "fetch" /\ source.state # "gone"
    /\ dir' = [dir EXCEPT ![d] = "used"]
    /\ ChildGoes(d, "convert")
    /\ UNCHANGED <<rows, pdf, pass>>

\* convert_office_to_pdf: a PDF of the same content is taken as it is.
Convert(d) ==
    /\ child[d] = "convert" /\ dir[d] = "used"
    /\ pdf' = [pdf EXCEPT ![d] = TRUE]
    /\ ChildGoes(d, "build")
    /\ UNCHANGED <<rows, dir, pass>>

\* The context manager removes the directory behind the build.
Build(d) ==
    /\ child[d] = "build" /\ pdf[d]
    /\ dir' = [dir EXCEPT ![d] = "none"]
    /\ ChildGoes(d, "fence")
    /\ UNCHANGED <<rows, pdf, pass>>

Fence(d) ==
    /\ child[d] = "fence"
    /\ ChildGoes(d, IF Superseded(d) THEN "none" ELSE "publish")
    /\ UNCHANGED <<rows, files, pass>>

\* Without its document the insertion breaks a foreign key.
Publish(d) ==
    /\ child[d] = "publish"
    /\ idx' = [idx EXCEPT ![d] = doc[d] # "gone"]
    /\ ChildGoes(d, "none")
    /\ UNCHANGED <<source, doc, queue, files, pass>>

\* A step raises, which removes the directory, or the process is killed.
ChildEnds(d) ==
    /\ child[d] # "none"
    /\ \/ dir' = [dir EXCEPT ![d] = IF child[d] \in {"fetch", "convert",
                                                     "build"}
                                      THEN "none" ELSE @]
       \/ dir' = [dir EXCEPT ![d] = IF @ = "used" THEN "left" ELSE @]
    /\ ChildGoes(d, "none")
    /\ UNCHANGED <<rows, pdf, pass>>

-----------------------------------------------------------------------------
(* The pass: run_due_purges every 5 seconds, run_once every hour           *)

StartPass ==
    /\ At("idle")
    /\ \E full \in BOOLEAN :
         pass' = [NoPass EXCEPT !.pc = "due", !.full = full]
    /\ UNCHANGED <<rows, files, child>>

Then(pc) == pass' = [pass EXCEPT !.pc = pc]

AfterPurge == IF pass.full THEN "missing" ELSE "queue"

\* No transaction is open before the first write: what is read here may have
\* been restored when it is purged.
ReadDue ==
    /\ At("due")
    /\ Then(IF source.state = "pending_purge" /\ source.due THEN "purge"
            ELSE AfterPurge)
    /\ UNCHANGED <<rows, files, child>>

\* _queue_converted_artifacts: the files there are, one purged before, too.
Queued(D) == [d \in Docs |-> IF d \in D /\ pdf[d] THEN "queued" ELSE queue[d]]

PurgeSource ==
    /\ At("purge")
    /\ source' = [state |-> "gone", due |-> FALSE]
    /\ queue' = Queued(Docs)
    /\ doc' = [d \in Docs |-> "gone"]
    /\ idx' = [d \in Docs |-> FALSE]
    /\ pass' = [pass EXCEPT !.pc = AfterPurge, !.purged = Docs]
    /\ UNCHANGED <<files, child>>

ReadMissing ==
    /\ At("missing")
    /\ pass' = [pass EXCEPT !.pc = "retire",
                            !.todo = {d \in Docs : doc[d] = "old" /\ idx[d]}]
    /\ UNCHANGED <<rows, files, child>>

RetireIndexes ==
    /\ At("retire")
    /\ queue' = Queued(pass.todo)
    /\ idx' = [d \in Docs |-> idx[d] /\ d \notin pass.todo]
    /\ pass' = [pass EXCEPT !.pc = "queue", !.todo = {}]
    /\ UNCHANGED <<source, doc, files, child>>

ReadQueue ==
    /\ At("queue")
    /\ pass' = [pass EXCEPT !.pc = "unlink",
                            !.todo = {d \in Docs : queue[d] = "queued"}]
    /\ UNCHANGED <<rows, files, child>>

\* A file that cannot be removed stays in the queue, with an error.
Unlink(d) ==
    /\ At("unlink") /\ d \in pass.todo
    /\ \/ /\ pdf' = [pdf EXCEPT ![d] = FALSE]
          /\ pass' = [pass EXCEPT !.todo = @ \ {d}, !.unlinked = @ \cup {d}]
       \/ /\ pass' = [pass EXCEPT !.todo = @ \ {d}]
          /\ UNCHANGED pdf
    /\ UNCHANGED <<rows, dir, child>>

\* Mutation: a queue entry is done with however its removal went.
MarkAll ==
    /\ At("unlink") /\ pass.todo = {}
    /\ queue' = [d \in Docs |-> IF queue[d] = "queued" THEN "purged"
                                                       ELSE queue[d]]
    /\ pass' = [pass EXCEPT !.pc = "temporary", !.unlinked = {}]
    /\ UNCHANGED <<source, doc, idx, files, child>>

\* The marks of all files are committed together.
Mark ==
    /\ At("unlink") /\ pass.todo = {}
    /\ queue' = [d \in Docs |-> IF d \in pass.unlinked THEN "purged"
                                                       ELSE queue[d]]
    /\ pass' = [pass EXCEPT !.pc = "temporary", !.unlinked = {}]
    /\ UNCHANGED <<source, doc, idx, files, child>>

\* The directories of what was purged, in use or not, and those that are
\* older than 24 hours, which no child lives to be.
RemoveTemporary ==
    /\ At("temporary")
    /\ \E old \in SUBSET {d \in Docs : dir[d] = "left"} :
         dir' = [d \in Docs |-> IF d \in pass.purged \cup old THEN "none"
                                                              ELSE dir[d]]
    /\ pass' = NoPass
    /\ UNCHANGED <<rows, pdf, child>>

\* The database is locked, or the worker is killed and starts again: what was
\* not committed is lost, a removed file is not.
PassEnds ==
    /\ ~At("idle")
    /\ pass' = NoPass
    /\ UNCHANGED <<rows, files, child>>

Next ==
    \/ RequestPurge \/ RestoreSource \/ DisableSource \/ WindowEnds
    \/ ValidateSource
    \/ StartPass \/ ReadDue \/ PurgeSource \/ ReadMissing \/ RetireIndexes
    \/ ReadQueue \/ Mark \/ RemoveTemporary \/ PassEnds
    \/ \E d \in Docs :
         \/ Age(d) \/ Scan(d) \/ Unlink(d)
         \/ StartChild(d) \/ Fetch(d) \/ Convert(d) \/ Build(d) \/ Fence(d)
         \/ Publish(d) \/ ChildEnds(d)

Spec == Init /\ [][Next]_vars

-----------------------------------------------------------------------------
(* Properties, of every step *)

\* A converted PDF of a document that has been purged, which no pass has to
\* remove, or which is there again after the present one has removed it.
Orphaned(d) ==
    /\ pdf[d] /\ doc[d] = "gone"
    /\ queue[d] # "queued" \/ d \in pass.unlinked

\* Through failed removals, killed workers and repeated passes, the files of
\* a purged source are in the queue until they are gone, but for the PDF a
\* child writes after the purge, when its fetch was before it.
LeftOnlyByLateConversion ==
    \A d \in Docs : ~Orphaned(d) /\ Orphaned(d)' =>
        child[d] = "convert" /\ doc[d] = "gone"

\* An index is removed while its document is missing, or with it: none that
\* a synchronization has put back into retrieval since it was read.
ServedIndexKept ==
    \A d \in Docs : idx[d] /\ ~idx'[d] => doc[d] = "old" \/ doc'[d] = "gone"
=============================================================================
