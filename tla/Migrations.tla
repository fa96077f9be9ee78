----------------------------- MODULE Migrations -----------------------------
(***************************************************************************)
(* The migration of the database at the start of the web server            *)
(* (db/migrate, db/migrations, db/legacy-corpus-migration).                *)
(*                                                                         *)
(* Each migration and the row that records it are one transaction.  The    *)
(* second one takes the documents of earlier releases over: it deletes the *)
(* demo uploads, whose files it queues, and gives the rest a source, or    *)
(* fails and leaves the database as it was.  Files are removed after the   *)
(* migrations.  The start may be killed between any two steps, and is then *)
(* repeated; the operator may put right what made it fail.                 *)
(***************************************************************************)
EXTENDS Naturals, FiniteSets

CONSTANTS
    Docs,
    MaxStarts       \* starts of the server (bound)

VARIABLES
    applied,    \* schema_migrations
    row,        \* documents
    file,       \* whether the document's file exists
    queue,      \* managed_file_purge_queue
    scope,      \* the scope of the source the second migration made
    given,      \* the deployment names the source's root or credentials
    start       \* the start under way

vars == <<applied, row, file, queue, scope, given, start>>

Versions == 1 .. 13
Legacy == 2     \* migrate-legacy-corpus
Repair == 5     \* repair-legacy-smb-uri-scope

(***************************************************************************)
(* "upload"     an upload of the demo                                      *)
(* "source"     a document of the one source root                          *)
(* "elsewhere"  of a second root, or in a project of two collections       *)
(* "unlocated"  of a source, without its path there                        *)
(* "taken"      given its source, collection and item                      *)
(* "split"      ... though its root is not that of the other documents     *)
(***************************************************************************)
Kind == {"none", "upload", "source", "elsewhere", "unlocated", "taken",
         "split"}

Uploads == {d \in Docs : row[d] = "upload"}
Backed == {d \in Docs : row[d] \in {"source", "elsewhere", "unlocated"}}

Start == [pc : {"down", "look", "apply", "purge", "mark"},
          at : 1 .. 14, todo : SUBSET Docs, doc : SUBSET Docs,
          count : 0 .. MaxStarts]

TypeOK ==
    /\ applied \subseteq Versions
    /\ row \in [Docs -> Kind]
    /\ file \in [Docs -> BOOLEAN]
    /\ queue \in [Docs -> {"none", "queued", "purged"}]
    /\ scope \in {"none", "good", "uri"}
    /\ given \in BOOLEAN
    /\ start \in Start

\* A database of a release before the sources, or of one that took an SMB
\* address for the name of its host.
Init ==
    /\ \/ /\ applied = {} /\ scope = "none"
          /\ row \in [Docs -> Kind \ {"none", "taken", "split"}]
       \/ /\ applied = 1 .. 4 /\ scope \in {"good", "uri"}
          /\ row \in [Docs -> {"taken", "split"}]
    /\ file = [d \in Docs |-> row[d] = "upload"]
    /\ queue = [d \in Docs |-> "none"]
    /\ given \in BOOLEAN
    /\ start = [pc |-> "down", at |-> 1, todo |-> {}, doc |-> {}, count |-> 0]

-----------------------------------------------------------------------------
(* The start *)

KeepData == UNCHANGED <<applied, row, file, queue, scope>>

At(pc) == start.pc = pc

\* schema.sql and the columns of earlier releases, each only when missing.
Begin ==
    /\ At("down") /\ start.count < MaxStarts
    /\ start' = [start EXCEPT !.pc = "look", !.at = 1, !.count = @ + 1]
    /\ KeepData /\ UNCHANGED given

\* Is the next version applied?  After the last one come the queued files.
Look ==
    /\ At("look")
    /\ start' =
         IF start.at \notin Versions
           THEN [start EXCEPT !.pc = "purge",
                              !.todo = {d \in Docs : queue[d] = "queued"}]
         ELSE IF start.at \in applied THEN [start EXCEPT !.at = @ + 1]
         ELSE [start EXCEPT !.pc = "apply"]
    /\ KeepData /\ UNCHANGED given

\* migrateLegacyCorpus and repairLegacySmbUriScopes reject what they cannot
\* place.
Rejects(v) ==
    \/ v = Legacy /\ \/ \E d \in Docs : row[d] \in {"unlocated", "elsewhere"}
                     \/ Backed # {} /\ ~given
    \/ v = Repair /\ scope = "uri" /\ \E d \in Docs : row[d] = "split"

Down(s) == [s EXCEPT !.pc = "down", !.todo = {}, !.doc = {}]

\* Mutation: the files go when the migration comes to them.
RejectPurged ==
    /\ At("apply") /\ Rejects(start.at)
    /\ file' = [d \in Docs |-> file[d] /\ ~(start.at = Legacy
                                             /\ row[d] = "upload")]
    /\ start' = Down(start)
    /\ UNCHANGED <<applied, row, queue, scope, given>>

\* The migration throws: its transaction is rolled back, the start fails.
Reject ==
    /\ At("apply") /\ Rejects(start.at)
    /\ start' = Down(start)
    /\ KeepData /\ UNCHANGED given

\* The documents after migrateLegacyCorpus.
TakenOver(d) ==
    CASE d \in Uploads -> "none"
      [] d \in Backed -> "taken"
      [] OTHER -> row[d]

Apply ==
    /\ At("apply") /\ ~Rejects(start.at)
    /\ applied' = applied \cup {start.at}
    /\ IF start.at = Legacy
         THEN /\ row' = [d \in Docs |-> TakenOver(d)]
              /\ queue' = [d \in Docs |-> IF d \in Uploads THEN "queued"
                                                           ELSE queue[d]]
              /\ scope' = IF Backed # {} THEN "good" ELSE scope
         ELSE /\ scope' = IF start.at = Repair /\ scope = "uri" THEN "good"
                                                                ELSE scope
              /\ UNCHANGED <<row, queue>>
    /\ start' = [start EXCEPT !.pc = "look", !.at = @ + 1]
    /\ UNCHANGED <<file, given>>

\* purgeQueuedManagedFiles: a file that is not in the upload root, is a
\* directory or cannot be removed stays queued, with an error.
Remove(d) ==
    /\ At("purge") /\ d \in start.todo
    /\ \/ /\ file' = [file EXCEPT ![d] = FALSE]
          /\ start' = [start EXCEPT !.pc = "mark", !.todo = @ \ {d},
                                    !.doc = {d}]
       \/ /\ start' = [start EXCEPT !.todo = @ \ {d}]
          /\ UNCHANGED file
    /\ UNCHANGED <<applied, row, queue, scope, given>>

Mark ==
    /\ At("mark")
    /\ queue' = [d \in Docs |-> IF d \in start.doc THEN "purged" ELSE queue[d]]
    /\ start' = [start EXCEPT !.pc = "purge", !.doc = {}]
    /\ UNCHANGED <<applied, row, file, scope, given>>

\* The start is over and the server runs until it is started again; or it is
\* killed at this step.
Stop ==
    /\ ~At("down")
    /\ start' = Down(start)
    /\ KeepData /\ UNCHANGED given

\* The operator names the root, or corrects a document, after a failed start.
Correct(d) ==
    /\ At("down") /\ row[d] \in {"elsewhere", "unlocated", "split"}
    /\ row' = [row EXCEPT ![d] = IF @ = "split" THEN "taken" ELSE "source"]
    /\ UNCHANGED <<applied, file, queue, scope, given, start>>

Give ==
    /\ At("down") /\ ~given /\ given' = TRUE
    /\ KeepData /\ UNCHANGED start

Next ==
    \/ Begin \/ Look \/ Reject \/ Apply \/ Mark \/ Stop \/ Give
    \/ \E d \in Docs : Remove(d) \/ Correct(d)

Spec == Init /\ [][Next]_vars

-----------------------------------------------------------------------------
(* Properties *)

\* Through failed migrations, killed starts and repeated ones, the file of an
\* upload exists while its document does; afterwards it is in the queue until
\* it is gone, so that none is lost before its time or left for good.
FilesAccounted ==
    \A d \in Docs : /\ d \in Uploads => file[d]
                    /\ file[d] => d \in Uploads \/ queue[d] = "queued"
=============================================================================
