------------------------------- MODULE MCWeb -------------------------------
(***************************************************************************)
(* The components that share no state with the pipeline or with each       *)
(* other, in one instance: Init chooses the part that runs.  The others    *)
(* never take a step: those this module extends stay in one state they may *)
(* start in, the variables of those it instantiates have no value.  A      *)
(* product of independent components shows no more of each than this sum.  *)
(***************************************************************************)
EXTENDS McpGateway, Chat, ApiKeys, AgentAccess

CONSTANTS
    Parts,        \* the parts that run
    Off           \* no value

(* Of the parts that are instantiated: streams, the administrator's        *)
(* sessions, settings, semantic index, database migrations, item browser,  *)
(* source migration and maintenance; names that several of them use are    *)
(* told apart here.                                                        *)

CONSTANTS
    StreamEvents,
    Browsers, Sessions, MaxPassword, Nobody,
    Pages, Roots, FirstRoot, Torn, NoRoot, Providers, MaxValue, MaxSaves, Edits,
    Mixed,        \* settings of any kind differ in one installation
    Models, NoModel, FirstModel, MaxGens, Indexed, MaxVersion,
    Workers, NoWorker, Lost, Disturbances,
    Uploaded, MaxStarts,
    Colls, NoColl, MaxMigs, MaxFilter, Relocations,
    Items, Folders, Whole, Shelves, NoShelf, Home, Names, FirstName, Limit,
    MaxClock, MaxCalls, MaxRules, Early,
    Purged

ASSUME PartsKnown ==
    Parts \subseteq {"gateway", "chat", "keys", "access", "stream", "sessions",
                     "settings", "semantic", "migrations", "browser",
                     "relocation", "upkeep"}

ASSUME StreamBounds == StreamEvents \in Nat

ASSUME SessionBounds == MaxPassword \in Nat \ {0} /\ Nobody \notin Sessions

ASSUME SettingsBounds ==
    /\ {FirstRoot, Torn} \subseteq Roots
    /\ Providers \subseteq {"openai", "anthropic", "none"}
    /\ MaxValue \in Nat \ {0} /\ MaxSaves \in Nat /\ Edits \in Nat

ASSUME SemanticBounds ==
    /\ FirstModel \in Models \cup {NoModel}
    /\ MaxGens \in Nat /\ MaxVersion \in Nat /\ Disturbances \in Nat

ASSUME MigrationBounds == MaxStarts \in Nat

ASSUME RelocationBounds ==
    MaxMigs \in Nat \ {0} /\ MaxFilter \in Nat /\ Relocations \in Nat

ASSUME BrowserBounds ==
    /\ Items \subseteq Nat \ {0} /\ IsFiniteSet(Items)
    /\ Folders \subseteq Items /\ Whole \notin Items \cup {0}
    /\ Names \subseteq Nat \ {0} /\ Home \in Shelves /\ NoShelf \notin Shelves
    /\ Limit \in Nat \ {0} /\ MaxClock \in Nat

VARIABLE part

VARIABLES rWire, rBuffer, rScan, rSent, rDelivered, rPc
VARIABLES aPassword, aSession, aCookie, aCall, aBusy
VARIABLES fSaved, fModel, fPending, fConfigured, fEnv, fCurrent, fPage,
          fSent, fEvents
VARIABLES sDesired, sVersion, sGen, sEmb, sWorker, sEvents
VARIABLES mApplied, mRow, mFile, mQueue, mScope, mGiven, mStart
VARIABLES bRow, bRules, bListed, bSyncing, bClock, bPage, bCalls
VARIABLES uSource, uColl, uMig, uRun, uOrdinary, uWorker, uEvents
VARIABLES kSource, kDoc, kIdx, kPdf, kQueue, kDir, kChild, kPass

stream == <<rWire, rBuffer, rScan, rSent, rDelivered, rPc>>
sessions == <<aPassword, aSession, aCookie, aCall, aBusy>>
settings == <<fSaved, fModel, fPending, fConfigured, fEnv, fCurrent, fPage,
              fSent, fEvents>>
semantic == <<sDesired, sVersion, sGen, sEmb, sWorker, sEvents>>
migrations == <<mApplied, mRow, mFile, mQueue, mScope, mGiven, mStart>>
browser == <<bRow, bRules, bListed, bSyncing, bClock, bPage, bCalls>>
relocation == <<uSource, uColl, uMig, uRun, uOrdinary, uWorker, uEvents>>
upkeep == <<kSource, kDoc, kIdx, kPdf, kQueue, kDir, kChild, kPass>>

vars == <<part, mcpVars, chatVars, keyVars, agentVars, stream, sessions,
          settings, semantic, migrations, browser, relocation, upkeep>>

R == INSTANCE RetrievalStream WITH
    MaxEvents <- StreamEvents,
    wire <- rWire, buffer <- rBuffer, scanFrom <- rScan, sent <- rSent,
    delivered <- rDelivered, pc <- rPc

A == INSTANCE AdminSessions WITH
    password <- aPassword, session <- aSession, cookie <- aCookie,
    call <- aCall, busy <- aBusy

F == INSTANCE Settings WITH
    First <- FirstRoot, MaxEvents <- Edits,
    saved <- fSaved, model <- fModel, pending <- fPending,
    configured <- fConfigured, envFile <- fEnv, current <- fCurrent,
    page <- fPage, sent <- fSent, events <- fEvents

S == INSTANCE SemanticIndex WITH
    Configs <- Models, NoConfig <- NoModel, First <- FirstModel,
    Docs <- Indexed, MaxEvents <- Disturbances,
    desired <- sDesired, version <- sVersion, gen <- sGen, emb <- sEmb,
    worker <- sWorker, events <- sEvents

M == INSTANCE Migrations WITH
    Docs <- Uploaded,
    applied <- mApplied, row <- mRow, file <- mFile, queue <- mQueue,
    scope <- mScope, given <- mGiven, start <- mStart

B == INSTANCE ItemBrowser WITH
    Colls <- Shelves, None <- NoShelf,
    row <- bRow, rules <- bRules, listed <- bListed, syncing <- bSyncing,
    clock <- bClock, page <- bPage, calls <- bCalls

U == INSTANCE SourceMigration WITH
    MaxEvents <- Relocations,
    source <- uSource, coll <- uColl, mig <- uMig, run <- uRun,
    ordinary <- uOrdinary, worker <- uWorker, events <- uEvents

K == INSTANCE SourceMaintenance WITH
    Docs <- Purged,
    source <- kSource, doc <- kDoc, idx <- kIdx, pdf <- kPdf,
    queue <- kQueue, dir <- kDir, child <- kChild, pass <- kPass

-----------------------------------------------------------------------------

\* The browser starts with the Early items at the root; others may be there
\* or come later, and all may be renamed and moved.
BrowserInit ==
    /\ B!Init
    /\ \A i \in Early : bRow[i].name = FirstName
    /\ \A i \in Items : bRow[i].parents = <<>>

\* An installation differs from a plain one in its fields, in its models or in
\* how the root was and will be recorded, unless Mixed in several of these.
SettingsInit ==
    LET fields == fSaved = [f \in F!Field |-> 0]
        models == \A m \in F!Role : fModel[m].prefix = "none"
        roots == fPending = NoRoot /\ fConfigured
    IN /\ F!Init
       /\ \/ Mixed
          \/ fields /\ models
          \/ fields /\ roots
          \/ models /\ roots

Init ==
    /\ part \in Parts
    /\ McpInit /\ (part = "gateway" \/ mode = "stateful")
    /\ ChatInit /\ (part = "chat" \/ \A t \in Turns : turn[t].streams)
    /\ KeyInit
    /\ AgentInit /\ \/ part = "access"
                    \/ \A a \in Agents : granted[a] = {} /\ scopes[a] = Scopes
    /\ IF part = "stream" THEN R!Init
       ELSE /\ rWire = Off /\ rBuffer = Off /\ rScan = Off /\ rSent = Off
            /\ rDelivered = Off /\ rPc = Off
    /\ IF part = "sessions" THEN A!Init
       ELSE /\ aPassword = Off /\ aSession = Off /\ aCookie = Off
            /\ aCall = Off /\ aBusy = Off
    /\ IF part = "settings" THEN SettingsInit
       ELSE /\ fSaved = Off /\ fModel = Off /\ fPending = Off
            /\ fConfigured = Off /\ fEnv = Off /\ fCurrent = Off
            /\ fPage = Off /\ fSent = Off /\ fEvents = Off
    /\ IF part = "semantic" THEN S!Init
       ELSE /\ sDesired = Off /\ sVersion = Off /\ sGen = Off /\ sEmb = Off
            /\ sWorker = Off /\ sEvents = Off
    /\ IF part = "migrations" THEN M!Init
       ELSE /\ mApplied = Off /\ mRow = Off /\ mFile = Off /\ mQueue = Off
            /\ mScope = Off /\ mGiven = Off /\ mStart = Off
    /\ IF part = "browser" THEN BrowserInit
       ELSE /\ bRow = Off /\ bRules = Off /\ bListed = Off
            /\ bSyncing = Off /\ bClock = Off /\ bPage = Off
            /\ bCalls = Off
    /\ IF part = "relocation" THEN U!Init
       ELSE /\ uSource = Off /\ uColl = Off /\ uMig = Off /\ uRun = Off
            /\ uOrdinary = Off /\ uWorker = Off /\ uEvents = Off
    /\ IF part = "upkeep" THEN K!Init
       ELSE /\ kSource = Off /\ kDoc = Off /\ kIdx = Off /\ kPdf = Off
            /\ kQueue = Off /\ kDir = Off /\ kChild = Off /\ kPass = Off

Next ==
    /\ UNCHANGED part
    /\ \/ /\ part = "gateway" /\ McpNext
          /\ UNCHANGED <<chatVars, keyVars, agentVars, stream, sessions,
                       settings, semantic, migrations, browser, relocation,
                       upkeep>>
       \/ /\ part = "chat" /\ ChatNext
          /\ UNCHANGED <<mcpVars, keyVars, agentVars, stream, sessions,
                       settings, semantic, migrations, browser, relocation,
                       upkeep>>
       \/ /\ part = "keys" /\ KeyNext
          /\ UNCHANGED <<mcpVars, chatVars, agentVars, stream, sessions,
                       settings, semantic, migrations, browser, relocation,
                       upkeep>>
       \/ /\ part = "access" /\ AgentNext
          /\ UNCHANGED <<mcpVars, chatVars, keyVars, stream, sessions,
                       settings, semantic, migrations, browser, relocation,
                       upkeep>>
       \/ /\ part = "stream" /\ R!Next
          /\ UNCHANGED <<mcpVars, chatVars, keyVars, agentVars, sessions,
                       settings, semantic, migrations, browser, relocation,
                       upkeep>>
       \/ /\ part = "sessions" /\ A!Next
          /\ UNCHANGED <<mcpVars, chatVars, keyVars, agentVars, stream,
                       settings, semantic, migrations, browser, relocation,
                       upkeep>>
       \/ /\ part = "settings" /\ F!Next
          /\ UNCHANGED <<mcpVars, chatVars, keyVars, agentVars, stream,
                       sessions, semantic, migrations, browser, relocation,
                       upkeep>>
       \/ /\ part = "semantic" /\ S!Next
          /\ UNCHANGED <<mcpVars, chatVars, keyVars, agentVars, stream,
                       sessions, settings, migrations, browser, relocation,
                       upkeep>>
       \/ /\ part = "migrations" /\ M!Next
          /\ UNCHANGED <<mcpVars, chatVars, keyVars, agentVars, stream,
                       sessions, settings, semantic, browser, relocation,
                       upkeep>>
       \/ /\ part = "browser" /\ B!Next
          /\ UNCHANGED <<mcpVars, chatVars, keyVars, agentVars, stream,
                       sessions, settings, semantic, migrations, relocation,
                       upkeep>>
       \/ /\ part = "relocation" /\ U!Next
          /\ UNCHANGED <<mcpVars, chatVars, keyVars, agentVars, stream,
                       sessions, settings, semantic, migrations, browser,
                       upkeep>>
       \/ /\ part = "upkeep" /\ K!Next
          /\ UNCHANGED <<mcpVars, chatVars, keyVars, agentVars, stream,
                       sessions, settings, semantic, migrations, browser,
                       relocation>>

Spec == Init /\ [][Next]_vars

\* The parts that promise that something comes have fairness, owed by the part
\* that runs (the others never take a step).
FairSpec ==
    /\ Spec
    /\ \A r \in Reqs :
         /\ WF_mcpVars(part = "gateway" /\ Progress(r))
         /\ WF_mcpVars(part = "gateway" /\ Deadline(r))
    /\ \A w \in Workers : WF_semantic(part = "semantic" /\ S!Step(w))
    /\ \A g \in S!Gens :
         /\ WF_semantic(part = "semantic" /\ S!LeaseExpires(g))
         /\ WF_semantic(part = "semantic" /\ S!RetryDue(g))
    /\ WF_relocation(part = "relocation" /\ U!Work)

-----------------------------------------------------------------------------
(* Properties: those of the components that are extended hold as they are, *)
(* those of the instances of the part that runs.                           *)

\* The variables of the component that runs have their types.
TypeOK ==
    CASE part = "gateway"    -> McpTypeOK
      [] part = "chat"       -> ChatTypeOK
      [] part = "keys"       -> KeyTypeOK
      [] part = "access"     -> AgentTypeOK
      [] part = "stream"     -> R!TypeOK
      [] part = "sessions"   -> A!TypeOK
      [] part = "settings"   -> F!TypeOK
      [] part = "semantic"   -> S!TypeOK
      [] part = "migrations" -> M!TypeOK
      [] part = "browser"    -> B!TypeOK
      [] part = "relocation" -> U!TypeOK
      [] part = "upkeep"     -> K!TypeOK

\* A retrieval stream hands on its events in order, up to the result,
\* and as soon as they are complete.
DeliveredAsSent == part = "stream" => R!DeliveredAsSent

\* A new password ends every session opened with an earlier one.
OutdatedOnlyByOvertakenLogin ==
    [][part = "sessions" => A!OutdatedOnlyByOvertakenLogin]_sessions

\* Saving a form changes only the settings its user touched, but for a model
\* without a provider, which gets one.
KeptUnlessTouched ==
    [][part = "settings" => F!KeptUnlessTouched]_settings

\* A start of the deployment completes the recorded switch of the root, where
\* the environment file is configured and could be written.
SwitchCompletes ==
    [][part = "settings" => F!SwitchCompletes]_settings

\* Vectors stored for an index are those of that index's text.
VectorsOfTheirIndex == part = "semantic" => S!VectorsOfTheirIndex

\* An upload's file exists while its document does, then it is queued.
FilesAccounted == part = "migrations" => M!FilesAccounted

\* What the browser shows of a folder is what the store has of it.
ShownAsStored == part = "browser" => B!ShownAsStored

\* The wanted model's generation becomes active and complete in the end.
DesiredServed == <>[](part = "semantic" => S!Served)

\* A migration of a source is applied when everything has been scanned.
AppliedAsScanned ==
    [][part = "relocation" => U!AppliedAsScanned]_relocation

\* A pass that removes a source leaves the PDFs of late conversions, no other.
LeftOnlyByLateConversion ==
    [][part = "upkeep" => K!LeftOnlyByLateConversion]_upkeep

\* The retention takes no index of a document that is back.
ServedIndexKept == [][part = "upkeep" => K!ServedIndexKept]_upkeep

\* A migration of a source ends, unless a collection was changed meanwhile.
MigrationEnds ==
    \A m \in U!Migs : LET holds == part = "relocation" /\ U!Holds(m)
                     IN holds ~> ~holds
=============================================================================
