------------------------------ MODULE Settings ------------------------------
(***************************************************************************)
(* System settings: the forms of the settings page                         *)
(* (components/system-settings-form, components/embedding-settings-panel), *)
(* the route they save through (api/admin/settings), the table             *)
(* (repos/system-settings-store) and the environment file of the           *)
(* deployment (lib/server-env-file), which the next start reads.           *)
(*                                                                         *)
(* A form sends every setting it shows, so a page that was opened before   *)
(* another one saved writes its old values back; a key is sent only when   *)
(* it was typed.  A model is shown as format and name and put together     *)
(* again by the route, also when nobody touched it.  The route has one     *)
(* await, for the body: what follows it is one action, its failures at the *)
(* file and between the file and the table are others.                     *)
(***************************************************************************)
EXTENDS Naturals, FiniteSets

CONSTANTS
    Pages,
    Roots,        \* host paths, compared without trailing separators
    First,        \* the root the deployment was installed with
    Torn,         \* the root a start mounts when the line in the file is
                  \* cut short or lost (then the default of compose)
    NoRoot,
    Providers,    \* of the models as installed, "none" where they have none
    MaxValue,     \* values of a field, names of models (bound)
    MaxSaves,     \* saves under way at once, of all tabs and forms (bound)
    MaxEvents     \* edits of a page, changes of the root begun (bound)

\* The settings that are sent as they are stored, by the form that has them;
\* 0 is empty where a setting may be, else one value of several.
LlmField == {"concurrency", "limit", "llmUrl", "llmKey"}
EmbField == {"embUrl", "embKey", "embModel"}
Field == LlmField \cup EmbField

Value == 0 .. MaxValue

\* What a body has of a field it does not name.
Undefined == MaxValue + 1

\* What the embedding form takes from the language model when it is empty.
Inherited == {"embUrl", "embKey"}

\* Models as they are stored, with or without the prefix of a provider, and as
\* the form shows them.
Role == {"llmModel", "llmRetrievalModel"}

Format == {"openai", "anthropic"}

Model == [prefix : Format \cup {"none"}, name : 1 .. MaxValue]

Choice == [format : Format, name : 1 .. MaxValue]

\* splitLlmModel: without a prefix the format is that of OpenAI.
Split(m) == [format |-> IF m.prefix = "none" THEN "openai" ELSE m.prefix,
             name |-> m.name]

\* buildLlmModel
Build(c) == [prefix |-> c.format, name |-> c.name]

\* The three forms, each with one save under way at most, and what they own
\* (that of the root, which is not in the table alone, nothing of these).
Forms == {"llm", "embedding", "root"}

Owned(k) == CASE k = "llm" -> LlmField \cup Role
              [] k = "embedding" -> EmbField
              [] k = "root" -> {}

VARIABLES
    saved,      \* system_settings or else the environment: the fields
    model,      \* ... and the models
    pending,    \* the projects root recorded in the table
    configured, \* appConfig.envFilePath is set
    envFile,    \* REASONKB_PROJECTS_ROOT in the environment file
    current,    \* ... and in the environment of the running server
    page,       \* the settings page in each tab
    sent,       \* the saves of its forms
    events

server == <<saved, model, pending, configured, envFile, current>>

vars == <<server, page, sent, events>>

(***************************************************************************)
(* show      the fields of the forms; a key is empty until typed           *)
(* choice    the models, the one for retrieval while separate is on        *)
(* inherit   what the embedding form takes from the language model         *)
(* enabled   the switch of the embedding form                              *)
(* keyKept   an embedding key of its own was saved when the page was read  *)
(* url       the embedding base URL in force when the page was read        *)
(* root      the current projects root as the page was last told           *)
(* typed     settings the user touched since the page was opened           *)
(* stale     settings another tab saved since then                         *)
(***************************************************************************)
Page == [open : BOOLEAN, show : [Field -> Value], choice : [Role -> Choice],
         separate : BOOLEAN, inherit : SUBSET Inherited, enabled : BOOLEAN,
         keyKept : BOOLEAN, url : Value, root : Roots,
         typed : SUBSET (Field \cup Role), stale : SUBSET (Field \cup Role)]

NoChoice == [m \in Role |-> [format |-> "openai", name |-> 1]]

Closed == [open |-> FALSE, show |-> [f \in Field |-> 0], choice |-> NoChoice,
           separate |-> FALSE, inherit |-> {}, enabled |-> FALSE,
           keyKept |-> FALSE, url |-> 0, root |-> First,
           typed |-> {}, stale |-> {}]

\* The body of a PATCH: fields, models (of the form that has them), or a root
\* (of the dialog, or of the answer to it).
Request == [state : {"none", "sent", "done"},
            body : [Field -> Value \cup {Undefined}],
            choice : [Role -> Choice], root : Roots]

NoRequest == [state |-> "none", body |-> [f \in Field |-> Undefined],
              choice |-> NoChoice, root |-> First]

TypeOK ==
    /\ saved \in [Field -> Value]
    /\ model \in [Role -> Model]
    /\ pending \in Roots \cup {NoRoot}
    /\ configured \in BOOLEAN
    /\ {envFile, current} \subseteq Roots
    /\ page \in [Pages -> Page]
    /\ sent \in [Pages -> [Forms -> Request]]
    /\ events \in 0 .. MaxEvents

\* All fields start empty or all at one value; the models, which may come from
\* the environment, have any prefix.
Init ==
    /\ \E v \in Value : saved = [f \in Field |-> v]
    /\ model \in [Role -> {m \in Model : m.prefix \in Providers}]
    /\ pending \in {NoRoot, First}
    /\ configured \in BOOLEAN
    /\ envFile = First /\ current = First
    /\ page = [p \in Pages |-> Closed]
    /\ sent = [p \in Pages |-> [k \in Forms |-> NoRequest]]
    /\ events = 0

Happens == events < MaxEvents /\ events' = events + 1

\* A tab that is open, or was closed while a save of it was under way.
Underway(p) == page[p].open \/ \E k \in Forms : sent[p][k].state = "sent"

\* The base URL of the embedding form: its own, or the language model's.
EmbUrl == IF saved["embUrl"] # 0 THEN saved["embUrl"] ELSE saved["llmUrl"]

-----------------------------------------------------------------------------
(* The page *)

Open(p) ==
    /\ ~Underway(p)
    /\ page' = [page EXCEPT ![p] =
         [open |-> TRUE,
          show |-> [f \in Field |-> CASE f \in {"llmKey", "embKey"} -> 0
                                      [] f = "embUrl" -> EmbUrl
                                      [] OTHER -> saved[f]],
          choice |-> [m \in Role |-> Split(model[m])],
          separate |-> Split(model["llmModel"])
                         # Split(model["llmRetrievalModel"]),
          inherit |-> {f \in Inherited : saved[f] = 0},
          enabled |-> saved["embModel"] # 0,
          keyKept |-> saved["embKey"] # 0, url |-> EmbUrl, root |-> current,
          typed |-> {}, stale |-> {}]]
    /\ UNCHANGED <<server, sent, events>>

\* The user changes what the page shows of the settings named.
Edit(p, settings, edited) ==
    /\ page[p].open /\ edited # page[p] /\ Happens
    /\ page' = [page EXCEPT ![p] = [edited EXCEPT !.typed = @ \cup settings]]
    /\ UNCHANGED <<server, sent>>

\* A field; those of the embedding form while it is enabled and they are not
\* inherited.
Type(p, f, v) ==
    /\ f \in EmbField => page[p].enabled /\ f \notin page[p].inherit
    /\ Edit(p, {f}, [page[p] EXCEPT !.show[f] = v])

\* A model; without a separate one for retrieval it is both.
Choose(p, m, c) ==
    /\ m = "llmRetrievalModel" => page[p].separate
    /\ Edit(p, IF page[p].separate THEN {m} ELSE Role,
            [page[p] EXCEPT !.choice[m] = c])

\* The checkbox of the separate retrieval model, which starts as the other.
Separate(p) ==
    LET answer == page[p].choice["llmModel"]
    IN Edit(p, {"llmRetrievalModel"},
            [page[p] EXCEPT
               !.separate = ~@,
               !.choice["llmRetrievalModel"] = IF page[p].separate THEN @
                                               ELSE answer])

\* The checkboxes of the embedding form.  The inherited URL is shown, and is
\* where the user starts from who no longer inherits it.
Inherit(p, f) ==
    /\ page[p].enabled
    /\ Edit(p, {f}, [page[p] EXCEPT
                       !.inherit = IF f \in @ THEN @ \ {f} ELSE @ \cup {f},
                       !.show["embUrl"] = IF f = "embUrl" THEN page[p].url
                                          ELSE @])

Enable(p) == Edit(p, {"embModel"}, [page[p] EXCEPT !.enabled = ~@])

\* router.refresh, after a save, by a button or a timer: the page reads anew
\* whether a key is kept and which URL would be inherited, and no field.
Refresh(p) ==
    /\ page[p].open
    /\ page' = [page EXCEPT ![p].keyKept = saved["embKey"] # 0,
                            ![p].url = EmbUrl,
                            ![p].show["embUrl"] =
                              IF "embUrl" \in page[p].inherit THEN EmbUrl
                              ELSE @]
    /\ UNCHANGED <<server, sent, events>>

Send(p, k, body, choice, root) ==
    /\ page[p].open /\ sent[p][k].state = "none"
    /\ Cardinality({r \in Pages \X Forms : sent[r[1]][r[2]].state # "none"})
         < MaxSaves
    /\ sent' = [sent EXCEPT ![p][k] =
         [state |-> "sent", body |-> body, choice |-> choice, root |-> root]]
    /\ UNCHANGED <<server, page>>

Fields(values, fields) ==
    [f \in Field |-> IF f \in fields THEN values[f] ELSE Undefined]

\* The models the form sends: for retrieval the other one unless separate.
Effective(p) ==
    [m \in Role |-> IF page[p].separate THEN page[p].choice[m]
                    ELSE page[p].choice["llmModel"]]

\* Mutation: the language model's key is sent as the form shows it.
SubmitLlmWithKey(p) ==
    /\ Send(p, "llm", Fields(page[p].show, LlmField), Effective(p), First)
    /\ UNCHANGED events

\* handleSubmit: the key only when one is typed.
SubmitLlm(p) ==
    LET show == page[p].show
        fields == IF show["llmKey"] # 0 THEN LlmField
                  ELSE LlmField \ {"llmKey"}
    IN /\ Send(p, "llm", Fields(show, fields), Effective(p), First)
       /\ UNCHANGED events

\* save of the embedding form: inheriting sends an empty value, a key that is
\* kept is not sent, disabling empties the model, whatever the rest.
SubmitEmbedding(p) ==
    LET show == page[p].show
        inherit == page[p].inherit
        enabled == page[p].enabled
        fields == IF "embKey" \in inherit \/ show["embKey"] # 0 THEN EmbField
                  ELSE EmbField \ {"embKey"}
    IN /\ enabled => /\ "embKey" \in fields \/ page[p].keyKept
                     /\ "embUrl" \in inherit \/ show["embUrl"] # 0
                     /\ show["embModel"] # 0
       /\ Send(p, "embedding",
               Fields([f \in EmbField |->
                         IF f \in inherit \/ (f = "embModel" /\ ~enabled)
                           THEN 0 ELSE show[f]], fields),
               NoChoice, First)
       /\ UNCHANGED events

\* handleProjectsRootSwitch: only to a root that is not the current one.
SwitchRoot(p, r) ==
    /\ r # page[p].root /\ Happens
    /\ Send(p, "root", NoRequest.body, NoChoice, r)

\* The answer to a switch tells the current root; an embedding form that is
\* saved forgets its key.
Receive(p, k) ==
    /\ sent[p][k].state = "done"
    /\ page' = [page EXCEPT
         ![p].root = IF k = "root" THEN sent[p][k].root ELSE @,
         ![p].show["embKey"] = IF k = "embedding" THEN 0 ELSE @]
    /\ sent' = [sent EXCEPT ![p][k] = NoRequest]
    /\ UNCHANGED <<server, events>>

\* The tab is closed or loaded anew; what it sent is still handled.
Leave(p) ==
    /\ page[p].open
    /\ sent' = [sent EXCEPT ![p] = [k \in Forms |->
                  IF @[k].state = "sent" THEN @[k] ELSE NoRequest]]
    /\ page' = [page EXCEPT ![p] =
                  IF \E k \in Forms : sent[p][k].state = "sent"
                    THEN [Closed EXCEPT !.typed = page[p].typed,
                                        !.stale = page[p].stale]
                    ELSE Closed]
    /\ UNCHANGED <<server, events>>

-----------------------------------------------------------------------------
(* The route and the deployment *)

Refuse(p, k) == sent' = [sent EXCEPT ![p][k] = NoRequest]

\* PATCH: the file first, when it is configured, then the table in one
\* transaction.  Of the other pages, those that still show what was replaced
\* are stale.
Save(p, k) ==
    /\ sent[p][k].state = "sent"
    /\ LET body == sent[p][k].body
       IN saved' = [f \in Field |-> IF body[f] = Undefined THEN saved[f]
                                    ELSE body[f]]
    /\ model' = IF k = "llm"
                  THEN [m \in Role |-> Build(sent[p][k].choice[m])]
                  ELSE model
    /\ pending' = IF k = "root" THEN sent[p][k].root ELSE pending
    /\ envFile' = IF k = "root" /\ configured THEN sent[p][k].root
                  ELSE envFile
    /\ LET replaced == {f \in Field : saved'[f] # saved[f]}
                         \cup {m \in Role : model'[m] # model[m]}
       IN page' = [q \in Pages |->
                     IF q # p /\ Underway(q)
                       THEN [page[q] EXCEPT !.stale = @ \cup replaced]
                       ELSE page[q]]
    /\ sent' = [sent EXCEPT ![p][k] =
         IF page[p].open
           THEN [NoRequest EXCEPT !.state = "done", !.root = current]
           ELSE NoRequest]
    /\ UNCHANGED <<configured, current, events>>

\* Mutation: the root was recorded before the file.
EnvFailsRecorded(p) ==
    /\ sent[p]["root"].state = "sent" /\ configured
    /\ envFile' \in {envFile, sent[p]["root"].root, Torn}
    /\ pending' = sent[p]["root"].root
    /\ Refuse(p, "root")
    /\ UNCHANGED <<saved, model, configured, current, page, events>>

\* The file cannot be read or written: nothing is recorded.  writeFileSync has
\* emptied it before it writes, so that the line may be as it was, new, cut
\* short or lost.
EnvFails(p) ==
    /\ sent[p]["root"].state = "sent" /\ configured
    /\ envFile' \in {envFile, sent[p]["root"].root, Torn}
    /\ Refuse(p, "root")
    /\ UNCHANGED <<saved, model, pending, configured, current, page, events>>

\* The table is busy, or the server stops, when the file has been written.
TableFails(p, k) ==
    /\ sent[p][k].state = "sent"
    /\ envFile' = IF k = "root" /\ configured THEN sent[p][k].root
                  ELSE envFile
    /\ Refuse(p, k)
    /\ UNCHANGED <<saved, model, pending, configured, current, page, events>>

\* The operator edits the file by hand.
EditFile(path) ==
    /\ path # envFile /\ Happens
    /\ envFile' = path
    /\ UNCHANGED <<saved, model, pending, configured, current, page, sent>>

\* docker compose up: the container is created with the file as it is, and no
\* save it had not handled is.
Restart ==
    /\ current' = envFile
    /\ sent' = [p \in Pages |-> [k \in Forms |-> NoRequest]]
    /\ UNCHANGED <<saved, model, pending, configured, envFile, page, events>>

Next ==
    \/ \E p \in Pages :
         \/ Open(p) \/ Separate(p) \/ Enable(p) \/ Refresh(p) \/ SubmitLlm(p)
         \/ SubmitEmbedding(p) \/ Leave(p) \/ EnvFails(p)
         \/ \E f \in Inherited : Inherit(p, f)
         \/ \E f \in Field, v \in Value : Type(p, f, v)
         \/ \E m \in Role, c \in Choice : Choose(p, m, c)
         \/ \E r \in Roots : SwitchRoot(p, r)
         \/ \E k \in Forms : Receive(p, k) \/ Save(p, k) \/ TableFails(p, k)
    \/ \E path \in Roots : EditFile(path)
    \/ Restart

Spec == Init /\ [][Next]_vars

-----------------------------------------------------------------------------
(* Properties; KeptUnlessTouched and SwitchCompletes are of every step. *)

\* A save that ends in this step is of the form that owns the setting, in a tab
\* where it was touched.
SavedByToucher(s) ==
    \E p \in Pages, k \in Forms :
      /\ sent[p][k].state = "sent" /\ sent'[p][k].state # "sent"
      /\ s \in Owned(k) /\ s \in page[p].typed \cup page[p].stale

\* Saving one form changes what its user touched, and nothing else: a key that
\* was not typed again, the other form's settings and a model stay; only a page
\* opened before another one saved writes older values back, and a model that
\* names no provider is stored as one of OpenAI, of the same name.
KeptUnlessTouched ==
    /\ \A f \in Field : saved'[f] # saved[f] => SavedByToucher(f)
    /\ \A m \in Role : model'[m] # model[m] =>
         \/ SavedByToucher(m)
         \/ /\ model[m].prefix = "none"
            /\ model'[m] = [model[m] EXCEPT !.prefix = "openai"]

\* A start of the deployment completes the recorded switch: the file and the
\* table are told apart only by a save that failed at the file or between the
\* two and recorded nothing, by hand, or by a save where no file is configured.
SwitchCompletes ==
    (pending' # NoRoot /\ pending' # envFile') =>
      \/ pending # NoRoot /\ pending # envFile
      \/ /\ pending' = pending
         /\ \E p \in Pages : EnvFails(p) \/ TableFails(p, "root")
      \/ \E path \in Roots : EditFile(path)
      \/ ~configured /\ \E p \in Pages : Save(p, "root")
=============================================================================
