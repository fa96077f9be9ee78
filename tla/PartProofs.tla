------------------------------ MODULE PartProofs ------------------------------
(***************************************************************************)
(* The administrator's sessions, the settings, the semantic index, the     *)
(* migrations of the database and the maintenance of sources, for every    *)
(* number of browsers, pages, workers, documents and events.               *)
(***************************************************************************)
EXTENDS RelocationProofs

\* Which part runs is never changed, and it takes its own steps.
LEMMA PartsRun ==
  ASSUME [Next]_vars
  PROVE  /\ part' = part
         /\ part = "sessions" => [A!Next]_sessions
         /\ part = "settings" => [F!Next]_settings
         /\ part = "semantic" => [S!Next]_semantic
         /\ part = "migrations" => [M!Next]_migrations
         /\ part = "upkeep" => [K!Next]_upkeep
<1>1. CASE Next
  BY <1>1 DEF Next
<1>2. CASE UNCHANGED vars
  BY <1>2 DEF vars, sessions, settings, semantic, migrations, upkeep
<1>. QED BY <1>1, <1>2

-----------------------------------------------------------------------------
(***************************************************************************)
(* Sessions.  A login is only looked at when there is a password, and then *)
(* opens a session of the one that was in force when it was compared: no   *)
(* open session is of the time before the first password, so that setting  *)
(* that one makes none outdated.                                           *)
(***************************************************************************)

LoginsInForce ==
  /\ \A s \in Sessions : aSession[s].state = "open" => aSession[s].opened > 0
  /\ \A b \in Browsers : aCall[b].op = "login" =>
       /\ aCall[b].stage = "authorized" => aPassword > 0
       /\ aCall[b].stage = "verified" => aCall[b].typed > 0

SessionsInv == A!TypeOK /\ LoginsInForce

LEMMA SessionsStart ==
  ASSUME A!Init
  PROVE  SessionsInv
BY SessionBounds
   DEF A!Init, SessionsInv, A!TypeOK, LoginsInForce, A!Call, A!NoCall

\* An answer is none of the stages a login is judged by.
LEMMA Answering ==
  ASSUME A!TypeOK, NEW b \in Browsers, NEW ok \in BOOLEAN
  PROVE  /\ A!Answer(b, ok) \in [Browsers -> A!Call]
         /\ A!Answer(b, ok)[b].stage = "answered"
         /\ \A c \in Browsers : c # b => A!Answer(b, ok)[c] = aCall[c]
<1>1. A!Answer(b, ok) = [aCall EXCEPT ![b] =
                          [aCall[b] EXCEPT !.stage = "answered", !.ok = ok]]
  BY DEF A!Answer, A!TypeOK
<1>2. [aCall[b] EXCEPT !.stage = "answered", !.ok = ok] \in A!Call
  BY DEF A!TypeOK, A!Call
<1>. QED BY <1>1, <1>2 DEF A!TypeOK, A!Call

LEMMA PasswordStep ==
  ASSUME SessionsInv,
         \/ A!Bootstrap \/ A!Reset \/ \E s \in Sessions : A!Expire(s)
  PROVE  SessionsInv'
<1> USE SessionBounds DEF SessionsInv
<1>1. CASE A!Bootstrap
  BY <1>1 DEF A!Bootstrap, A!TypeOK, LoginsInForce, A!Call
<1>2. CASE A!Reset
  BY <1>2 DEF A!Reset, A!Revoked, A!TypeOK, LoginsInForce, A!Call
<1>3. ASSUME NEW s \in Sessions, A!Expire(s)
      PROVE  SessionsInv'
  BY <1>3 DEF A!Expire, A!TypeOK, LoginsInForce, A!Call
<1>. QED BY <1>1, <1>2, <1>3

LEMMA PageStep ==
  ASSUME SessionsInv, NEW b \in Browsers,
         \/ A!SubmitLogin(b) \/ A!SubmitChange(b) \/ A!SubmitLogout(b)
         \/ A!Receive(b)
  PROVE  SessionsInv'
<1> USE SessionBounds DEF SessionsInv
<1>1. ASSUME NEW op \in {"login", "logout", "change"},
             NEW typed \in 0 .. aPassword, A!Send(b, op, typed)
      PROVE  SessionsInv'
  <2> DEFINE new == [A!NoCall EXCEPT !.op = op, !.typed = typed,
                                     !.with = aCookie[b]]
  <2>1. new \in A!Call /\ new.stage = "sent"
    <3>1. typed \in 0 .. MaxPassword /\ aCookie[b] \in Sessions \cup {Nobody}
      BY DEF A!TypeOK
    <3>. QED BY <3>1 DEF A!NoCall, A!Call
  <2>2. aCall' = [aCall EXCEPT ![b] = new]
        /\ UNCHANGED <<aPassword, aSession, aCookie, aBusy>>
    BY <1>1 DEF A!Send
  <2> HIDE DEF new
  <2>. QED BY <2>1, <2>2 DEF A!TypeOK, LoginsInForce
<1>2. CASE A!Receive(b)
  <2>1. A!NoCall \in A!Call /\ A!NoCall.op = "none"
    BY DEF A!NoCall, A!Call
  <2>2. /\ aCookie' \in [Browsers -> Sessions \cup {Nobody}]
        /\ aCall' = [aCall EXCEPT ![b] = A!NoCall]
        /\ UNCHANGED <<aPassword, aSession, aBusy>>
    BY <1>2 DEF A!Receive, A!TypeOK, A!Call
  <2>. QED BY <2>1, <2>2 DEF A!TypeOK, LoginsInForce
<1>3. 0 \in 0 .. aPassword
  BY DEF A!TypeOK
<1>. QED BY <1>1, <1>2, <1>3
         DEF A!SubmitLogin, A!SubmitChange, A!SubmitLogout

LEMMA RouteStep ==
  ASSUME SessionsInv, NEW b \in Browsers,
         \/ A!Authorize(b) \/ A!Invalid(b) \/ A!Verify(b) \/ A!OpenSession(b)
         \/ A!Replace(b) \/ A!StoreFails(b) \/ A!Logout(b)
  PROVE  SessionsInv'
<1> USE SessionBounds DEF SessionsInv
<1>1. ASSUME NEW ok \in BOOLEAN, aCall' = A!Answer(b, ok),
             UNCHANGED <<aPassword, aSession>>
      PROVE  aCall' \in [Browsers -> A!Call] /\ LoginsInForce'
  BY <1>1, Answering DEF LoginsInForce
<1>2. ASSUME NEW stage \in {"authorized", "verified"},
             aCall' = [aCall EXCEPT ![b].stage = stage],
             aCall[b].op = "login" =>
               IF stage = "authorized" THEN aPassword > 0
                                       ELSE aCall[b].typed > 0,
             UNCHANGED <<aPassword, aSession>>
      PROVE  aCall' \in [Browsers -> A!Call] /\ LoginsInForce'
  <2>1. [aCall[b] EXCEPT !.stage = stage] \in A!Call
    BY DEF A!TypeOK, A!Call
  <2>2. /\ [aCall[b] EXCEPT !.stage = stage].stage = stage
        /\ [aCall[b] EXCEPT !.stage = stage].op = aCall[b].op
        /\ [aCall[b] EXCEPT !.stage = stage].typed = aCall[b].typed
    BY DEF A!TypeOK, A!Call
  <2>3. aCall' = [aCall EXCEPT ![b] = [aCall[b] EXCEPT !.stage = stage]]
    BY <1>2 DEF A!TypeOK
  <2>. QED BY <1>2, <2>1, <2>2, <2>3 DEF A!TypeOK, LoginsInForce
<1>3. CASE A!Authorize(b)
  <2>1. UNCHANGED <<aPassword, aSession, aCookie, aBusy>>
    BY <1>3 DEF A!Authorize
  <2>2. aCall' \in [Browsers -> A!Call] /\ LoginsInForce'
    BY <1>1, <1>2, <1>3, <2>1 DEF A!Authorize
  <2>. QED BY <2>1, <2>2 DEF A!TypeOK
<1>4. CASE A!Invalid(b)
  BY <1>1, <1>4 DEF A!Invalid, A!TypeOK
<1>5. CASE A!Verify(b)
  <2>1. /\ UNCHANGED <<aPassword, aSession, aCookie>>
        /\ aBusy' \in Browsers \cup {Nobody}
    BY <1>5 DEF A!Verify, A!TypeOK
  <2>2. aCall' \in [Browsers -> A!Call] /\ LoginsInForce'
    BY <1>1, <1>2, <1>5, <2>1 DEF A!Verify, LoginsInForce
  <2>. QED BY <2>1, <2>2 DEF A!TypeOK
<1>6. CASE A!OpenSession(b)
  <2>1. PICK s \in Sessions :
          /\ aSession' = [aSession EXCEPT ![s] =
                            [state |-> "open", opened |-> aCall[b].typed]]
          /\ aCall' = [A!Answer(b, TRUE) EXCEPT ![b].with = s]
    BY <1>6 DEF A!OpenSession
  <2>2. aCall[b].typed \in 0 .. MaxPassword /\ aCall[b].typed > 0
    BY <1>6 DEF A!OpenSession, A!At, LoginsInForce, A!TypeOK, A!Call
  <2>3. /\ aCall' \in [Browsers -> A!Call] /\ aCall'[b].stage = "answered"
        /\ \A c \in Browsers : c # b => aCall'[c] = aCall[c]
    <3> DEFINE answer == A!Answer(b, TRUE)
    <3>1. /\ answer \in [Browsers -> A!Call] /\ answer[b].stage = "answered"
          /\ \A c \in Browsers : c # b => answer[c] = aCall[c]
      BY Answering
    <3>2. aCall' = [answer EXCEPT ![b] = [answer[b] EXCEPT !.with = s]]
      BY <2>1, <3>1
    <3> HIDE DEF answer
    <3>3. /\ [answer[b] EXCEPT !.with = s] \in A!Call
          /\ [answer[b] EXCEPT !.with = s].stage = "answered"
      BY <3>1 DEF A!Call
    <3>. QED BY <3>1, <3>2, <3>3
  <2>4. /\ aSession' \in [Sessions ->
                [state : {"none", "open", "revoked", "expired"},
                 opened : 0 .. MaxPassword]]
        /\ \A t \in Sessions : aSession'[t].state = "open" =>
             aSession'[t].opened > 0
    BY <2>1, <2>2 DEF A!TypeOK, LoginsInForce
  <2>5. aBusy' = Nobody /\ UNCHANGED <<aPassword, aCookie>>
    BY <1>6 DEF A!OpenSession
  <2>. QED BY <2>3, <2>4, <2>5 DEF A!TypeOK, LoginsInForce
<1>7. CASE A!Replace(b)
  <2>1. /\ aCall' \in [Browsers -> A!Call] /\ aCall'[b].stage = "answered"
        /\ \A c \in Browsers : c # b => aCall'[c] = aCall[c]
    BY <1>7, Answering DEF A!Replace
  <2>2. /\ aPassword' = aPassword + 1 /\ aPassword < MaxPassword
        /\ aSession' = A!Revoked(aSession)
        /\ aBusy' = Nobody /\ UNCHANGED aCookie
    BY <1>7 DEF A!Replace
  <2>. QED BY <2>1, <2>2 DEF A!TypeOK, LoginsInForce, A!Revoked
<1>8. CASE A!StoreFails(b)
  BY <1>1, <1>8 DEF A!StoreFails, A!TypeOK
<1>9. CASE A!Logout(b)
  <2>1. /\ aCall' \in [Browsers -> A!Call] /\ aCall'[b].stage = "answered"
        /\ \A c \in Browsers : c # b => aCall'[c] = aCall[c]
    <3>1. A!Open(aCall[b].with) \in BOOLEAN
      BY DEF A!Open
    <3>. QED BY <1>9, <3>1, Answering DEF A!Logout
  <2>2. UNCHANGED <<aPassword, aCookie, aBusy>>
    BY <1>9 DEF A!Logout
  <2>3. /\ aSession' \in [Sessions ->
                [state : {"none", "open", "revoked", "expired"},
                 opened : 0 .. MaxPassword]]
        /\ \A t \in Sessions : aSession'[t].state = "open" =>
             aSession'[t] = aSession[t]
    BY <1>9 DEF A!Logout, A!TypeOK
  <2>. QED BY <2>1, <2>2, <2>3 DEF A!TypeOK, LoginsInForce
<1>. QED BY <1>3, <1>4, <1>5, <1>6, <1>7, <1>8, <1>9

\* In the instance: while the other parts run it has no value.
SessionsHold == part = "sessions" => SessionsInv

\* The inductive invariant of the administrator's sessions: a session or a
\* login under way is of a password that was in force, whatever other browsers
\* and the password command do meanwhile (app/api/admin/auth, admin-auth-store).
THEOREM SessionsInvariant == Spec => []SessionsHold
<1>1. Init => SessionsHold
  BY SessionsStart DEF Init, SessionsHold
<1>2. SessionsHold /\ [Next]_vars => SessionsHold'
  <2> SUFFICES ASSUME SessionsInv, part = "sessions", [Next]_vars
               PROVE  SessionsInv'
    BY PartsRun DEF SessionsHold
  <2>1. CASE A!Next
    BY <2>1, PasswordStep, PageStep, RouteStep DEF A!Next
  <2>2. CASE UNCHANGED sessions
    BY <2>2 DEF sessions, SessionsInv, A!TypeOK, LoginsInForce
  <2>. QED BY <2>1, <2>2, PartsRun
<1>. QED BY <1>1, <1>2, PTL DEF Spec

\* A new password, set by the first start, a change or a reset, ends every
\* session opened with an earlier one, on any number of browsers; a session of
\* an earlier password is opened only by a login that was compared before
\* (repos/admin-auth-store, replaceAdminPassword).
THEOREM NewPasswordEndsSessions == Spec => OutdatedOnlyByOvertakenLogin
<1>1. SessionsHold /\ [Next]_vars =>
        [part = "sessions" => A!OutdatedOnlyByOvertakenLogin]_sessions
  <2> SUFFICES ASSUME SessionsInv, A!Next,
                      \A b \in Browsers : ~A!OpenSession(b),
                      NEW s \in Sessions, s \in A!Outdated'
               PROVE  s \in A!Outdated
    BY PartsRun DEF SessionsHold, A!OutdatedOnlyByOvertakenLogin, A!Outdated
  <2> USE SessionBounds DEF SessionsInv, A!Outdated, A!Open
  <2>1. CASE A!Bootstrap
    BY <2>1 DEF A!Bootstrap, LoginsInForce
  <2>2. CASE A!Reset \/ \E b \in Browsers : A!Replace(b)
    <3>1. aSession' = A!Revoked(aSession)
      BY <2>2 DEF A!Reset, A!Replace
    <3>2. aSession'[s].state # "open"
      BY <3>1 DEF A!Revoked, A!TypeOK
    <3>. QED BY <3>2
  <2>3. CASE \E t \in Sessions : A!Expire(t)
    BY <2>3 DEF A!Expire, A!TypeOK
  <2>4. CASE \E b \in Browsers : A!Logout(b)
    BY <2>4 DEF A!Logout, A!TypeOK
  <2>5. CASE UNCHANGED <<aPassword, aSession>>
    BY <2>5
  <2>. QED BY <2>1, <2>2, <2>3, <2>4, <2>5
           DEF A!Next, A!SubmitLogin, A!SubmitChange, A!SubmitLogout, A!Send,
               A!Receive, A!Authorize, A!Invalid, A!Verify, A!StoreFails
<1>. QED BY <1>1, SessionsInvariant, PTL
         DEF Spec, OutdatedOnlyByOvertakenLogin

-----------------------------------------------------------------------------
(***************************************************************************)
(* Settings.  What a page shows or sends of a setting differs from what is *)
(* saved only when its user touched it or another page saved it since.  Of *)
(* a model this is true of its format and name; of an embedding key it is  *)
(* the checkbox that must agree.                                           *)
(***************************************************************************)

Touched(p) == fPage[p].typed \cup fPage[p].stale

\* What a form shows of a field nobody touched.
ShowsField(pg, f) ==
  /\ f \in F!LlmField \ {"llmKey"} => pg.show[f] = fSaved[f]
  /\ f \in {"llmKey", "embKey"} => pg.show[f] = 0
  /\ f \in F!Inherited => (f \in pg.inherit <=> fSaved[f] = 0)
  /\ f = "embUrl" /\ f \notin pg.inherit => pg.show[f] = fSaved[f]
  /\ f = "embModel" => fSaved[f] = IF pg.enabled THEN pg.show[f] ELSE 0

ShowsModel(pg, r) ==
  F!Split(fModel[r]) = IF pg.separate THEN pg.choice[r]
                       ELSE pg.choice["llmModel"]

ShownHolds(p) ==
  /\ \A f \in F!Field \ Touched(p) : ShowsField(fPage[p], f)
  /\ \A r \in F!Role \ Touched(p) : ShowsModel(fPage[p], r)

SentHolds(p, k) ==
  /\ \A f \in F!Field : fSent[p][k].body[f] # F!Undefined =>
       /\ f \in F!Owned(k)
       /\ fSent[p][k].body[f] = fSaved[f] \/ f \in Touched(p)
  /\ k = "llm" => \A r \in F!Role \ Touched(p) :
                    fSent[p][k].choice[r] = F!Split(fModel[r])

PageHolds(p) ==
  /\ fPage[p].open => ShownHolds(p)
  /\ \A k \in F!Forms : fSent[p][k].state = "sent" => SentHolds(p, k)

SettingsInv == F!TypeOK /\ \A p \in Pages : PageHolds(p)

LEMMA FieldNames ==
  /\ F!Field = {"concurrency", "limit", "llmUrl", "llmKey", "embUrl",
                "embKey", "embModel"}
  /\ F!Role = {"llmModel", "llmRetrievalModel"}
  /\ F!Inherited = {"embUrl", "embKey"}
  /\ 0 \in F!Value /\ F!Undefined \notin F!Value
BY SettingsBounds DEF F!Field, F!LlmField, F!EmbField, F!Role, F!Inherited,
   F!Value, F!Undefined

LEMMA ClosedType == F!Closed \in F!Page /\ F!NoRequest \in F!Request
<1>1. 1 \in 1 .. MaxValue
  BY SettingsBounds
<1>2. F!NoChoice \in [F!Role -> F!Choice]
  BY <1>1 DEF F!NoChoice, F!Choice, F!Format
<1>3. /\ [f \in F!Field |-> 0] \in [F!Field -> F!Value]
      /\ [f \in F!Field |-> F!Undefined]
           \in [F!Field -> F!Value \cup {F!Undefined}]
  BY FieldNames
<1>. QED BY <1>2, <1>3, FieldNames, SettingsBounds
         DEF F!Closed, F!Page, F!NoRequest, F!Request

LEMMA SplitType ==
  ASSUME NEW x \in F!Model
  PROVE  F!Split(x) \in F!Choice
BY DEF F!Split, F!Choice, F!Model, F!Format

\* What the route puts together is split into the same again.
LEMMA BuiltIsSplit ==
  ASSUME NEW c \in F!Choice
  PROVE  F!Build(c) \in F!Model /\ F!Split(F!Build(c)) = c
BY DEF F!Build, F!Split, F!Choice, F!Model, F!Format

LEMMA SettingsStart ==
  ASSUME F!Init
  PROVE  SettingsInv
<1>1. F!TypeOK
  <2>1. fSaved \in [F!Field -> F!Value]
    BY DEF F!Init
  <2>2. fModel \in [F!Role -> F!Model]
    BY DEF F!Init
  <2>. QED BY <2>1, <2>2, ClosedType, SettingsBounds DEF F!Init, F!TypeOK
<1>2. ASSUME NEW p \in Pages
      PROVE  PageHolds(p)
  BY DEF F!Init, PageHolds, F!Closed, F!NoRequest
<1>. QED BY <1>1, <1>2 DEF SettingsInv

\* Saves may end in a step, and none begins.
NoneBegins ==
  \A q \in Pages, k \in F!Forms :
    fSent'[q][k] = fSent[q][k] \/ fSent'[q][k].state # "sent"

\* A page keeps what holds of it when what is saved changes only in settings
\* that are touched on it.
LEMMA Carried ==
  ASSUME NEW p \in Pages, PageHolds(p), NoneBegins,
         Touched(p) \subseteq Touched(p)',
         \A f \in F!Field \ Touched(p)' : fSaved'[f] = fSaved[f],
         \A r \in F!Role \ Touched(p)' :
           F!Split(fModel'[r]) = F!Split(fModel[r]),
         fPage'[p].open =>
           /\ fPage[p].open
           /\ \A f \in F!Field \ Touched(p)' :
                ShowsField(fPage[p], f) => ShowsField(fPage'[p], f)
           /\ \A r \in F!Role \ Touched(p)' :
                ShowsModel(fPage[p], r) => ShowsModel(fPage'[p], r)
  PROVE  PageHolds(p)'
<1>1. ASSUME fPage'[p].open
      PROVE  ShownHolds(p)'
  <2>1. ShownHolds(p)
    BY <1>1 DEF PageHolds
  <2>2. ASSUME NEW f \in F!Field \ Touched(p)'
        PROVE  ShowsField(fPage[p], f)'
    <3>1. ShowsField(fPage'[p], f)
      BY <1>1, <2>1 DEF ShownHolds
    <3>2. fSaved'[f] = fSaved[f]
      OBVIOUS
    <3>. QED BY <3>1, <3>2 DEF ShowsField
  <2>3. ASSUME NEW r \in F!Role \ Touched(p)'
        PROVE  ShowsModel(fPage[p], r)'
    <3>1. ShowsModel(fPage'[p], r)
      BY <1>1, <2>1 DEF ShownHolds
    <3>2. F!Split(fModel'[r]) = F!Split(fModel[r])
      OBVIOUS
    <3>. QED BY <3>1, <3>2 DEF ShowsModel, F!Split
  <2>. QED BY <2>2, <2>3 DEF ShownHolds
<1>2. ASSUME NEW k \in F!Forms, fSent'[p][k].state = "sent"
      PROVE  SentHolds(p, k)'
  <2>1. fSent'[p][k] = fSent[p][k] /\ SentHolds(p, k)
    BY <1>2 DEF NoneBegins, PageHolds
  <2>2. ASSUME NEW f \in F!Field, fSent'[p][k].body[f] # F!Undefined
        PROVE  /\ f \in F!Owned(k)
               /\ fSent'[p][k].body[f] = fSaved'[f] \/ f \in Touched(p)'
    BY <2>1, <2>2 DEF SentHolds
  <2>3. ASSUME k = "llm", NEW r \in F!Role \ Touched(p)'
        PROVE  fSent'[p][k].choice[r] = F!Split(fModel'[r])
    BY <2>1, <2>3 DEF SentHolds
  <2>. QED BY <2>2, <2>3 DEF SentHolds, F!Split, F!Owned, F!Undefined
<1>. QED BY <1>1, <1>2 DEF PageHolds

\* A step that only changes one page, in what is touched on it.
LEMMA TabStep ==
  ASSUME SettingsInv, NEW p \in Pages, NEW pg \in F!Page,
         fPage' = [fPage EXCEPT ![p] = pg],
         UNCHANGED <<fSaved, fModel, fPending, fConfigured, fEnv, fCurrent>>,
         fEvents' \in 0 .. Edits,
         fSent' \in [Pages -> [F!Forms -> F!Request]], NoneBegins,
         Touched(p) \subseteq pg.typed \cup pg.stale,
         pg.open =>
           /\ fPage[p].open
           /\ \A f \in F!Field \ (pg.typed \cup pg.stale) :
                ShowsField(fPage[p], f) => ShowsField(pg, f)
           /\ \A r \in F!Role \ (pg.typed \cup pg.stale) :
                ShowsModel(fPage[p], r) => ShowsModel(pg, r)
  PROVE  SettingsInv'
<1> USE DEF SettingsInv
<1>1. F!TypeOK'
  BY DEF F!TypeOK
<1>2. ASSUME NEW q \in Pages
      PROVE  PageHolds(q)'
  <2>1. PageHolds(q)
    OBVIOUS
  <2>2. CASE q = p
    <3>1. fPage'[q] = pg
      BY <2>2 DEF F!TypeOK
    <3>2. Touched(q)' = pg.typed \cup pg.stale
      BY <3>1 DEF Touched
    <3>. QED BY <2>1, <2>2, <3>1, <3>2, Carried
  <2>3. CASE q # p
    <3>1. fPage'[q] = fPage[q] /\ Touched(q)' = Touched(q)
      BY <2>3 DEF F!TypeOK, Touched
    <3>. QED BY <2>1, <3>1, Carried
  <2>. QED BY <2>2, <2>3
<1>. QED BY <1>1, <1>2

LEMMA Forgotten ==
  ASSUME F!TypeOK, NEW p \in Pages, NEW k \in F!Forms,
         fSent' = [fSent EXCEPT ![p][k] = F!NoRequest]
  PROVE  NoneBegins /\ fSent' \in [Pages -> [F!Forms -> F!Request]]
<1>1. F!NoRequest \in F!Request /\ F!NoRequest.state = "none"
  BY ClosedType DEF F!NoRequest
<1>. QED BY <1>1 DEF NoneBegins, F!TypeOK

LEMMA PageParts ==
  ASSUME NEW pg \in F!Page
  PROVE  /\ pg.show \in [F!Field -> F!Value]
         /\ pg.choice \in [F!Role -> F!Choice]
         /\ {pg.separate, pg.enabled, pg.open, pg.keyKept} \subseteq BOOLEAN
         /\ pg.inherit \subseteq F!Inherited
         /\ pg.url \in F!Value /\ pg.root \in Roots
         /\ pg.typed \subseteq F!Field \cup F!Role
         /\ pg.stale \subseteq F!Field \cup F!Role
BY DEF F!Page

\* A fresh page shows what is saved.
LEMMA OpenStep ==
  ASSUME SettingsInv, NEW p \in Pages, F!Open(p)
  PROVE  SettingsInv'
<1> USE DEF SettingsInv
<1> DEFINE show == [f \in F!Field |->
                      CASE f \in {"llmKey", "embKey"} -> 0
                        [] f = "embUrl" -> F!EmbUrl
                        [] OTHER -> fSaved[f]]
           shown == [m \in F!Role |-> F!Split(fModel[m])]
           separate == F!Split(fModel["llmModel"])
                         # F!Split(fModel["llmRetrievalModel"])
           inherit == {f \in F!Inherited : fSaved[f] = 0}
           pg == [open |-> TRUE, show |-> show, choice |-> shown,
                  separate |-> separate, inherit |-> inherit,
                  enabled |-> fSaved["embModel"] # 0,
                  keyKept |-> fSaved["embKey"] # 0, url |-> F!EmbUrl,
                  root |-> fCurrent, typed |-> {}, stale |-> {}]
<1>1. /\ fPage' = [fPage EXCEPT ![p] = pg]
      /\ UNCHANGED <<fSaved, fModel, fPending, fConfigured, fEnv, fCurrent,
                     fSent, fEvents>>
  BY DEF F!Open, F!server
<1>2. \A k \in F!Forms : fSent[p][k].state # "sent"
  BY DEF F!Open, F!Underway
<1>3. F!EmbUrl \in F!Value
  BY FieldNames DEF F!EmbUrl, F!TypeOK
<1>4. show \in [F!Field -> F!Value]
  BY <1>3, FieldNames DEF F!TypeOK
<1>5. shown \in [F!Role -> F!Choice]
  BY SplitType DEF F!TypeOK
<1>6. pg \in F!Page
  <2>1. separate \in BOOLEAN /\ inherit \subseteq F!Inherited
    OBVIOUS
  <2>2. fCurrent \in Roots
    BY DEF F!TypeOK
  <2> HIDE DEF show, shown, separate, inherit
  <2>. QED BY <1>3, <1>4, <1>5, <2>1, <2>2 DEF F!Page
<1>7. F!TypeOK'
  BY <1>1, <1>6 DEF F!TypeOK
<1>8. ASSUME NEW f \in F!Field
      PROVE  ShowsField(pg, f)
  BY FieldNames DEF ShowsField, F!EmbUrl, F!LlmField
<1>9. ASSUME NEW r \in F!Role
      PROVE  ShowsModel(pg, r)
  <2>1. CASE r = "llmModel"
    BY <2>1, FieldNames DEF ShowsModel
  <2>2. CASE r = "llmRetrievalModel"
    BY <2>2, FieldNames DEF ShowsModel
  <2>. QED BY <2>1, <2>2, FieldNames
<1> HIDE DEF pg
<1>10. ASSUME NEW q \in Pages
       PROVE  PageHolds(q)'
  <2>1. CASE q = p
    <3>1. fPage'[q] = pg
      BY <1>1, <2>1 DEF F!TypeOK
    <3>2. ShownHolds(q)'
      BY <1>1, <1>8, <1>9, <3>1 DEF ShownHolds, ShowsField, ShowsModel
    <3>. QED BY <1>1, <1>2, <2>1, <3>2 DEF PageHolds
  <2>2. CASE q # p
    <3>1. fPage'[q] = fPage[q] /\ Touched(q)' = Touched(q)
      BY <1>1, <2>2 DEF F!TypeOK, Touched
    <3>2. PageHolds(q) /\ NoneBegins
      BY <1>1 DEF NoneBegins
    <3>. QED BY <1>1, <3>1, <3>2, Carried
  <2>. QED BY <2>1, <2>2
<1>. QED BY <1>7, <1>10

\* What the user changes is touched.
LEMMA FormStep ==
  ASSUME SettingsInv, NEW p \in Pages,
         NEW mine \in SUBSET (F!Field \cup F!Role),
         NEW edited \in F!Page, F!Edit(p, mine, edited),
         edited.typed = fPage[p].typed, edited.stale = fPage[p].stale,
         \A f \in F!Field \ (Touched(p) \cup mine) :
           ShowsField(fPage[p], f) => ShowsField(edited, f),
         \A r \in F!Role \ (Touched(p) \cup mine) :
           ShowsModel(fPage[p], r) => ShowsModel(edited, r)
  PROVE  SettingsInv'
<1> DEFINE pg == [edited EXCEPT !.typed = @ \cup mine]
<1>1. /\ fPage' = [fPage EXCEPT ![p] = pg] /\ fPage[p].open
      /\ UNCHANGED <<fSaved, fModel, fPending, fConfigured, fEnv, fCurrent,
                     fSent>>
  BY DEF F!Edit, F!server
<1>2. /\ pg.show = edited.show /\ pg.choice = edited.choice
      /\ pg.separate = edited.separate /\ pg.inherit = edited.inherit
      /\ pg.enabled = edited.enabled /\ pg.stale = edited.stale
      /\ pg.typed = edited.typed \cup mine
  BY DEF F!Page
<1>3. pg \in F!Page
  <2>1. edited.typed \cup mine \subseteq F!Field \cup F!Role
    BY PageParts
  <2>. QED BY <2>1 DEF F!Page
<1>4. fEvents' \in 0 .. Edits
  BY SettingsBounds DEF F!Edit, F!Happens, SettingsInv, F!TypeOK
<1> HIDE DEF pg
<1>5. pg.typed \cup pg.stale = Touched(p) \cup mine
  BY <1>2 DEF Touched
<1>6. \A f \in F!Field \ (pg.typed \cup pg.stale) :
        ShowsField(fPage[p], f) => ShowsField(pg, f)
  BY <1>2, <1>5 DEF ShowsField
<1>7. \A r \in F!Role \ (pg.typed \cup pg.stale) :
        ShowsModel(fPage[p], r) => ShowsModel(pg, r)
  BY <1>2, <1>5 DEF ShowsModel
<1>8. NoneBegins /\ fSent' \in [Pages -> [F!Forms -> F!Request]]
  BY <1>1 DEF NoneBegins, SettingsInv, F!TypeOK
<1>. QED BY <1>1, <1>3, <1>4, <1>5, <1>6, <1>7, <1>8, TabStep

LEMMA TypeStep ==
  ASSUME SettingsInv, NEW p \in Pages, NEW f \in F!Field, NEW v \in F!Value,
         F!Type(p, f, v)
  PROVE  SettingsInv'
<1> DEFINE edited == [fPage[p] EXCEPT !.show[f] = v]
<1>1. fPage[p] \in F!Page /\ F!Edit(p, {f}, edited)
  BY DEF SettingsInv, F!TypeOK, F!Type
<1>2. edited = [fPage[p] EXCEPT !.show = [fPage[p].show EXCEPT ![f] = v]]
  BY <1>1 DEF F!Page
<1>3. [fPage[p].show EXCEPT ![f] = v] \in [F!Field -> F!Value]
  BY <1>1, PageParts
<1>4. edited \in F!Page
  BY <1>1, <1>2, <1>3 DEF F!Page
<1>5. /\ edited.show = [fPage[p].show EXCEPT ![f] = v]
      /\ edited.choice = fPage[p].choice
      /\ edited.separate = fPage[p].separate
      /\ edited.inherit = fPage[p].inherit
      /\ edited.enabled = fPage[p].enabled
      /\ edited.typed = fPage[p].typed /\ edited.stale = fPage[p].stale
  BY <1>1, <1>2 DEF F!Page
<1> HIDE DEF edited
<1>6. \A g \in F!Field : g # f => edited.show[g] = fPage[p].show[g]
  BY <1>1, <1>5, PageParts
<1>7. \A g \in F!Field \ (Touched(p) \cup {f}) :
        ShowsField(fPage[p], g) => ShowsField(edited, g)
  BY <1>5, <1>6 DEF ShowsField
<1>8. \A r \in F!Role : ShowsModel(fPage[p], r) => ShowsModel(edited, r)
  BY <1>5 DEF ShowsModel
<1>. QED BY <1>1, <1>4, <1>5, <1>7, <1>8, FormStep

\* Without a separate model both are touched by a choice.
LEMMA ChooseStep ==
  ASSUME SettingsInv, NEW p \in Pages, NEW m \in F!Role, NEW c \in F!Choice,
         F!Choose(p, m, c)
  PROVE  SettingsInv'
<1> DEFINE edited == [fPage[p] EXCEPT !.choice[m] = c]
           mine == IF fPage[p].separate THEN {m} ELSE F!Role
<1>1. fPage[p] \in F!Page /\ F!Edit(p, mine, edited)
  BY DEF SettingsInv, F!TypeOK, F!Choose
<1>2. edited = [fPage[p] EXCEPT !.choice = [fPage[p].choice EXCEPT ![m] = c]]
  BY <1>1 DEF F!Page
<1>3. [fPage[p].choice EXCEPT ![m] = c] \in [F!Role -> F!Choice]
  BY <1>1, PageParts
<1>4. edited \in F!Page
  BY <1>1, <1>2, <1>3 DEF F!Page
<1>5. /\ edited.choice = [fPage[p].choice EXCEPT ![m] = c]
      /\ edited.show = fPage[p].show
      /\ edited.separate = fPage[p].separate
      /\ edited.inherit = fPage[p].inherit
      /\ edited.enabled = fPage[p].enabled
      /\ edited.typed = fPage[p].typed /\ edited.stale = fPage[p].stale
  BY <1>1, <1>2 DEF F!Page
<1> HIDE DEF edited
<1>6. \A r \in F!Role : r # m => edited.choice[r] = fPage[p].choice[r]
  BY <1>1, <1>5, PageParts
<1>7. \A f \in F!Field : ShowsField(fPage[p], f) => ShowsField(edited, f)
  BY <1>5 DEF ShowsField
<1>8. \A r \in F!Role \ (Touched(p) \cup mine) :
        ShowsModel(fPage[p], r) => ShowsModel(edited, r)
  BY <1>5, <1>6 DEF ShowsModel
<1>9. mine \in SUBSET (F!Field \cup F!Role)
  OBVIOUS
<1>. QED BY <1>1, <1>4, <1>5, <1>7, <1>8, <1>9, FormStep

\* The answering model is sent as before, whether separate or not.
LEMMA SeparateStep ==
  ASSUME SettingsInv, NEW p \in Pages, F!Separate(p)
  PROVE  SettingsInv'
<1> DEFINE old == fPage[p].choice
           new == [old EXCEPT !["llmRetrievalModel"] =
                     IF fPage[p].separate THEN @ ELSE old["llmModel"]]
           edited == [fPage[p] EXCEPT !.separate = ~@, !.choice = new]
           mine == {"llmRetrievalModel"}
<1>1. fPage[p] \in F!Page
  BY DEF SettingsInv, F!TypeOK
<1>2. F!Edit(p, mine, edited)
  BY <1>1 DEF F!Separate, F!Page
<1>3. new \in [F!Role -> F!Choice] /\ new["llmModel"] = old["llmModel"]
  BY <1>1, PageParts, FieldNames
<1>4. edited \in F!Page
  BY <1>1, <1>3 DEF F!Page
<1>5. /\ edited.choice = new /\ edited.show = fPage[p].show
      /\ edited.inherit = fPage[p].inherit
      /\ edited.enabled = fPage[p].enabled
      /\ edited.typed = fPage[p].typed /\ edited.stale = fPage[p].stale
  BY <1>1 DEF F!Page
<1> HIDE DEF edited
<1>6. \A f \in F!Field : ShowsField(fPage[p], f) => ShowsField(edited, f)
  BY <1>5 DEF ShowsField
<1>7. \A r \in F!Role \ (Touched(p) \cup mine) :
        ShowsModel(fPage[p], r) => ShowsModel(edited, r)
  BY <1>3, <1>5, FieldNames DEF ShowsModel
<1>8. mine \in SUBSET (F!Field \cup F!Role)
  BY FieldNames
<1>. QED BY <1>2, <1>4, <1>5, <1>6, <1>7, <1>8, FormStep

\* A checkbox changes its own setting; of an inherited URL no field is sent.
LEMMA InheritStep ==
  ASSUME SettingsInv, NEW p \in Pages, NEW f \in F!Inherited, F!Inherit(p, f)
  PROVE  SettingsInv'
<1> DEFINE old == fPage[p].inherit
           inherit == IF f \in old THEN old \ {f} ELSE old \cup {f}
           show == [fPage[p].show EXCEPT !["embUrl"] =
                      IF f = "embUrl" THEN fPage[p].url ELSE @]
           edited == [fPage[p] EXCEPT !.inherit = inherit, !.show = show]
<1>1. fPage[p] \in F!Page
  BY DEF SettingsInv, F!TypeOK
<1>2. F!Edit(p, {f}, edited)
  BY <1>1 DEF F!Inherit, F!Page
<1>3. /\ show \in [F!Field -> F!Value] /\ inherit \subseteq F!Inherited
      /\ \A g \in F!Field : g # f => show[g] = fPage[p].show[g]
      /\ \A g \in F!Field : g # f => (g \in inherit <=> g \in old)
  BY <1>1, PageParts, FieldNames
<1> HIDE DEF show, inherit
<1>4. edited \in F!Page
  BY <1>1, <1>3 DEF F!Page
<1>5. /\ edited.inherit = inherit /\ edited.show = show
      /\ edited.choice = fPage[p].choice
      /\ edited.separate = fPage[p].separate
      /\ edited.enabled = fPage[p].enabled
      /\ edited.typed = fPage[p].typed /\ edited.stale = fPage[p].stale
  BY <1>1 DEF F!Page
<1> HIDE DEF edited
<1>6. \A g \in F!Field \ (Touched(p) \cup {f}) :
        ShowsField(fPage[p], g) => ShowsField(edited, g)
  BY <1>3, <1>5 DEF ShowsField
<1>7. \A r \in F!Role : ShowsModel(fPage[p], r) => ShowsModel(edited, r)
  BY <1>5 DEF ShowsModel
<1>8. {f} \in SUBSET (F!Field \cup F!Role)
  BY FieldNames
<1>. QED BY <1>2, <1>4, <1>5, <1>6, <1>7, <1>8, FormStep

LEMMA EnableStep ==
  ASSUME SettingsInv, NEW p \in Pages, F!Enable(p)
  PROVE  SettingsInv'
<1> DEFINE edited == [fPage[p] EXCEPT !.enabled = ~@]
<1>1. fPage[p] \in F!Page /\ F!Edit(p, {"embModel"}, edited)
  BY DEF SettingsInv, F!TypeOK, F!Enable
<1>2. edited \in F!Page
  BY <1>1 DEF F!Page
<1>3. /\ edited.inherit = fPage[p].inherit /\ edited.show = fPage[p].show
      /\ edited.choice = fPage[p].choice
      /\ edited.separate = fPage[p].separate
      /\ edited.typed = fPage[p].typed /\ edited.stale = fPage[p].stale
  BY <1>1 DEF F!Page
<1> HIDE DEF edited
<1>4. \A g \in F!Field \ (Touched(p) \cup {"embModel"}) :
        ShowsField(fPage[p], g) => ShowsField(edited, g)
  BY <1>3 DEF ShowsField
<1>5. \A r \in F!Role : ShowsModel(fPage[p], r) => ShowsModel(edited, r)
  BY <1>3 DEF ShowsModel
<1>6. {"embModel"} \in SUBSET (F!Field \cup F!Role)
  BY FieldNames
<1>. QED BY <1>1, <1>2, <1>3, <1>4, <1>5, <1>6, FormStep

\* A refresh changes no field that would be sent.
LEMMA RereadStep ==
  ASSUME SettingsInv, NEW p \in Pages, F!Refresh(p)
  PROVE  SettingsInv'
<1> DEFINE show == [fPage[p].show EXCEPT !["embUrl"] =
                      IF "embUrl" \in fPage[p].inherit THEN F!EmbUrl ELSE @]
           kept == fSaved["embKey"] # 0
           pg == [fPage[p] EXCEPT !.keyKept = kept, !.url = F!EmbUrl,
                                  !.show = show]
<1>1. fPage[p] \in F!Page
  BY DEF SettingsInv, F!TypeOK
<1>2. /\ fPage' = [fPage EXCEPT ![p] = pg] /\ fPage[p].open
      /\ UNCHANGED <<fSaved, fModel, fPending, fConfigured, fEnv, fCurrent,
                     fSent, fEvents>>
  BY <1>1 DEF F!Refresh, F!server, F!Page, SettingsInv, F!TypeOK
<1>3. F!EmbUrl \in F!Value
  BY FieldNames DEF F!EmbUrl, SettingsInv, F!TypeOK
<1>4. /\ show \in [F!Field -> F!Value]
      /\ \A f \in F!Field : f # "embUrl" => show[f] = fPage[p].show[f]
      /\ "embUrl" \notin fPage[p].inherit =>
           show["embUrl"] = fPage[p].show["embUrl"]
  BY <1>1, <1>3, PageParts, FieldNames
<1>5. kept \in BOOLEAN
  OBVIOUS
<1> HIDE DEF show, kept
<1>6. pg \in F!Page
  BY <1>1, <1>3, <1>4, <1>5 DEF F!Page
<1>7. /\ pg.show = show /\ pg.choice = fPage[p].choice
      /\ pg.separate = fPage[p].separate /\ pg.inherit = fPage[p].inherit
      /\ pg.enabled = fPage[p].enabled
      /\ pg.typed = fPage[p].typed /\ pg.stale = fPage[p].stale
  BY <1>1 DEF F!Page
<1> HIDE DEF pg
<1>8. ASSUME NEW f \in F!Field, ShowsField(fPage[p], f)
      PROVE  ShowsField(pg, f)
  <2>1. CASE f = "embUrl"
    BY <1>4, <1>7, <1>8, <2>1 DEF ShowsField, F!LlmField
  <2>2. CASE f # "embUrl"
    BY <1>4, <1>7, <1>8, <2>2 DEF ShowsField
  <2>. QED BY <2>1, <2>2
<1>9. \A r \in F!Role : ShowsModel(fPage[p], r) => ShowsModel(pg, r)
  BY <1>7 DEF ShowsModel
<1>10. Touched(p) \subseteq pg.typed \cup pg.stale
  BY <1>7 DEF Touched
<1>11. /\ NoneBegins /\ fSent' \in [Pages -> [F!Forms -> F!Request]]
       /\ fEvents' \in 0 .. Edits
  BY <1>2 DEF NoneBegins, SettingsInv, F!TypeOK
<1>. QED BY <1>2, <1>6, <1>8, <1>9, <1>10, <1>11, TabStep

\* An answer touches no field, and a key is forgotten.
LEMMA ReceiveStep ==
  ASSUME SettingsInv, NEW p \in Pages, NEW k \in F!Forms, F!Receive(p, k)
  PROVE  SettingsInv'
<1> DEFINE show == [fPage[p].show EXCEPT !["embKey"] =
                      IF k = "embedding" THEN 0 ELSE @]
           root == IF k = "root" THEN fSent[p][k].root ELSE fPage[p].root
           pg == [fPage[p] EXCEPT !.root = root, !.show = show]
<1>1. fPage[p] \in F!Page /\ fSent[p][k] \in F!Request
  BY DEF SettingsInv, F!TypeOK
<1>2. /\ fPage' = [fPage EXCEPT ![p] = pg]
      /\ UNCHANGED <<fSaved, fModel, fPending, fConfigured, fEnv, fCurrent,
                     fEvents>>
      /\ fSent' = [fSent EXCEPT ![p][k] = F!NoRequest]
  BY <1>1 DEF F!Receive, F!server, F!Page, SettingsInv, F!TypeOK
<1>3. /\ show \in [F!Field -> F!Value]
      /\ \A f \in F!Field : show[f] \in {0, fPage[p].show[f]}
      /\ \A f \in F!Field : f # "embKey" => show[f] = fPage[p].show[f]
  BY <1>1, PageParts, FieldNames
<1>4. root \in Roots
  BY <1>1, PageParts DEF F!Request
<1> HIDE DEF show, root
<1>5. pg \in F!Page
  BY <1>1, <1>3, <1>4 DEF F!Page
<1>6. /\ pg.show = show /\ pg.choice = fPage[p].choice
      /\ pg.separate = fPage[p].separate /\ pg.inherit = fPage[p].inherit
      /\ pg.enabled = fPage[p].enabled /\ pg.open = fPage[p].open
      /\ pg.typed = fPage[p].typed /\ pg.stale = fPage[p].stale
  BY <1>1 DEF F!Page
<1> HIDE DEF pg
<1>7. \A f \in F!Field : ShowsField(fPage[p], f) => ShowsField(pg, f)
  BY <1>3, <1>6, FieldNames DEF ShowsField
<1>8. \A r \in F!Role : ShowsModel(fPage[p], r) => ShowsModel(pg, r)
  BY <1>6 DEF ShowsModel
<1>9. Touched(p) \subseteq pg.typed \cup pg.stale
  BY <1>6 DEF Touched
<1>10. NoneBegins /\ fSent' \in [Pages -> [F!Forms -> F!Request]]
  BY <1>2, Forgotten DEF SettingsInv
<1>11. fEvents' \in 0 .. Edits
  BY <1>2 DEF SettingsInv, F!TypeOK
<1>. QED BY <1>2, <1>5, <1>6, <1>7, <1>8, <1>9, <1>10, <1>11, TabStep

\* A tab that is closed keeps what was touched while a save is under way.
LEMMA LeaveStep ==
  ASSUME SettingsInv, NEW p \in Pages, F!Leave(p)
  PROVE  SettingsInv'
<1> DEFINE left == [k \in F!Forms |-> IF fSent[p][k].state = "sent"
                                        THEN fSent[p][k] ELSE F!NoRequest]
           pg == [F!Closed EXCEPT !.typed = fPage[p].typed,
                                  !.stale = fPage[p].stale]
<1>1. fPage[p] \in F!Page /\ fSent \in [Pages -> [F!Forms -> F!Request]]
  BY DEF SettingsInv, F!TypeOK
<1>2. /\ fSent' = [fSent EXCEPT ![p] = left]
      /\ UNCHANGED <<fSaved, fModel, fPending, fConfigured, fEnv, fCurrent,
                     fEvents>>
  BY <1>1 DEF F!Leave, F!server
<1>3. F!NoRequest \in F!Request /\ F!NoRequest.state = "none"
  BY ClosedType DEF F!NoRequest
<1>4. left \in [F!Forms -> F!Request]
  BY <1>1, <1>3
<1>5. NoneBegins /\ fSent' \in [Pages -> [F!Forms -> F!Request]]
  <2>1. fSent' \in [Pages -> [F!Forms -> F!Request]]
    BY <1>1, <1>2, <1>4
  <2>2. ASSUME NEW q \in Pages, NEW k \in F!Forms
        PROVE  fSent'[q][k] = fSent[q][k] \/ fSent'[q][k].state # "sent"
    <3>1. CASE q = p
      <4>1. fSent'[q][k] = left[k]
        BY <1>1, <1>2, <3>1
      <4>. QED BY <1>3, <3>1, <4>1
    <3>2. CASE q # p
      BY <1>1, <1>2, <3>2
    <3>. QED BY <3>1, <3>2
  <2>. QED BY <2>1, <2>2 DEF NoneBegins
<1>6. fEvents' \in 0 .. Edits
  BY <1>2 DEF SettingsInv, F!TypeOK
<1>7. CASE \E k \in F!Forms : fSent[p][k].state = "sent"
  <2>1. fPage' = [fPage EXCEPT ![p] = pg]
    BY <1>7 DEF F!Leave
  <2>2. pg \in F!Page
    <3>1. /\ fPage[p].typed \subseteq F!Field \cup F!Role
          /\ fPage[p].stale \subseteq F!Field \cup F!Role
      BY <1>1, PageParts
    <3>. QED BY <3>1, ClosedType DEF F!Page
  <2>3. /\ pg.open = FALSE
        /\ pg.typed = fPage[p].typed /\ pg.stale = fPage[p].stale
    BY DEF F!Closed
  <2> HIDE DEF pg
  <2>4. Touched(p) \subseteq pg.typed \cup pg.stale
    BY <2>3 DEF Touched
  <2>. QED BY <1>2, <1>5, <1>6, <2>1, <2>2, <2>3, <2>4, TabStep
<1>8. CASE \A k \in F!Forms : fSent[p][k].state # "sent"
  <2> USE DEF SettingsInv
  <2>1. fPage' = [fPage EXCEPT ![p] = F!Closed]
    BY <1>8 DEF F!Leave
  <2>2. F!TypeOK'
    BY <1>2, <1>5, <1>6, <2>1, ClosedType DEF F!TypeOK
  <2>3. ASSUME NEW q \in Pages
        PROVE  PageHolds(q)'
    <3>1. CASE q = p
      <4>1. ~fPage'[q].open
        BY <2>1, <3>1 DEF F!TypeOK, F!Closed
      <4>2. \A k \in F!Forms : fSent'[q][k].state # "sent"
        BY <1>5, <1>8, <3>1 DEF NoneBegins
      <4>. QED BY <4>1, <4>2 DEF PageHolds
    <3>2. CASE q # p
      <4>1. fPage'[q] = fPage[q] /\ Touched(q)' = Touched(q)
        BY <2>1, <3>2 DEF F!TypeOK, Touched
      <4>. QED BY <1>2, <1>5, <4>1, Carried
    <3>. QED BY <3>1, <3>2
  <2>. QED BY <2>2, <2>3
<1>. QED BY <1>7, <1>8

\* A form may send what holds of it.
LEMMA SendStep ==
  ASSUME SettingsInv, NEW p \in Pages, NEW k \in F!Forms,
         NEW content \in [F!Field -> F!Value \cup {F!Undefined}],
         NEW models \in [F!Role -> F!Choice], NEW root \in Roots,
         F!Send(p, k, content, models, root), fEvents' \in 0 .. Edits,
         \A f \in F!Field : content[f] # F!Undefined =>
           /\ f \in F!Owned(k)
           /\ content[f] = fSaved[f] \/ f \in Touched(p),
         k = "llm" => \A r \in F!Role \ Touched(p) :
                        models[r] = F!Split(fModel[r])
  PROVE  SettingsInv'
<1> USE DEF SettingsInv
<1> DEFINE patch == [state |-> "sent", body |-> content, choice |-> models,
                   root |-> root]
<1>1. /\ fSent' = [fSent EXCEPT ![p][k] = patch]
      /\ UNCHANGED <<fSaved, fModel, fPending, fConfigured, fEnv, fCurrent,
                     fPage>>
  BY DEF F!Send, F!server
<1>2. patch \in F!Request
  BY DEF F!Request
<1>3. F!TypeOK'
  BY <1>1, <1>2 DEF F!TypeOK
<1>4. ASSUME NEW q \in Pages
      PROVE  PageHolds(q)'
  <2>1. Touched(q)' = Touched(q)
    BY <1>1 DEF Touched
  <2>2. fPage'[q].open => ShownHolds(q)'
    BY <1>1, <2>1 DEF PageHolds, ShownHolds, ShowsField, ShowsModel, F!Split
  <2>3. ASSUME NEW j \in F!Forms, fSent'[q][j].state = "sent"
        PROVE  SentHolds(q, j)'
    <3>1. CASE q = p /\ j = k
      <4>1. fSent'[q][j] = patch
        BY <1>1, <3>1 DEF F!TypeOK
      <4>2. /\ fSent'[q][j].body = content
            /\ fSent'[q][j].choice = models
        BY <4>1
      <4> HIDE DEF patch
      <4>. QED BY <1>1, <2>1, <3>1, <4>2
               DEF SentHolds, F!Split, F!Owned, F!Undefined
    <3>2. CASE ~(q = p /\ j = k)
      <4>1. fSent'[q][j] = fSent[q][j]
        BY <1>1, <3>2 DEF F!TypeOK
      <4>2. SentHolds(q, j)
        BY <2>3, <4>1 DEF PageHolds
      <4>. QED BY <1>1, <2>1, <4>1, <4>2
               DEF SentHolds, F!Split, F!Owned, F!Undefined
    <3>. QED BY <3>1, <3>2
  <2>. QED BY <2>2, <2>3 DEF PageHolds
<1>. QED BY <1>3, <1>4

\* The language model's key is sent when it was typed.
LEMMA SubmitLlmStep ==
  ASSUME SettingsInv, NEW p \in Pages, F!SubmitLlm(p)
  PROVE  SettingsInv'
<1> DEFINE show == fPage[p].show
           fields == IF show["llmKey"] # 0 THEN F!LlmField
                     ELSE F!LlmField \ {"llmKey"}
           content == F!Fields(show, fields)
<1>1. /\ F!Send(p, "llm", content, F!Effective(p), FirstRoot)
      /\ fEvents' = fEvents /\ fPage[p].open
  BY DEF F!SubmitLlm, F!Send
<1>2. fPage[p] \in F!Page /\ fEvents' \in 0 .. Edits
  BY <1>1 DEF SettingsInv, F!TypeOK
<1>3. content \in [F!Field -> F!Value \cup {F!Undefined}]
  BY <1>2, PageParts DEF F!Fields
<1>4. F!Effective(p) \in [F!Role -> F!Choice]
  BY <1>2, PageParts, FieldNames DEF F!Effective
<1>5. ShownHolds(p)
  BY <1>1 DEF SettingsInv, PageHolds
<1>6. ASSUME NEW f \in F!Field, content[f] # F!Undefined
      PROVE  /\ f \in F!Owned("llm")
             /\ content[f] = fSaved[f] \/ f \in Touched(p)
  <2>1. f \in fields /\ content[f] = show[f]
    BY <1>6 DEF F!Fields
  <2>2. f \notin Touched(p) => ShowsField(fPage[p], f)
    BY <1>5 DEF ShownHolds
  <2>. QED BY <2>1, <2>2 DEF ShowsField, F!LlmField, F!Owned
<1>7. ASSUME NEW r \in F!Role \ Touched(p)
      PROVE  F!Effective(p)[r] = F!Split(fModel[r])
  BY <1>5 DEF ShownHolds, ShowsModel, F!Effective
<1>8. "llm" \in F!Forms /\ FirstRoot \in Roots
  BY SettingsBounds DEF F!Forms
<1> HIDE DEF content
<1>. QED BY <1>1, <1>2, <1>3, <1>4, <1>6, <1>7, <1>8, SendStep

\* What is inherited is empty when it is saved; the key is not sent unless it
\* is inherited or typed.
LEMMA SubmitEmbeddingStep ==
  ASSUME SettingsInv, NEW p \in Pages, F!SubmitEmbedding(p)
  PROVE  SettingsInv'
<1> DEFINE show == fPage[p].show
           inherit == fPage[p].inherit
           enabled == fPage[p].enabled
           fields == IF "embKey" \in inherit \/ show["embKey"] # 0
                       THEN F!EmbField ELSE F!EmbField \ {"embKey"}
           values == [f \in F!EmbField |->
                        IF f \in inherit \/ (f = "embModel" /\ ~enabled)
                          THEN 0 ELSE show[f]]
           content == F!Fields(values, fields)
<1>1. /\ F!Send(p, "embedding", content, F!NoChoice, FirstRoot)
      /\ fEvents' = fEvents /\ fPage[p].open
  BY DEF F!SubmitEmbedding, F!Send
<1>2. fPage[p] \in F!Page /\ fEvents' \in 0 .. Edits
  BY <1>1 DEF SettingsInv, F!TypeOK
<1>3. values \in [F!EmbField -> F!Value] /\ fields \subseteq F!EmbField
  BY <1>2, PageParts, FieldNames DEF F!EmbField
<1>4. content \in [F!Field -> F!Value \cup {F!Undefined}]
  BY <1>3 DEF F!Fields
<1>5. ShownHolds(p)
  BY <1>1 DEF SettingsInv, PageHolds
<1>6. ASSUME NEW f \in F!Field, content[f] # F!Undefined
      PROVE  /\ f \in F!Owned("embedding")
             /\ content[f] = fSaved[f] \/ f \in Touched(p)
  <2>1. /\ f \in fields /\ f \in F!EmbField
        /\ content[f] = IF f \in inherit \/ (f = "embModel" /\ ~enabled)
                          THEN 0 ELSE show[f]
    BY <1>6 DEF F!Fields
  <2>2. inherit \subseteq F!Inherited
    BY <1>2, PageParts
  <2>3. f \notin Touched(p) => ShowsField(fPage[p], f)
    BY <1>5 DEF ShownHolds
  <2>4. CASE f = "embUrl"
    BY <2>1, <2>3, <2>4 DEF ShowsField, F!Inherited, F!EmbField, F!Owned
  <2>5. CASE f = "embKey"
    BY <2>1, <2>3, <2>5 DEF ShowsField, F!Inherited, F!EmbField, F!Owned
  <2>6. CASE f = "embModel"
    BY <2>1, <2>2, <2>3, <2>6 DEF ShowsField, F!Inherited, F!EmbField, F!Owned
  <2>. QED BY <2>1, <2>4, <2>5, <2>6 DEF F!EmbField
<1>7. /\ "embedding" \in F!Forms /\ FirstRoot \in Roots
      /\ F!NoChoice \in [F!Role -> F!Choice]
  BY SettingsBounds, ClosedType DEF F!Forms, F!NoChoice, F!Choice, F!Format
<1> HIDE DEF content
<1>. QED BY <1>1, <1>2, <1>4, <1>6, <1>7, SendStep

LEMMA SwitchRootStep ==
  ASSUME SettingsInv, NEW p \in Pages, NEW root \in Roots,
         F!SwitchRoot(p, root)
  PROVE  SettingsInv'
<1> DEFINE content == F!NoRequest.body
<1>1. F!Send(p, "root", content, F!NoChoice, root)
  BY DEF F!SwitchRoot
<1>2. fEvents' \in 0 .. Edits
  BY SettingsBounds DEF F!SwitchRoot, F!Happens, SettingsInv, F!TypeOK
<1>3. /\ content \in [F!Field -> F!Value \cup {F!Undefined}]
      /\ \A f \in F!Field : content[f] = F!Undefined
  BY DEF F!NoRequest
<1>4. "root" \in F!Forms /\ F!NoChoice \in [F!Role -> F!Choice]
  BY SettingsBounds DEF F!Forms, F!NoChoice, F!Choice, F!Format
<1> HIDE DEF content
<1>. QED BY <1>1, <1>2, <1>3, <1>4, SendStep

\* A save replaces only what its own form may, and there only settings that
\* are touched on its page; on the others they are marked.
LEMMA SaveStep ==
  ASSUME SettingsInv, NEW p \in Pages, NEW k \in F!Forms, F!Save(p, k)
  PROVE  SettingsInv'
<1> USE DEF SettingsInv
<1> DEFINE body == fSent[p][k].body
           replaced == {f \in F!Field : fSaved'[f] # fSaved[f]}
                         \cup {m \in F!Role : fModel'[m] # fModel[m]}
           marked(q) == [fPage[q] EXCEPT !.stale = @ \cup replaced]
           answer == IF fPage[p].open
                       THEN [F!NoRequest EXCEPT !.state = "done",
                                                !.root = fCurrent]
                       ELSE F!NoRequest
<1>1. /\ fSent[p][k] \in F!Request /\ fSent[p][k].state = "sent"
      /\ body \in [F!Field -> F!Value \cup {F!Undefined}]
      /\ fSent[p][k].choice \in [F!Role -> F!Choice]
      /\ fSent[p][k].root \in Roots
  BY DEF F!Save, F!TypeOK, F!Request
<1>2. /\ fSaved' = [f \in F!Field |-> IF body[f] = F!Undefined
                                        THEN fSaved[f] ELSE body[f]]
      /\ fModel' = IF k = "llm"
                     THEN [m \in F!Role |-> F!Build(fSent[p][k].choice[m])]
                     ELSE fModel
      /\ fPage' = [q \in Pages |-> IF q # p /\ F!Underway(q) THEN marked(q)
                                   ELSE fPage[q]]
      /\ fSent' = [fSent EXCEPT ![p][k] = answer]
      /\ UNCHANGED <<fConfigured, fCurrent, fEvents>>
  BY DEF F!Save
<1>3. SentHolds(p, k)
  BY <1>1 DEF PageHolds
<1>4. /\ fSaved' \in [F!Field -> F!Value]
      /\ \A f \in F!Field \ Touched(p) : fSaved'[f] = fSaved[f]
  BY <1>1, <1>2, <1>3 DEF SentHolds, F!TypeOK
<1>5. /\ fModel' \in [F!Role -> F!Model]
      /\ \A r \in F!Role \ Touched(p) :
           F!Split(fModel'[r]) = F!Split(fModel[r])
  BY <1>1, <1>2, <1>3, BuiltIsSplit DEF SentHolds, F!TypeOK
<1>6. fPending' \in Roots \cup {NoRoot} /\ fEnv' \in Roots
  BY <1>1 DEF F!Save, F!TypeOK
<1>7. answer \in F!Request /\ answer.state # "sent"
  <2>1. fCurrent \in Roots
    BY DEF F!TypeOK
  <2>. QED BY <2>1, ClosedType DEF F!NoRequest, F!Request
<1> HIDE DEF answer
<1>8. NoneBegins /\ fSent' \in [Pages -> [F!Forms -> F!Request]]
  BY <1>2, <1>7 DEF NoneBegins, F!TypeOK
<1>9. replaced \subseteq F!Field \cup F!Role
  OBVIOUS
<1>10. \A f \in F!Field \ replaced : fSaved'[f] = fSaved[f]
  OBVIOUS
<1>11. \A r \in F!Role \ replaced : fModel'[r] = fModel[r]
  OBVIOUS
<1> HIDE DEF replaced
<1>12. ASSUME NEW q \in Pages, q # p, F!Underway(q)
       PROVE  /\ fPage'[q] \in F!Page
              /\ fPage'[q].open = fPage[q].open
              /\ fPage'[q].show = fPage[q].show
              /\ fPage'[q].choice = fPage[q].choice
              /\ fPage'[q].separate = fPage[q].separate
              /\ fPage'[q].inherit = fPage[q].inherit
              /\ fPage'[q].enabled = fPage[q].enabled
              /\ Touched(q)' = Touched(q) \cup replaced
  <2>1. fPage[q] \in F!Page /\ fPage'[q] = marked(q)
    BY <1>2, <1>12 DEF F!TypeOK
  <2>2. fPage[q].stale \cup replaced \subseteq F!Field \cup F!Role
    BY <1>9, <2>1, PageParts
  <2>3. /\ fPage'[q].typed = fPage[q].typed
        /\ fPage'[q].stale = fPage[q].stale \cup replaced
    BY <2>1 DEF F!Page
  <2>. QED BY <2>1, <2>2, <2>3 DEF F!Page, Touched
<1>13. fPage' \in [Pages -> F!Page]
  <2>1. ASSUME NEW q \in Pages
        PROVE  fPage'[q] \in F!Page
    BY <1>2, <1>12 DEF F!TypeOK
  <2>. QED BY <1>2, <2>1
<1>14. F!TypeOK'
  BY <1>2, <1>4, <1>5, <1>6, <1>8, <1>13 DEF F!TypeOK
<1>15. ASSUME NEW q \in Pages
       PROVE  PageHolds(q)'
  <2>1. CASE q = p
    <3>1. fPage'[q] = fPage[q] /\ Touched(q)' = Touched(q)
      BY <1>2, <2>1 DEF Touched
    <3>. QED BY <1>4, <1>5, <1>8, <2>1, <3>1, Carried
  <2>2. CASE q # p /\ F!Underway(q)
    <3>1. /\ \A f \in F!Field \ Touched(q)' : fSaved'[f] = fSaved[f]
          /\ \A r \in F!Role \ Touched(q)' :
               F!Split(fModel'[r]) = F!Split(fModel[r])
          /\ Touched(q) \subseteq Touched(q)'
      BY <1>10, <1>11, <1>12, <2>2
    <3>2. \A f \in F!Field : ShowsField(fPage[q], f) => ShowsField(fPage'[q], f)
      BY <1>12, <2>2 DEF ShowsField
    <3>3. \A r \in F!Role : ShowsModel(fPage[q], r) => ShowsModel(fPage'[q], r)
      BY <1>12, <2>2 DEF ShowsModel
    <3>. QED BY <1>8, <1>12, <2>2, <3>1, <3>2, <3>3, Carried
  <2>3. CASE q # p /\ ~F!Underway(q)
    <3>1. fPage'[q] = fPage[q]
      BY <1>2, <2>3
    <3>2. ~fPage'[q].open
      BY <2>3, <3>1 DEF F!Underway
    <3>3. \A j \in F!Forms : fSent'[q][j].state # "sent"
      BY <1>8, <2>3 DEF F!Underway, NoneBegins
    <3>. QED BY <3>2, <3>3 DEF PageHolds
  <2>. QED BY <2>1, <2>2, <2>3
<1>. QED BY <1>14, <1>15

\* A save that fails, a file edited by hand, a restart: nothing is saved.
LEMMA RootStep ==
  ASSUME SettingsInv,
         \/ \E p \in Pages : F!EnvFails(p)
         \/ \E p \in Pages, k \in F!Forms : F!TableFails(p, k)
         \/ \E path \in Roots : F!EditFile(path)
         \/ F!Restart
  PROVE  SettingsInv'
<1> USE DEF SettingsInv
<1>1. UNCHANGED <<fSaved, fModel, fPending, fConfigured, fPage>>
  BY DEF F!EnvFails, F!TableFails, F!EditFile, F!Restart
<1>2. "root" \in F!Forms
  BY DEF F!Forms
<1>3. fEnv' \in Roots /\ fCurrent' \in Roots /\ fEvents' \in 0 .. Edits
  BY <1>2, SettingsBounds
     DEF F!EnvFails, F!TableFails, F!EditFile, F!Restart, F!Happens, F!TypeOK,
         F!Request
<1>4. NoneBegins /\ fSent' \in [Pages -> [F!Forms -> F!Request]]
  <2>1. CASE F!Restart
    BY <2>1, ClosedType DEF F!Restart, NoneBegins, F!NoRequest
  <2>2. CASE \E path \in Roots : F!EditFile(path)
    BY <2>2 DEF F!EditFile, NoneBegins, F!TypeOK
  <2>3. CASE \/ \E p \in Pages : F!EnvFails(p)
             \/ \E p \in Pages, k \in F!Forms : F!TableFails(p, k)
    <3>1. PICK p \in Pages, k \in F!Forms :
            fSent' = [fSent EXCEPT ![p][k] = F!NoRequest]
      BY <1>2, <2>3 DEF F!EnvFails, F!TableFails, F!Refuse
    <3>. QED BY <3>1, Forgotten
  <2>. QED BY <2>1, <2>2, <2>3
<1>5. F!TypeOK'
  BY <1>1, <1>3, <1>4 DEF F!TypeOK
<1>6. ASSUME NEW q \in Pages
      PROVE  PageHolds(q)'
  BY <1>1, <1>4, Carried DEF Touched
<1>. QED BY <1>5, <1>6

\* In the instance: while the other parts run it has no value.
SettingsHold == part = "settings" => SettingsInv

\* The inductive invariant of the settings forms: what a page, or the body it
\* sent, has of a setting its user has not touched is as saved, unless another
\* page saved it meanwhile (system-settings-form.tsx); of a model that is its
\* format and name (llm-model-format.ts).
THEOREM SettingsInvariant == Spec => []SettingsHold
<1>1. Init => SettingsHold
  BY SettingsStart DEF Init, SettingsInit, SettingsHold
<1>2. SettingsHold /\ [Next]_vars => SettingsHold'
  <2> SUFFICES ASSUME SettingsInv, part = "settings", [Next]_vars
               PROVE  SettingsInv'
    BY PartsRun DEF SettingsHold
  <2>1. CASE F!Next
    BY <2>1, OpenStep, TypeStep, ChooseStep, SeparateStep, InheritStep,
       EnableStep, RereadStep, SubmitLlmStep, SubmitEmbeddingStep,
       SwitchRootStep, ReceiveStep, LeaveStep, SaveStep, RootStep DEF F!Next
  <2>2. CASE UNCHANGED settings
    <3>1. F!TypeOK' /\ NoneBegins
      BY <2>2 DEF settings, SettingsInv, F!TypeOK, NoneBegins
    <3>2. \A q \in Pages : PageHolds(q)'
      BY <2>2, <3>1, Carried DEF settings, SettingsInv, Touched
    <3>. QED BY <3>1, <3>2 DEF SettingsInv
  <2>. QED BY <2>1, <2>2, PartsRun
<1>. QED BY <1>1, <1>2, PTL DEF Spec

\* What pages do changes nothing on the server.
LEMMA ServerStep ==
  ASSUME F!Next
  PROVE  \/ UNCHANGED F!server
         \/ \E p \in Pages, k \in F!Forms : F!Save(p, k) \/ F!TableFails(p, k)
         \/ \E p \in Pages : F!EnvFails(p)
         \/ \E path \in Roots : F!EditFile(path)
         \/ F!Restart
<1>1. ASSUME NEW p \in Pages, NEW mine, NEW edited, F!Edit(p, mine, edited)
      PROVE  UNCHANGED F!server
  BY <1>1 DEF F!Edit
<1>2. ASSUME NEW p \in Pages, NEW k, NEW content, NEW models, NEW root,
             F!Send(p, k, content, models, root)
      PROVE  UNCHANGED F!server
  BY <1>2 DEF F!Send
<1>3. ASSUME NEW p \in Pages,
             \/ F!Open(p) \/ F!Refresh(p) \/ F!Leave(p)
             \/ \E k \in F!Forms : F!Receive(p, k)
      PROVE  UNCHANGED F!server
  BY <1>3 DEF F!Open, F!Refresh, F!Leave, F!Receive
<1>4. ASSUME NEW p \in Pages,
             \/ F!Separate(p) \/ F!Enable(p)
             \/ \E f \in F!Inherited : F!Inherit(p, f)
             \/ \E f \in F!Field, v \in F!Value : F!Type(p, f, v)
             \/ \E m \in F!Role, c \in F!Choice : F!Choose(p, m, c)
      PROVE  UNCHANGED F!server
  BY <1>1, <1>4, Zenon
     DEF F!Separate, F!Enable, F!Inherit, F!Type, F!Choose
<1>5. ASSUME NEW p \in Pages,
             \/ F!SubmitLlm(p) \/ F!SubmitEmbedding(p)
             \/ \E root \in Roots : F!SwitchRoot(p, root)
      PROVE  UNCHANGED F!server
  BY <1>2, <1>5, Zenon DEF F!SubmitLlm, F!SubmitEmbedding, F!SwitchRoot
<1>. QED BY <1>3, <1>4, <1>5, Zenon DEF F!Next

\* Fields and models change in a save, and nowhere else.
LEMMA OnlySavesChange ==
  ASSUME F!Next, fSaved' # fSaved \/ fModel' # fModel
  PROVE  \E p \in Pages, k \in F!Forms : F!Save(p, k)
BY ServerStep
   DEF F!server, F!TableFails, F!EnvFails, F!EditFile, F!Restart

\* Whatever pages are open, and in whatever order they save, a save changes
\* only settings of its own form which its user touched there, or which another
\* page saved after this one was opened; a key that was not typed is never
\* emptied, and of a model nobody touched only the provider is added that it
\* did not name (system-settings-form.tsx, handleSubmit; embedding-settings-
\* panel.tsx, save; api/admin/settings, PATCH).
THEOREM OnlyTouchedSettingsChange == Spec => KeptUnlessTouched
<1>1. SettingsHold /\ [Next]_vars =>
        [part = "settings" => F!KeptUnlessTouched]_settings
  <2> SUFFICES ASSUME SettingsInv, F!Next
               PROVE  F!KeptUnlessTouched
    BY PartsRun DEF SettingsHold
  <2> USE DEF SettingsInv
  <2>1. ASSUME NEW p \in Pages, NEW k \in F!Forms, F!Save(p, k),
               NEW s \in F!Owned(k) \cap Touched(p)
        PROVE  F!SavedByToucher(s)
    <3>1. fSent[p][k].state = "sent" /\ fSent'[p][k].state # "sent"
      BY <2>1 DEF F!Save, F!TypeOK, F!NoRequest
    <3>. QED BY <2>1, <3>1 DEF F!SavedByToucher, Touched
  <2>2. ASSUME NEW f \in F!Field, fSaved'[f] # fSaved[f]
        PROVE  F!SavedByToucher(f)
    <3>1. PICK p \in Pages, k \in F!Forms : F!Save(p, k)
      BY <2>2, OnlySavesChange
    <3>2. /\ fSent[p][k].body[f] # F!Undefined
          /\ fSent[p][k].body[f] # fSaved[f]
          /\ fSent[p][k].state = "sent"
      BY <2>2, <3>1 DEF F!Save
    <3>3. f \in F!Owned(k) \cap Touched(p)
      BY <3>2 DEF PageHolds, SentHolds
    <3>. QED BY <2>1, <3>1, <3>3
  <2>3. ASSUME NEW m \in F!Role, fModel'[m] # fModel[m]
        PROVE  \/ F!SavedByToucher(m)
               \/ /\ fModel[m].prefix = "none"
                  /\ fModel'[m] = [fModel[m] EXCEPT !.prefix = "openai"]
    <3>1. PICK p \in Pages, k \in F!Forms : F!Save(p, k)
      BY <2>3, OnlySavesChange
    <3>2. /\ k = "llm" /\ fSent[p][k].state = "sent"
          /\ fModel'[m] = F!Build(fSent[p][k].choice[m])
      BY <2>3, <3>1 DEF F!Save
    <3>3. m \in F!Owned(k)
      BY <3>2 DEF F!Owned
    <3>4. CASE m \in Touched(p)
      BY <2>1, <3>1, <3>3, <3>4
    <3>5. CASE m \notin Touched(p)
      <4>1. fModel'[m] = F!Build(F!Split(fModel[m]))
        BY <3>2, <3>5 DEF PageHolds, SentHolds
      <4>2. fModel[m] \in F!Model
        BY DEF F!TypeOK
      <4>. QED BY <2>3, <4>1, <4>2 DEF F!Build, F!Split, F!Model
    <3>. QED BY <3>4, <3>5
  <2>. QED BY <2>2, <2>3 DEF F!KeptUnlessTouched
<1>. QED BY <1>1, SettingsInvariant, PTL DEF Spec, KeptUnlessTouched

\* The recorded root and that of the environment file are told apart only by a
\* save that failed at the file or between the file and the table and recorded
\* nothing, by hand, or by a save where no file is configured
\* (api/admin/settings, PATCH; lib/server-env-file).
THEOREM RootSwitchCompletes == Spec => SwitchCompletes
<1>1. [Next]_vars => [part = "settings" => F!SwitchCompletes]_settings
  <2> SUFFICES ASSUME F!Next
               PROVE  F!SwitchCompletes
    BY PartsRun
  <2>1. CASE fPending' = fPending /\ fEnv' = fEnv
    BY <2>1 DEF F!SwitchCompletes
  <2>2. ASSUME NEW p \in Pages, NEW k \in F!Forms, F!Save(p, k)
        PROVE  F!SwitchCompletes
    <3>1. CASE k = "root"
      <4>1. fConfigured => fPending' = fEnv'
        BY <2>2, <3>1 DEF F!Save
      <4>. QED BY <2>2, <3>1, <4>1 DEF F!SwitchCompletes
    <3>2. CASE k # "root"
      BY <2>1, <2>2, <3>2 DEF F!Save
    <3>. QED BY <3>1, <3>2
  <2>3. ASSUME NEW p \in Pages, NEW k \in F!Forms, F!TableFails(p, k)
        PROVE  F!SwitchCompletes
    <3>1. fPending' = fPending
      BY <2>3 DEF F!TableFails
    <3>2. k # "root" => fEnv' = fEnv
      BY <2>3 DEF F!TableFails
    <3>. QED BY <2>1, <2>3, <3>1, <3>2 DEF F!SwitchCompletes
  <2>4. CASE \E p \in Pages : F!EnvFails(p)
    BY <2>4 DEF F!EnvFails, F!SwitchCompletes
  <2>5. CASE \E path \in Roots : F!EditFile(path)
    BY <2>5 DEF F!SwitchCompletes
  <2>6. UNCHANGED F!server \/ F!Restart => fPending' = fPending /\ fEnv' = fEnv
    BY DEF F!server, F!Restart
  <2>. QED BY <2>1, <2>2, <2>3, <2>4, <2>5, <2>6, ServerStep
<1>. QED BY <1>1, PTL DEF Spec, SwitchCompletes

-----------------------------------------------------------------------------
(***************************************************************************)
(* The migration of the database.  What a start is about to remove, or has *)
(* removed and not marked yet, is queued; of an upload neither is true.    *)
(***************************************************************************)

RemovalsQueued ==
  /\ \A d \in M!Uploads : mQueue[d] # "queued"
  /\ \A d \in mStart.todo : mQueue[d] = "queued" /\ d \notin mStart.doc
  /\ \A d \in mStart.doc : mQueue[d] = "queued" /\ ~mFile[d]
  /\ mStart.pc # "mark" => mStart.doc = {}

VersionDue == mStart.pc = "apply" => mStart.at \in M!Versions

FilesInv == M!TypeOK /\ M!FilesAccounted /\ RemovalsQueued /\ VersionDue

LEMMA FilesStart ==
  ASSUME M!Init
  PROVE  FilesInv
<1>1. M!TypeOK
  <2>1. mRow \in [Uploaded -> M!Kind]
    BY DEF M!Init, M!Kind
  <2>2. mApplied \subseteq M!Versions
    BY DEF M!Init, M!Versions
  <2>. QED BY <2>1, <2>2, MigrationBounds DEF M!Init, M!TypeOK, M!Start
<1>2. M!FilesAccounted /\ RemovalsQueued /\ VersionDue
  BY DEF M!Init, M!FilesAccounted, RemovalsQueued, M!Uploads, VersionDue
<1>. QED BY <1>1, <1>2 DEF FilesInv

LEMMA StartType ==
  ASSUME NEW s \in M!Start
  PROVE  /\ M!Down(s) \in M!Start /\ M!Down(s).pc = "down"
         /\ M!Down(s).todo = {} /\ M!Down(s).doc = {}
BY DEF M!Start, M!Down

\* A step that only moves the start on, or ends it.
LEMMA StartMoves ==
  ASSUME FilesInv, UNCHANGED <<mApplied, mRow, mFile, mQueue, mScope>>,
         mGiven' \in BOOLEAN, mStart' \in M!Start,
         \A d \in mStart'.todo : d \in mStart.todo \/ mQueue[d] = "queued",
         mStart.doc = {} \/ mStart'.todo \subseteq mStart.todo,
         mStart'.doc = {} \/ mStart' = mStart, VersionDue'
  PROVE  FilesInv'
<1>1. M!TypeOK'
  BY DEF FilesInv, M!TypeOK
<1>2. M!FilesAccounted' /\ RemovalsQueued'
  BY DEF FilesInv, M!FilesAccounted, RemovalsQueued, M!Uploads
<1>. QED BY <1>1, <1>2 DEF FilesInv

LEMMA StartStep ==
  ASSUME FilesInv,
         M!Begin \/ M!Look \/ M!Reject \/ M!Stop \/ M!Give
  PROVE  FilesInv'
<1>1. /\ UNCHANGED <<mApplied, mRow, mFile, mQueue, mScope>>
      /\ mGiven' \in BOOLEAN /\ mStart \in M!Start
  BY DEF M!Begin, M!Look, M!Reject, M!Stop, M!Give, M!KeepData, FilesInv,
         M!TypeOK
<1>2. CASE M!Begin
  <2>1. mStart.count + 1 \in 0 .. MaxStarts
    BY <1>1, <1>2, MigrationBounds DEF M!Begin, M!Start
  <2>2. mStart' \in M!Start /\ mStart'.todo = mStart.todo
        /\ mStart'.pc = "look"
    <3>1. mStart' = [mStart EXCEPT !.pc = "look", !.at = 1,
                                   !.count = mStart.count + 1]
      BY <1>2 DEF M!Begin
    <3>2. 1 \in 1 .. 14
      OBVIOUS
    <3>. QED BY <1>1, <2>1, <3>1, <3>2 DEF M!Start
  <2>3. mStart'.doc = mStart.doc /\ mStart.doc = {}
    BY <1>1, <1>2 DEF M!Begin, M!At, M!Start, FilesInv, RemovalsQueued
  <2>. QED BY <1>1, <2>2, <2>3, StartMoves DEF VersionDue
<1>3. CASE M!Look
  <2>1. mStart.at \in M!Versions => mStart.at + 1 \in 1 .. 14
    BY DEF M!Versions
  <2>2. /\ mStart' \in M!Start /\ mStart'.doc = mStart.doc
        /\ \A d \in mStart'.todo : d \in mStart.todo \/ mQueue[d] = "queued"
        /\ VersionDue'
    BY <1>1, <1>3, <2>1 DEF M!Look, M!At, M!Start, VersionDue
  <2>3. mStart.doc = {}
    BY <1>3 DEF M!Look, M!At, FilesInv, RemovalsQueued
  <2>. QED BY <1>1, <2>2, <2>3, StartMoves
<1>4. CASE M!Reject \/ M!Stop
  BY <1>1, <1>4, StartType, StartMoves DEF M!Reject, M!Stop, VersionDue
<1>5. CASE M!Give
  BY <1>1, <1>5, StartMoves DEF M!Give, FilesInv, M!TypeOK, VersionDue
<1>. QED BY <1>2, <1>3, <1>4, <1>5

\* The uploads' documents go, and their files are queued.
LEMMA ApplyStep ==
  ASSUME FilesInv, M!Apply
  PROVE  FilesInv'
<1> USE DEF FilesInv
<1>1. /\ UNCHANGED <<mFile, mGiven>> /\ mStart \in M!Start
      /\ mStart' = [mStart EXCEPT !.pc = "look", !.at = mStart.at + 1]
      /\ mApplied' = mApplied \cup {mStart.at}
      /\ mStart.pc = "apply" /\ mStart.doc = {}
  BY DEF M!Apply, M!At, M!TypeOK, RemovalsQueued
<1>2. /\ mStart' \in M!Start /\ mStart'.pc = "look"
      /\ mStart'.doc = {} /\ mStart'.todo = mStart.todo
      /\ mApplied' \subseteq M!Versions
  <2>1. mStart.at \in M!Versions
    BY <1>1 DEF VersionDue
  <2>2. mStart.at + 1 \in 1 .. 14
    BY <2>1 DEF M!Versions
  <2>. QED BY <1>1, <2>1, <2>2 DEF M!Start, M!TypeOK
<1>3. mScope' \in {"none", "good", "uri"}
  BY DEF M!Apply, M!TypeOK
<1>4. CASE UNCHANGED <<mRow, mQueue>>
  BY <1>1, <1>2, <1>3, <1>4
     DEF M!TypeOK, M!FilesAccounted, RemovalsQueued, VersionDue, M!Uploads
<1>5. ASSUME mRow' = [d \in Uploaded |-> M!TakenOver(d)],
             mQueue' = [d \in Uploaded |-> IF d \in M!Uploads THEN "queued"
                                           ELSE mQueue[d]]
      PROVE  FilesInv'
  <2>1. ASSUME NEW d \in Uploaded
        PROVE  /\ mRow'[d] \in M!Kind /\ mRow'[d] # "upload"
               /\ d \in M!Uploads => mQueue'[d] = "queued"
               /\ d \notin M!Uploads => mQueue'[d] = mQueue[d]
               /\ mQueue'[d] \in {"none", "queued", "purged"}
    BY <1>5 DEF M!TakenOver, M!Uploads, M!Backed, M!TypeOK, M!Kind
  <2>2. mRow' \in [Uploaded -> M!Kind]
        /\ mQueue' \in [Uploaded -> {"none", "queued", "purged"}]
    BY <1>5, <2>1
  <2>3. M!TypeOK'
    BY <1>1, <1>2, <1>3, <2>2 DEF M!TypeOK
  <2>4. M!FilesAccounted'
    BY <1>1, <2>1 DEF M!FilesAccounted, M!Uploads
  <2>5. RemovalsQueued'
    <3>1. mStart.todo \subseteq Uploaded
      BY <1>1 DEF M!Start
    <3>. QED BY <1>2, <2>1, <3>1 DEF RemovalsQueued, M!Uploads
  <2>. QED BY <1>2, <2>3, <2>4, <2>5 DEF VersionDue
<1>. QED BY <1>4, <1>5 DEF M!Apply

LEMMA RemoveStep ==
  ASSUME FilesInv, NEW d \in Uploaded, M!Remove(d)
  PROVE  FilesInv'
<1> USE DEF FilesInv
<1>1. /\ UNCHANGED <<mApplied, mRow, mQueue, mScope, mGiven>>
      /\ mStart \in M!Start /\ mStart.pc = "purge" /\ mStart.doc = {}
      /\ d \in mStart.todo /\ mQueue[d] = "queued"
  BY DEF M!Remove, M!At, M!TypeOK, RemovalsQueued
<1>2. CASE /\ mFile' = [mFile EXCEPT ![d] = FALSE]
           /\ mStart' = [mStart EXCEPT !.pc = "mark",
                           !.todo = mStart.todo \ {d}, !.doc = {d}]
  <2>1. /\ mStart' \in M!Start /\ mStart'.pc = "mark"
        /\ mStart'.todo = mStart.todo \ {d} /\ mStart'.doc = {d}
    BY <1>1, <1>2 DEF M!Start
  <2>2. M!TypeOK' /\ VersionDue'
    BY <1>1, <1>2, <2>1 DEF M!TypeOK, VersionDue
  <2>3. M!FilesAccounted'
    BY <1>1, <1>2 DEF M!FilesAccounted, RemovalsQueued, M!Uploads, M!TypeOK
  <2>4. RemovalsQueued'
    BY <1>1, <1>2, <2>1 DEF RemovalsQueued, M!Uploads, M!TypeOK
  <2>. QED BY <2>2, <2>3, <2>4
<1>3. CASE /\ mStart' = [mStart EXCEPT !.todo = mStart.todo \ {d}]
           /\ UNCHANGED mFile
  <2>1. /\ mStart' \in M!Start /\ mStart'.pc = "purge"
        /\ mStart'.todo = mStart.todo \ {d} /\ mStart'.doc = {}
    BY <1>1, <1>3 DEF M!Start
  <2>2. M!TypeOK' /\ VersionDue'
    BY <1>1, <1>3, <2>1 DEF M!TypeOK, VersionDue
  <2>3. M!FilesAccounted' /\ RemovalsQueued'
    BY <1>1, <1>3, <2>1 DEF M!FilesAccounted, RemovalsQueued, M!Uploads
  <2>. QED BY <2>2, <2>3
<1>. QED BY <1>2, <1>3 DEF M!Remove

LEMMA MarkStep ==
  ASSUME FilesInv, M!Mark
  PROVE  FilesInv'
<1> USE DEF FilesInv
<1>1. /\ UNCHANGED <<mApplied, mRow, mFile, mScope, mGiven>>
      /\ mStart \in M!Start
      /\ mQueue' = [d \in Uploaded |-> IF d \in mStart.doc THEN "purged"
                                       ELSE mQueue[d]]
      /\ mStart' = [mStart EXCEPT !.pc = "purge", !.doc = {}]
  BY DEF M!Mark, M!TypeOK
<1>2. /\ mStart' \in M!Start /\ mStart'.pc = "purge"
      /\ mStart'.todo = mStart.todo /\ mStart'.doc = {}
      /\ mStart.todo \subseteq Uploaded
  BY <1>1 DEF M!Start
<1>3. M!TypeOK' /\ VersionDue'
  BY <1>1, <1>2 DEF M!TypeOK, VersionDue
<1>4. M!FilesAccounted'
  BY <1>1 DEF M!FilesAccounted, RemovalsQueued, M!Uploads
<1>5. RemovalsQueued'
  BY <1>1, <1>2 DEF RemovalsQueued, M!Uploads
<1>. QED BY <1>3, <1>4, <1>5

LEMMA CorrectStep ==
  ASSUME FilesInv, NEW d \in Uploaded, M!Correct(d)
  PROVE  FilesInv'
<1> USE DEF FilesInv
<1>1. /\ UNCHANGED <<mApplied, mFile, mQueue, mScope, mGiven, mStart>>
      /\ mRow' = [mRow EXCEPT ![d] = IF mRow[d] = "split" THEN "taken"
                                     ELSE "source"]
      /\ mRow[d] # "upload"
  BY DEF M!Correct
<1>2. M!TypeOK'
  BY <1>1 DEF M!TypeOK, M!Kind
<1>3. M!FilesAccounted' /\ RemovalsQueued' /\ VersionDue'
  BY <1>1 DEF M!FilesAccounted, RemovalsQueued, VersionDue, M!Uploads,
     M!TypeOK
<1>. QED BY <1>2, <1>3

\* In the instance: while the other parts run it has no value.
FilesHold == part = "migrations" => FilesInv

\* The inductive invariant of a start that migrates the database: what it is
\* about to remove is queued and no upload any more, wherever the process is
\* killed (db/migrate.ts, db/legacy-corpus-migration.ts).
THEOREM FilesInvariant == Spec => []FilesHold
<1>1. Init => FilesHold
  BY FilesStart DEF Init, FilesHold
<1>2. FilesHold /\ [Next]_vars => FilesHold'
  <2> SUFFICES ASSUME FilesInv, part = "migrations", [Next]_vars
               PROVE  FilesInv'
    BY PartsRun DEF FilesHold
  <2>1. CASE M!Next
    BY <2>1, StartStep, ApplyStep, RemoveStep, MarkStep, CorrectStep
       DEF M!Next
  <2>2. CASE UNCHANGED migrations
    BY <2>2 DEF migrations, FilesInv, M!TypeOK, M!FilesAccounted,
       RemovalsQueued, VersionDue, M!Uploads
  <2>. QED BY <2>1, <2>2, PartsRun
<1>. QED BY <1>1, <1>2, PTL DEF Spec

\* Through failed, killed and repeated starts the file of an upload exists
\* while its document does; then it is queued until it is gone
\* (db/migrate, legacy-corpus-migration).
THEOREM UploadsAccounted == Spec => []FilesAccounted
<1>1. FilesHold => FilesAccounted
  BY DEF FilesHold, FilesInv, FilesAccounted
<1>. QED BY <1>1, FilesInvariant, PTL

-----------------------------------------------------------------------------
(***************************************************************************)
(* Maintenance.  A pass has unlinked files only between the reading of the *)
(* queue and its marks, and what it is about to retire is still missing:   *)
(* a synchronization would have to run beside it.                          *)
(***************************************************************************)

PassHolds ==
  /\ kPass.unlinked # {} => kPass.pc = "unlink"
  /\ kPass.pc = "retire" => \A d \in kPass.todo : kDoc[d] = "old"

UpkeepInv == K!TypeOK /\ PassHolds

LEMMA UpkeepStarts ==
  ASSUME K!Init
  PROVE  UpkeepInv
BY DEF K!Init, UpkeepInv, K!TypeOK, PassHolds, K!NoPass, K!Pass, K!Source,
   K!Steps

\* The administrator, time, and what happens between two passes.
LEMMA WorldStep ==
  ASSUME UpkeepInv,
         \/ K!RequestPurge \/ K!RestoreSource \/ K!DisableSource
         \/ K!WindowEnds \/ K!ValidateSource
         \/ \E d \in Purged : K!Age(d) \/ K!Scan(d)
  PROVE  UpkeepInv'
<1> USE DEF UpkeepInv
<1>1. UNCHANGED <<kIdx, kPdf, kQueue, kDir, kChild, kPass>>
  BY DEF K!RequestPurge, K!RestoreSource, K!DisableSource, K!WindowEnds,
     K!ValidateSource, K!Age, K!Scan, K!rows, K!files
<1>2. kSource' \in K!Source
  <2>1. kSource \in K!Source
    BY DEF K!TypeOK
  <2>2. CASE K!RequestPurge \/ K!RestoreSource
    <3>1. \E due \in BOOLEAN :
            \/ kSource' = [state |-> "pending_purge", due |-> due]
            \/ kSource' = [state |-> "disabled", due |-> due]
      BY <2>2 DEF K!RequestPurge, K!RestoreSource
    <3>. QED BY <3>1 DEF K!Source
  <2>3. CASE K!DisableSource \/ K!ValidateSource
    BY <2>1, <2>3 DEF K!DisableSource, K!ValidateSource, K!Source
  <2>4. CASE K!WindowEnds
    BY <2>1, <2>4 DEF K!WindowEnds, K!Source
  <2>5. CASE \E d \in Purged : K!Age(d) \/ K!Scan(d)
    BY <2>1, <2>5 DEF K!Age, K!Scan
  <2>. QED BY <2>2, <2>3, <2>4, <2>5
<1>3. /\ kDoc' \in [Purged -> {"active", "missing", "old", "gone"}]
      /\ \/ kPass.pc = "idle"
         \/ \A d \in Purged : kDoc[d] = "old" => kDoc'[d] = "old"
  <2>1. CASE UNCHANGED kDoc
    BY <2>1 DEF K!TypeOK
  <2>2. CASE \E d \in Purged : K!Age(d)
    BY <2>2 DEF K!Age, K!TypeOK
  <2>3. CASE \E d \in Purged : K!Scan(d)
    BY <2>3 DEF K!Scan, K!TypeOK, K!At
  <2>. QED BY <2>1, <2>2, <2>3
           DEF K!RequestPurge, K!RestoreSource, K!DisableSource,
               K!WindowEnds, K!ValidateSource, K!files
<1>4. kPass \in K!Pass /\ kPass.todo \subseteq Purged
  BY DEF K!TypeOK, K!Pass
<1>. QED BY <1>1, <1>2, <1>3, <1>4 DEF K!TypeOK, PassHolds

LEMMA ChildStep ==
  ASSUME UpkeepInv, NEW d \in Purged,
         \/ K!StartChild(d) \/ K!Fetch(d) \/ K!Convert(d) \/ K!Build(d)
         \/ K!Fence(d) \/ K!Publish(d) \/ K!ChildEnds(d)
  PROVE  UpkeepInv'
<1> USE DEF UpkeepInv, K!ChildGoes, K!rows, K!files
<1>1. UNCHANGED <<kSource, kDoc, kQueue, kPass>>
  BY DEF K!StartChild, K!Fetch, K!Convert, K!Build, K!Fence, K!Publish,
     K!ChildEnds
<1>2. kChild' \in [Purged -> {"none", "fetch", "convert", "build", "fence",
                             "publish"}]
  BY DEF K!StartChild, K!Fetch, K!Convert, K!Build, K!Fence, K!Publish,
     K!ChildEnds, K!TypeOK
<1>3. /\ kIdx' \in [Purged -> BOOLEAN] /\ kPdf' \in [Purged -> BOOLEAN]
      /\ kDir' \in [Purged -> {"none", "used", "left"}]
  BY DEF K!StartChild, K!Fetch, K!Convert, K!Build, K!Fence, K!Publish,
     K!ChildEnds, K!TypeOK
<1>. QED BY <1>1, <1>2, <1>3 DEF K!TypeOK, PassHolds

LEMMA PassStep ==
  ASSUME UpkeepInv,
         \/ K!StartPass \/ K!ReadDue \/ K!PurgeSource \/ K!ReadMissing
         \/ K!RetireIndexes \/ K!ReadQueue \/ K!Mark \/ K!RemoveTemporary
         \/ K!PassEnds \/ \E d \in Purged : K!Unlink(d)
  PROVE  UpkeepInv'
<1> USE DEF UpkeepInv, K!rows, K!files, K!At
<1>1. kPass \in K!Pass /\ K!NoPass \in K!Pass
      /\ K!AfterPurge \in {"missing", "queue"}
  BY DEF K!TypeOK, K!Pass, K!NoPass, K!Steps, K!AfterPurge
<1>2. UNCHANGED kChild
  BY DEF K!StartPass, K!ReadDue, K!PurgeSource, K!ReadMissing,
     K!RetireIndexes, K!ReadQueue, K!Mark, K!RemoveTemporary, K!PassEnds,
     K!Unlink
<1>3. \/ UNCHANGED <<kSource, kDoc>>
      \/ K!PurgeSource /\ kPass'.pc # "retire"
  <2>1. CASE K!PurgeSource
    BY <1>1, <2>1 DEF K!PurgeSource, K!Pass
  <2>. QED BY <2>1 DEF K!StartPass, K!ReadDue, K!ReadMissing,
       K!RetireIndexes, K!ReadQueue, K!Mark, K!RemoveTemporary, K!PassEnds,
       K!Unlink
<1>4. /\ kSource' \in K!Source
      /\ kDoc' \in [Purged -> {"active", "missing", "old", "gone"}]
  <2>1. CASE UNCHANGED <<kSource, kDoc>>
    BY <2>1 DEF K!TypeOK
  <2>2. CASE K!PurgeSource
    BY <2>2 DEF K!PurgeSource, K!Source
  <2>. QED BY <1>3, <2>1, <2>2
<1>5. /\ kIdx' \in [Purged -> BOOLEAN]
      /\ kQueue' \in [Purged -> {"none", "queued", "purged"}]
  <2>1. CASE UNCHANGED <<kIdx, kQueue>>
    BY <2>1 DEF K!TypeOK
  <2>2. CASE K!PurgeSource \/ K!RetireIndexes
    <3>1. \E D \in SUBSET Purged : kQueue' = K!Queued(D)
      BY <1>1, <2>2 DEF K!PurgeSource, K!RetireIndexes, K!Pass
    <3>2. kQueue' \in [Purged -> {"none", "queued", "purged"}]
      BY <3>1 DEF K!Queued, K!TypeOK
    <3>3. kIdx' = [d \in Purged |-> FALSE]
          \/ kIdx' = [d \in Purged |-> kIdx[d] /\ d \notin kPass.todo]
      BY <2>2 DEF K!PurgeSource, K!RetireIndexes
    <3>4. kIdx' \in [Purged -> BOOLEAN]
      BY <3>3
    <3>. QED BY <3>2, <3>4
  <2>3. CASE K!Mark
    BY <2>3 DEF K!Mark, K!TypeOK
  <2>. QED BY <2>1, <2>2, <2>3 DEF K!StartPass, K!ReadDue, K!ReadMissing,
       K!ReadQueue, K!RemoveTemporary, K!PassEnds, K!Unlink
<1>6. /\ kPdf' \in [Purged -> BOOLEAN]
      /\ kDir' \in [Purged -> {"none", "used", "left"}]
  <2>1. CASE UNCHANGED <<kPdf, kDir>>
    BY <2>1 DEF K!TypeOK
  <2>2. CASE \E d \in Purged : K!Unlink(d)
    BY <2>2 DEF K!Unlink, K!TypeOK
  <2>3. CASE K!RemoveTemporary
    BY <2>3 DEF K!RemoveTemporary, K!TypeOK
  <2>. QED BY <2>1, <2>2, <2>3 DEF K!StartPass, K!ReadDue, K!PurgeSource,
       K!ReadMissing, K!RetireIndexes, K!ReadQueue, K!Mark, K!PassEnds
<1> DEFINE Goes == /\ kPass' \in K!Pass
                   /\ kPass'.unlinked # {} => kPass'.pc = "unlink"
                   /\ kPass'.pc = "retire" =>
                        \A d \in kPass'.todo : kDoc[d] = "old"
<1>7. Goes
  <2>1. CASE K!StartPass
    BY <1>1, <2>1 DEF K!StartPass, K!NoPass, K!Pass, K!Steps
  <2>2. CASE K!PassEnds \/ K!RemoveTemporary
    <3>1. kPass' = K!NoPass
      BY <2>2 DEF K!PassEnds, K!RemoveTemporary
    <3>. QED BY <1>1, <3>1 DEF K!NoPass
  <2>3. CASE K!ReadDue
    BY <1>1, <2>3 DEF K!ReadDue, K!Then, K!Pass, K!Steps, PassHolds
  <2>4. CASE K!PurgeSource
    BY <1>1, <2>4 DEF K!PurgeSource, K!Pass, K!Steps, PassHolds
  <2>5. CASE K!ReadMissing
    BY <1>1, <2>5 DEF K!ReadMissing, K!Pass, K!Steps, PassHolds
  <2>6. CASE K!RetireIndexes
    BY <1>1, <2>6 DEF K!RetireIndexes, K!Pass, K!Steps, PassHolds
  <2>7. CASE K!ReadQueue
    BY <1>1, <2>7 DEF K!ReadQueue, K!Pass, K!Steps, PassHolds
  <2>8. CASE K!Mark
    BY <1>1, <2>8 DEF K!Mark, K!Pass, K!Steps, PassHolds
  <2>9. ASSUME NEW d \in Purged, K!Unlink(d)
        PROVE  Goes
    <3>1. \E unlinked \in SUBSET Purged :
            kPass' = [kPass EXCEPT !.todo = kPass.todo \ {d},
                                   !.unlinked = unlinked]
      <4>1. kPass = [kPass EXCEPT !.unlinked = kPass.unlinked]
            /\ kPass.unlinked \in SUBSET Purged
        BY <1>1 DEF K!Pass
      <4>2. \/ kPass' = [kPass EXCEPT !.todo = kPass.todo \ {d},
                                !.unlinked = kPass.unlinked \cup {d}]
            \/ kPass' = [kPass EXCEPT !.todo = kPass.todo \ {d}]
        BY <2>9 DEF K!Unlink
      <4>3. [kPass EXCEPT !.todo = kPass.todo \ {d}]
              = [kPass EXCEPT !.todo = kPass.todo \ {d},
                              !.unlinked = kPass.unlinked]
        BY <1>1 DEF K!Pass
      <4>. QED BY <4>1, <4>2, <4>3
    <3>2. kPass.pc = "unlink"
      BY <2>9 DEF K!Unlink
    <3>. QED BY <1>1, <3>1, <3>2 DEF K!Pass
  <2>. QED BY <2>1, <2>2, <2>3, <2>4, <2>5, <2>6, <2>7, <2>8, <2>9
<1>. QED BY <1>2, <1>3, <1>4, <1>5, <1>6, <1>7 DEF K!TypeOK, PassHolds

\* In the instance: while the other parts run it has no value.
UpkeepHolds == part = "upkeep" => UpkeepInv

\* The inductive invariant of a maintenance pass: what it is about to retire is
\* still missing, and files it has unlinked await their marks only during the
\* unlinking, whatever happens beside it (maintenance.py).
THEOREM UpkeepInvariant == Spec => []UpkeepHolds
<1>1. Init => UpkeepHolds
  BY UpkeepStarts DEF Init, UpkeepHolds
<1>2. UpkeepHolds /\ [Next]_vars => UpkeepHolds'
  <2> SUFFICES ASSUME UpkeepInv, part = "upkeep", [Next]_vars
               PROVE  UpkeepInv'
    BY PartsRun DEF UpkeepHolds
  <2>1. CASE K!Next
    BY <2>1, WorldStep, ChildStep, PassStep DEF K!Next
  <2>2. CASE UNCHANGED upkeep
    BY <2>2 DEF upkeep, UpkeepInv, K!TypeOK, PassHolds
  <2>. QED BY <2>1, <2>2, PartsRun
<1>. QED BY <1>1, <1>2, PTL DEF Spec

\* No index of a document that a synchronization has found again is retired:
\* from the reading of what is missing to the removal the document stays
\* missing, on which the removal relies without asking again (maintenance.py).
THEOREM RetentionKeepsServed == Spec => ServedIndexKept
<1>1. UpkeepHolds /\ [Next]_vars =>
        [part = "upkeep" => K!ServedIndexKept]_upkeep
  <2> SUFFICES ASSUME UpkeepInv, K!Next,
                      NEW d \in Purged, kIdx[d], ~kIdx'[d]
               PROVE  kDoc[d] = "old" \/ kDoc'[d] = "gone"
    BY PartsRun DEF UpkeepHolds, K!ServedIndexKept
  <2> USE DEF UpkeepInv, K!rows, K!files
  <2>1. CASE K!PurgeSource
    BY <2>1 DEF K!PurgeSource
  <2>2. CASE K!RetireIndexes
    BY <2>2 DEF K!RetireIndexes, K!At, PassHolds
  <2>3. CASE \E e \in Purged : K!Publish(e)
    BY <2>3 DEF K!Publish, K!TypeOK
  <2>4. kIdx' # kIdx
    OBVIOUS
  <2>. QED BY <2>1, <2>2, <2>3, <2>4
           DEF K!Next, K!RequestPurge, K!RestoreSource, K!DisableSource,
               K!WindowEnds, K!ValidateSource, K!StartPass, K!ReadDue,
               K!ReadMissing, K!ReadQueue, K!Mark, K!RemoveTemporary,
               K!PassEnds, K!Age, K!Scan, K!Unlink, K!StartChild, K!Fetch,
               K!Convert, K!Build, K!Fence, K!ChildEnds
<1>. QED BY <1>1, UpkeepInvariant, PTL DEF Spec, ServedIndexKept

\* A converted PDF of a purged document that nothing has to remove any more is
\* one that a child wrote after the purge: every other is queued until it is
\* gone, through failed removals, killed workers and repeated passes
\* (maintenance.py, _queue_converted_artifacts).
THEOREM OrphansOnlyOfLateConversions == Spec => LeftOnlyByLateConversion
<1>1. UpkeepHolds /\ [Next]_vars =>
        [part = "upkeep" => K!LeftOnlyByLateConversion]_upkeep
  <2> SUFFICES ASSUME UpkeepInv, K!Next, NEW d \in Purged,
                      ~K!Orphaned(d), K!Orphaned(d)'
               PROVE  kChild[d] = "convert" /\ kDoc[d] = "gone"
    BY PartsRun DEF UpkeepHolds, K!LeftOnlyByLateConversion
  <2> USE DEF UpkeepInv, K!rows, K!files, K!Orphaned
  <2>1. CASE K!PurgeSource
    <3>1. kPass.unlinked = {}
      BY <2>1 DEF K!PurgeSource, K!At, PassHolds
    <3>2. kPass'.unlinked = {}
      BY <2>1, <3>1 DEF K!PurgeSource, K!TypeOK, K!Pass
    <3>3. kPdf'[d] => kQueue'[d] = "queued"
      BY <2>1 DEF K!PurgeSource, K!Queued
    <3>. QED BY <3>2, <3>3
  <2>2. CASE K!RetireIndexes
    <3>1. /\ kPass'.unlinked = kPass.unlinked
          /\ kQueue[d] = "queued" => kQueue'[d] = "queued"
      BY <2>2 DEF K!RetireIndexes, K!Queued, K!TypeOK, K!Pass
    <3>. QED BY <2>2, <3>1 DEF K!RetireIndexes
  <2>3. CASE K!Mark
    <3>1. /\ kPass'.unlinked = {}
          /\ kQueue'[d] # "queued" =>
               d \in kPass.unlinked \/ kQueue[d] # "queued"
      BY <2>3 DEF K!Mark, K!TypeOK, K!Pass
    <3>. QED BY <2>3, <3>1 DEF K!Mark
  <2>4. ASSUME NEW e \in Purged, K!Unlink(e)
        PROVE  FALSE
    <3>1. /\ d # e => kPdf'[d] = kPdf[d]
          /\ kPass'.unlinked \subseteq kPass.unlinked \cup {e}
          /\ e \in kPass'.unlinked => e \in kPass.unlinked \/ ~kPdf'[e]
          /\ kPdf'[e] => kPdf[e]
      BY <2>4 DEF K!Unlink, K!TypeOK, K!Pass
    <3>. QED BY <2>4, <3>1 DEF K!Unlink
  <2>5. CASE \E e \in Purged : K!Convert(e)
    BY <2>5 DEF K!Convert, K!TypeOK
  <2>6. CASE \E e \in Purged : K!Age(e) \/ K!Scan(e)
    BY <2>6 DEF K!Age, K!Scan, K!TypeOK
  <2>7. CASE \/ K!StartPass \/ K!PassEnds \/ K!RemoveTemporary
             \/ K!ReadDue \/ K!ReadMissing \/ K!ReadQueue
    <3>1. kPass'.unlinked \subseteq kPass.unlinked
      <4>1. kPass \in K!Pass
        BY DEF K!TypeOK
      <4>2. CASE K!StartPass \/ K!PassEnds \/ K!RemoveTemporary
        <5>1. \/ kPass' = K!NoPass
              \/ \E full \in BOOLEAN :
                   kPass' = [K!NoPass EXCEPT !.pc = "due", !.full = full]
          BY <4>2 DEF K!StartPass, K!PassEnds, K!RemoveTemporary
        <5>2. K!NoPass \in K!Pass /\ K!NoPass.unlinked = {}
          BY DEF K!NoPass, K!Pass, K!Steps
        <5>3. kPass'.unlinked = {}
          BY <5>1, <5>2 DEF K!Pass
        <5>. QED BY <5>3
      <4>3. CASE K!ReadDue \/ K!ReadMissing \/ K!ReadQueue
        BY <4>1, <4>3 DEF K!ReadDue, K!ReadMissing, K!ReadQueue, K!Then,
           K!Pass
      <4>. QED BY <2>7, <4>2, <4>3
    <3>2. UNCHANGED <<kPdf, kDoc, kQueue>>
      BY <2>7 DEF K!StartPass, K!PassEnds, K!RemoveTemporary, K!ReadDue,
         K!ReadMissing, K!ReadQueue
    <3>. QED BY <3>1, <3>2
  <2>8. CASE UNCHANGED <<kPdf, kDoc, kQueue, kPass>>
    BY <2>8
  <2>. QED BY <2>1, <2>2, <2>3, <2>4, <2>5, <2>6, <2>7, <2>8
           DEF K!Next, K!RequestPurge, K!RestoreSource, K!DisableSource,
               K!WindowEnds, K!ValidateSource, K!StartChild, K!Fetch,
               K!Build, K!Fence, K!Publish, K!ChildEnds
<1>. QED BY <1>1, UpkeepInvariant, PTL DEF Spec, LeftOnlyByLateConversion

-----------------------------------------------------------------------------
(***************************************************************************)
(* The semantic index.  What a worker writes is labelled with the index it *)
(* read, never with the one that is current when it writes.                *)
(***************************************************************************)

SemanticInv == S!TypeOK /\ S!VectorsOfTheirIndex

LEMMA SemanticStarts ==
  ASSUME S!Init
  PROVE  SemanticInv
<1> USE SemanticBounds DEF S!Init
<1>1. S!Idle \in S!Iteration
  BY DEF S!Idle, S!Iteration
<1>2. S!TypeOK
  <2>1. sGen \in [S!Gens -> S!Generation]
    BY DEF S!Generation
  <2>2. sEmb \in [S!Gens -> [Indexed -> S!Embedding]]
    BY DEF S!Embedding
  <2>3. sWorker \in [Workers -> S!Iteration]
    BY <1>1
  <2>4. /\ sDesired \in Models \cup {NoModel}
        /\ sVersion \in [Indexed -> 0 .. MaxVersion]
        /\ sEvents \in 0 .. Disturbances
    OBVIOUS
  <2>. QED BY <2>1, <2>2, <2>3, <2>4 DEF S!TypeOK
<1>3. S!VectorsOfTheirIndex
  BY DEF S!VectorsOfTheirIndex
<1>. QED BY <1>2, <1>3 DEF SemanticInv

\* A step that writes no vectors.
LEMMA NothingWritten ==
  ASSUME SemanticInv, UNCHANGED sEmb,
         sDesired' \in Models \cup {NoModel},
         sVersion' \in [Indexed -> 0 .. MaxVersion],
         sGen' \in [S!Gens -> S!Generation],
         sWorker' \in [Workers -> S!Iteration],
         sEvents' \in 0 .. Disturbances
  PROVE  SemanticInv'
BY DEF SemanticInv, S!TypeOK, S!VectorsOfTheirIndex

\* The generation of an iteration that found one to work for.
LEMMA FoundGeneration ==
  ASSUME NEW c, S!Current(c) # {}
                  \/ {g \in S!Gens : sGen[g].status = "none"} # {}
  PROVE  (IF S!Current(c) # {} THEN CHOOSE x \in S!Current(c) : TRUE
          ELSE S!Min({g \in S!Gens : sGen[g].status = "none"})) \in S!Gens
<1> DEFINE free == {g \in S!Gens : sGen[g].status = "none"}
<1>1. CASE S!Current(c) # {}
  BY <1>1 DEF S!Current
<1>2. CASE S!Current(c) = {}
  <2>1. free \in SUBSET (1 .. MaxGens) /\ free # {}
    BY <1>2 DEF S!Gens
  <2> HIDE DEF free
  <2>2. S!Min(free) \in free
    BY <2>1, SemanticBounds, LeastOf DEF S!Min
  <2>. QED BY <1>2, <2>2 DEF free
<1>. QED BY <1>1, <1>2

\* Steps beside the workers.
LEMMA ShadowStep ==
  ASSUME SemanticInv,
         \/ \E c \in Models \cup {NoModel} : S!Edit(c)
         \/ \E d \in Indexed : S!Publish(d)
         \/ \E g \in S!Gens : S!LeaseExpires(g) \/ S!RetryDue(g)
  PROVE  SemanticInv'
<1> USE SemanticBounds DEF SemanticInv
<1>1. CASE \E c \in Models \cup {NoModel} : S!Edit(c)
  BY <1>1, NothingWritten DEF S!Edit, S!TypeOK
<1>2. CASE \E d \in Indexed : S!Publish(d)
  BY <1>2, NothingWritten DEF S!Publish, S!TypeOK
<1>3. ASSUME NEW g \in S!Gens, S!LeaseExpires(g) \/ S!RetryDue(g)
      PROVE  SemanticInv'
  <2>1. UNCHANGED <<sDesired, sVersion, sEmb, sWorker>>
    BY <1>3 DEF S!LeaseExpires, S!RetryDue, S!KeepWorld
  <2>2. sEvents' \in 0 .. Disturbances
    BY <1>3 DEF S!LeaseExpires, S!RetryDue, S!TypeOK
  <2>3. sGen' \in [S!Gens -> S!Generation]
    <3>1. sGen[g] \in S!Generation
      BY DEF S!TypeOK
    <3>2. /\ [sGen[g] EXCEPT !.expired = TRUE] \in S!Generation
          /\ [sGen[g] EXCEPT !.due = TRUE] \in S!Generation
      BY <3>1 DEF S!Generation
    <3>3. \/ sGen' = [sGen EXCEPT ![g] = [sGen[g] EXCEPT !.expired = TRUE]]
          \/ sGen' = [sGen EXCEPT ![g] = [sGen[g] EXCEPT !.due = TRUE]]
      BY <1>3 DEF S!LeaseExpires, S!RetryDue, S!TypeOK
    <3>. QED BY <3>2, <3>3 DEF S!TypeOK
  <2>. QED BY <2>1, <2>2, <2>3, NothingWritten DEF S!TypeOK
<1>. QED BY <1>1, <1>2, <1>3

\* A worker goes on where the model says so.
LEMMA WorkerGoes ==
  ASSUME S!TypeOK, NEW w \in Workers,
         NEW pc \in {"idle", "lookup", "claim", "validate", "find", "embed",
                     "write", "count", "confirm", "total", "activate",
                     "degrade", "release"},
         S!GoTo(w, pc)
  PROVE  sWorker' \in [Workers -> S!Iteration]
<1>1. sWorker[w] \in S!Iteration
  BY DEF S!TypeOK
<1>2. [sWorker[w] EXCEPT !.pc = pc] \in S!Iteration
  BY <1>1 DEF S!Iteration
<1>3. sWorker' = [sWorker EXCEPT ![w] = [sWorker[w] EXCEPT !.pc = pc]]
  BY DEF S!GoTo, S!TypeOK
<1>. QED BY <1>2, <1>3 DEF S!TypeOK

LEMMA IterationIdles ==
  ASSUME S!TypeOK, NEW w \in Workers,
         sWorker' = [sWorker EXCEPT ![w] = S!Idle]
  PROVE  sWorker' \in [Workers -> S!Iteration]
<1>1. S!Idle \in S!Iteration
  BY SemanticBounds DEF S!Idle, S!Iteration
<1>. QED BY <1>1 DEF S!TypeOK

LEMMA LookupStep ==
  ASSUME SemanticInv, NEW w \in Workers, S!Lookup(w)
  PROVE  SemanticInv'
<1> USE DEF SemanticInv
<1> DEFINE c == sWorker[w].config
           free == {h \in S!Gens : sGen[h].status = "none"}
           g == IF S!Current(c) # {} THEN CHOOSE x \in S!Current(c) : TRUE
                ELSE S!Min(free)
<1>1. /\ UNCHANGED <<sDesired, sVersion, sEmb, sEvents>>
      /\ sWorker[w] \in S!Iteration
      /\ c \in Models \cup {NoModel}
  <2>1. sWorker[w] \in S!Iteration
    BY DEF S!TypeOK
  <2>. QED BY <2>1 DEF S!Lookup, S!KeepWorld, S!Iteration
<1>2. g \in S!Gens
  BY FoundGeneration DEF S!Lookup
<1>3. /\ \/ sGen' = sGen
         \/ sGen' = [sGen EXCEPT ![g].config = c, ![g].status = "validating"]
      /\ \/ sWorker' = [sWorker EXCEPT ![w] = S!Idle]
         \/ sWorker' = [sWorker EXCEPT ![w] =
                          [sWorker[w] EXCEPT !.pc = "claim", !.gen = g,
                             !.dim = sGen[g].dim,
                             !.ready = sGen[g].status = "ready"
                                         /\ sGen[g].active]]
  BY DEF S!Lookup, S!TypeOK
<1> HIDE DEF g, c
<1>4. sGen[g] \in S!Generation
  BY <1>2 DEF S!TypeOK
<1>5. sGen' \in [S!Gens -> S!Generation]
  <2>1. [sGen[g] EXCEPT !.config = c, !.status = "validating"]
          \in S!Generation
    BY <1>1, <1>4 DEF S!Generation
  <2>2. \/ sGen' = sGen
        \/ sGen' = [sGen EXCEPT ![g] = [sGen[g] EXCEPT
                                 !.config = c, !.status = "validating"]]
    BY <1>2, <1>3 DEF S!TypeOK
  <2>. QED BY <2>1, <2>2 DEF S!TypeOK
<1>6. sWorker' \in [Workers -> S!Iteration]
  <2> DEFINE ready == sGen[g].status = "ready" /\ sGen[g].active
  <2>1. [sWorker[w] EXCEPT !.pc = "claim", !.gen = g, !.dim = sGen[g].dim,
                           !.ready = ready] \in S!Iteration
    <3>1. ready \in BOOLEAN /\ sGen[g].dim \in BOOLEAN
      BY <1>4 DEF S!Generation
    <3> HIDE DEF ready
    <3>. QED BY <1>1, <1>2, <3>1 DEF S!Iteration
  <2>2. CASE sWorker' = [sWorker EXCEPT ![w] = S!Idle]
    BY <2>2, IterationIdles
  <2> HIDE DEF ready
  <2>3. CASE sWorker' = [sWorker EXCEPT ![w] =
               [sWorker[w] EXCEPT !.pc = "claim", !.gen = g,
                                  !.dim = sGen[g].dim, !.ready = ready]]
    BY <2>1, <2>3 DEF S!TypeOK
  <2>. QED BY <1>3, <2>2, <2>3 DEF ready
<1>. QED BY <1>1, <1>5, <1>6, NothingWritten DEF S!TypeOK

\* Steps of a worker that change the row of its generation, if it has one.
LEMMA RowStep ==
  ASSUME SemanticInv, NEW g, NEW r \in S!Generation,
         sGen' = [sGen EXCEPT ![g] = r]
  PROVE  sGen' \in [S!Gens -> S!Generation]
BY DEF SemanticInv, S!TypeOK

LEMMA ClaimStep ==
  ASSUME SemanticInv, NEW w \in Workers, S!Claim(w)
  PROVE  SemanticInv'
<1> USE DEF SemanticInv
<1> DEFINE g == sWorker[w].gen
<1>1. UNCHANGED <<sDesired, sVersion, sEmb, sEvents>>
  BY DEF S!Claim, S!KeepWorld
<1>2. \/ sGen' = sGen /\ sWorker' = [sWorker EXCEPT ![w] = S!Idle]
      \/ /\ sGen' = [sGen EXCEPT ![g].owner = w, ![g].expired = FALSE]
         /\ \E pc \in {"find", "validate"} : S!GoTo(w, pc)
  BY DEF S!Claim
<1> HIDE DEF g
<1>3. CASE sGen' = sGen /\ sWorker' = [sWorker EXCEPT ![w] = S!Idle]
  BY <1>1, <1>3, IterationIdles, NothingWritten DEF S!TypeOK
<1>4. CASE /\ sGen' = [sGen EXCEPT ![g].owner = w, ![g].expired = FALSE]
           /\ \E pc \in {"find", "validate"} : S!GoTo(w, pc)
  <2>1. sWorker' \in [Workers -> S!Iteration]
    BY <1>4, WorkerGoes
  <2>2. sGen' \in [S!Gens -> S!Generation]
    <3>1. CASE g \in S!Gens
      <4>1. sGen[g] \in S!Generation
        BY <3>1 DEF S!TypeOK
      <4>2. [sGen[g] EXCEPT !.owner = w, !.expired = FALSE] \in S!Generation
        BY <4>1 DEF S!Generation
      <4>3. sGen' = [sGen EXCEPT ![g] =
                       [sGen[g] EXCEPT !.owner = w, !.expired = FALSE]]
        BY <1>4, <3>1 DEF S!TypeOK
      <4>. QED BY <4>2, <4>3, RowStep
    <3>2. CASE g \notin S!Gens
      BY <1>4, <3>2 DEF S!TypeOK
    <3>. QED BY <3>1, <3>2
  <2>. QED BY <1>1, <2>1, <2>2, NothingWritten DEF S!TypeOK
<1>. QED BY <1>2, <1>3, <1>4

LEMMA BackfillingStep ==
  ASSUME SemanticInv, NEW w \in Workers,
         NEW next \in {"find", "release", "activate"},
         S!SetBackfilling(w, next)
  PROVE  SemanticInv'
<1> USE DEF SemanticInv
<1> DEFINE g == sWorker[w].gen
<1>1. /\ UNCHANGED <<sDesired, sVersion, sEmb, sEvents>>
      /\ S!GoTo(w, "degrade") \/ S!GoTo(w, next)
      /\ \/ sGen' = sGen
         \/ sGen' = [sGen EXCEPT ![g].status = "backfilling",
                                 ![g].dim = TRUE, ![g].due = FALSE]
  BY DEF S!SetBackfilling, S!KeepWorld
<1> HIDE DEF g
<1>2. sWorker' \in [Workers -> S!Iteration]
  BY <1>1, WorkerGoes
<1>3. sGen' \in [S!Gens -> S!Generation]
  <2>1. CASE g \in S!Gens
    <3>1. sGen[g] \in S!Generation
      BY <2>1 DEF S!TypeOK
    <3>2. [sGen[g] EXCEPT !.status = "backfilling", !.dim = TRUE,
                          !.due = FALSE] \in S!Generation
      BY <3>1 DEF S!Generation
    <3>3. \/ sGen' = sGen
          \/ sGen' = [sGen EXCEPT ![g] =
               [sGen[g] EXCEPT !.status = "backfilling", !.dim = TRUE,
                               !.due = FALSE]]
      BY <1>1, <2>1 DEF S!TypeOK
    <3>. QED BY <3>2, <3>3, RowStep DEF S!TypeOK
  <2>2. CASE g \notin S!Gens
    BY <1>1, <2>2 DEF S!TypeOK
  <2>. QED BY <2>1, <2>2
<1>. QED BY <1>1, <1>2, <1>3, NothingWritten DEF S!TypeOK

LEMMA FindStep ==
  ASSUME SemanticInv, NEW w \in Workers, S!Find(w)
  PROVE  SemanticInv'
<1> USE DEF SemanticInv
<1> DEFINE missing == S!Missing(sWorker[w].gen)
<1>1. /\ UNCHANGED <<sDesired, sVersion, sGen, sEmb, sEvents>>
      /\ \/ S!GoTo(w, "confirm")
         \/ \E d \in missing :
              sWorker' = [sWorker EXCEPT ![w].pc = "embed", ![w].doc = d,
                                         ![w].of = sVersion[d]]
  BY DEF S!Find, S!KeepWorld
<1>2. missing \subseteq Indexed
  BY DEF S!Missing
<1> HIDE DEF missing
<1>3. sWorker' \in [Workers -> S!Iteration]
  <2>1. CASE S!GoTo(w, "confirm")
    BY <2>1, WorkerGoes
  <2>2. ASSUME NEW d \in Indexed,
               sWorker' = [sWorker EXCEPT ![w].pc = "embed", ![w].doc = d,
                                          ![w].of = sVersion[d]]
        PROVE  sWorker' \in [Workers -> S!Iteration]
    <3>1. sWorker[w] \in S!Iteration /\ sVersion[d] \in 0 .. MaxVersion
      BY DEF S!TypeOK
    <3>2. [sWorker[w] EXCEPT !.pc = "embed", !.doc = d, !.of = sVersion[d]]
            \in S!Iteration
      BY <3>1 DEF S!Iteration
    <3>3. sWorker' = [sWorker EXCEPT ![w] =
            [sWorker[w] EXCEPT !.pc = "embed", !.doc = d, !.of = sVersion[d]]]
      BY <2>2 DEF S!TypeOK
    <3>. QED BY <3>2, <3>3 DEF S!TypeOK
  <2>. QED BY <1>1, <1>2, <2>1, <2>2
<1>. QED BY <1>1, <1>3, NothingWritten DEF S!TypeOK

\* The one step that writes: it labels the vectors with the index it read.
LEMMA WriteStep ==
  ASSUME SemanticInv, NEW w \in Workers, S!Write(w)
  PROVE  SemanticInv'
<1> USE DEF SemanticInv
<1> DEFINE g == sWorker[w].gen
           d == sWorker[w].doc
           of == sWorker[w].of
           e == [index |-> of, of |-> of]
<1>1. /\ UNCHANGED <<sDesired, sVersion, sGen, sEvents>>
      /\ S!GoTo(w, "count")
      /\ sEmb' = [sEmb EXCEPT ![g][d] = e]
  BY DEF S!Write, S!KeepWorld
<1>2. e \in S!Embedding /\ e.index = e.of
  <2>1. sWorker[w] \in S!Iteration
    BY DEF S!TypeOK
  <2>. QED BY <2>1 DEF S!Iteration, S!Embedding
<1> HIDE DEF g, d, e
<1>3. sWorker' \in [Workers -> S!Iteration]
  BY <1>1, WorkerGoes
<1>4. sEmb' \in [S!Gens -> [Indexed -> S!Embedding]]
  BY <1>1, <1>2 DEF S!TypeOK
<1>5. ASSUME NEW h \in S!Gens, NEW x \in Indexed
      PROVE  sEmb'[h][x] = sEmb[h][x] \/ sEmb'[h][x] = e
  BY <1>1 DEF S!TypeOK
<1>6. S!VectorsOfTheirIndex'
  BY <1>2, <1>5 DEF S!VectorsOfTheirIndex
<1>7. S!TypeOK'
  BY <1>1, <1>3, <1>4 DEF S!TypeOK
<1>. QED BY <1>6, <1>7

LEMMA ActivateStep ==
  ASSUME SemanticInv, NEW w \in Workers, S!Activate(w)
  PROVE  SemanticInv'
<1> USE DEF SemanticInv
<1>1. /\ UNCHANGED <<sDesired, sVersion, sEmb, sEvents>>
      /\ S!GoTo(w, "degrade") \/ S!GoTo(w, "release")
  BY DEF S!Activate, S!KeepWorld
<1>2. sWorker' \in [Workers -> S!Iteration]
  BY <1>1, WorkerGoes
<1>3. ASSUME NEW h \in S!Gens
      PROVE  /\ sGen[h] \in S!Generation
             /\ [sGen[h] EXCEPT !.active = TRUE, !.status = "ready",
                                !.due = FALSE] \in S!Generation
             /\ [sGen[h] EXCEPT !.active = FALSE, !.status = "retired"]
                  \in S!Generation
  <2>1. sGen[h] \in S!Generation
    BY DEF S!TypeOK
  <2>. QED BY <2>1 DEF S!Generation
<1>4. sGen' \in [S!Gens -> S!Generation]
  <2>1. \/ sGen' = sGen
        \/ sGen' = [h \in S!Gens |->
             IF h = sWorker[w].gen
               THEN [sGen[h] EXCEPT !.active = TRUE, !.status = "ready",
                                    !.due = FALSE]
             ELSE IF sGen[h].active
               THEN [sGen[h] EXCEPT !.active = FALSE, !.status = "retired"]
             ELSE sGen[h]]
    BY DEF S!Activate
  <2>. QED BY <1>3, <2>1 DEF S!TypeOK
<1>. QED BY <1>1, <1>2, <1>4, NothingWritten DEF S!TypeOK

LEMMA DegradeStep ==
  ASSUME SemanticInv, NEW w \in Workers, S!Degrade(w)
  PROVE  SemanticInv'
<1> USE DEF SemanticInv
<1> DEFINE g == sWorker[w].gen
<1>1. /\ UNCHANGED <<sDesired, sVersion, sEmb, sEvents>>
      /\ S!GoTo(w, "release")
      /\ \/ sGen' = sGen
         \/ sGen' = [sGen EXCEPT ![g].status = "degraded", ![g].due = FALSE]
  BY DEF S!Degrade, S!KeepWorld
<1> HIDE DEF g
<1>2. sWorker' \in [Workers -> S!Iteration]
  BY <1>1, WorkerGoes
<1>3. sGen' \in [S!Gens -> S!Generation]
  <2>1. CASE g \in S!Gens
    <3>1. sGen[g] \in S!Generation
      BY <2>1 DEF S!TypeOK
    <3>2. [sGen[g] EXCEPT !.status = "degraded", !.due = FALSE]
            \in S!Generation
      BY <3>1 DEF S!Generation
    <3>3. \/ sGen' = sGen
          \/ sGen' = [sGen EXCEPT ![g] =
               [sGen[g] EXCEPT !.status = "degraded", !.due = FALSE]]
      BY <1>1, <2>1 DEF S!TypeOK
    <3>. QED BY <3>2, <3>3, RowStep DEF S!TypeOK
  <2>2. CASE g \notin S!Gens
    BY <1>1, <2>2 DEF S!TypeOK
  <2>. QED BY <2>1, <2>2
<1>. QED BY <1>1, <1>2, <1>3, NothingWritten DEF S!TypeOK

\* An iteration ends: its lease is released, or left by a killed worker.
LEMMA LeaseStep ==
  ASSUME SemanticInv, NEW w \in Workers, S!Release(w) \/ S!Killed(w)
  PROVE  SemanticInv'
<1> USE SemanticBounds DEF SemanticInv
<1>1. /\ UNCHANGED <<sDesired, sVersion, sEmb>>
      /\ sWorker' = [sWorker EXCEPT ![w] = S!Idle]
      /\ sEvents' \in 0 .. Disturbances
  BY DEF S!Release, S!Killed, S!KeepWorld, S!TypeOK
<1>2. sWorker' \in [Workers -> S!Iteration]
  BY <1>1, IterationIdles
<1>3. ASSUME NEW h \in S!Gens
      PROVE  /\ sGen[h] \in S!Generation
             /\ [sGen[h] EXCEPT !.owner = NoWorker, !.expired = FALSE]
                  \in S!Generation
             /\ [sGen[h] EXCEPT !.owner = Lost] \in S!Generation
  <2>1. sGen[h] \in S!Generation
    BY DEF S!TypeOK
  <2>. QED BY <2>1 DEF S!Generation
<1>4. sGen' \in [S!Gens -> S!Generation]
  <2>1. CASE S!Killed(w)
    <3>1. sGen' = [h \in S!Gens |-> IF sGen[h].owner = w
                     THEN [sGen[h] EXCEPT !.owner = Lost] ELSE sGen[h]]
      BY <2>1 DEF S!Killed
    <3>. QED BY <1>3, <3>1
  <2>2. CASE S!Release(w)
    <3> DEFINE g == sWorker[w].gen
    <3>1. \/ sGen' = sGen
          \/ sGen' = [sGen EXCEPT ![g].owner = NoWorker,
                                  ![g].expired = FALSE]
      BY <2>2 DEF S!Release
    <3> HIDE DEF g
    <3>2. CASE g \in S!Gens
      <4>1. \/ sGen' = sGen
            \/ sGen' = [sGen EXCEPT ![g] =
                 [sGen[g] EXCEPT !.owner = NoWorker, !.expired = FALSE]]
        BY <3>1, <3>2 DEF S!TypeOK
      <4>. QED BY <1>3, <3>2, <4>1, RowStep DEF S!TypeOK
    <3>3. CASE g \notin S!Gens
      BY <3>1, <3>3 DEF S!TypeOK
    <3>. QED BY <3>2, <3>3
  <2>. QED BY <2>1, <2>2
<1>. QED BY <1>1, <1>2, <1>4, NothingWritten DEF S!TypeOK

\* The steps that change no more than where an iteration stands.
LEMMA IterationStep ==
  ASSUME SemanticInv, NEW w \in Workers,
         S!Begin(w) \/ S!CheckCurrent(w) \/ S!Confirm(w) \/ S!Fails(w)
  PROVE  SemanticInv'
<1> USE SemanticBounds DEF SemanticInv
<1>1. UNCHANGED <<sDesired, sVersion, sGen, sEmb>>
  BY DEF S!Begin, S!CheckCurrent, S!Confirm, S!Fails, S!KeepWorld
<1>2. sEvents' \in 0 .. Disturbances
  BY DEF S!Begin, S!CheckCurrent, S!Confirm, S!Fails, S!TypeOK
<1>3. sWorker' \in [Workers -> S!Iteration]
  <2>1. CASE S!Begin(w)
    <3>1. S!Idle \in S!Iteration
      BY DEF S!Idle, S!Iteration
    <3>2. sDesired \in Models \cup {NoModel}
      BY DEF S!TypeOK
    <3>3. [S!Idle EXCEPT !.pc = "lookup", !.config = sDesired]
            \in S!Iteration
      BY <3>1, <3>2 DEF S!Iteration
    <3>. QED BY <2>1, <3>3 DEF S!Begin, S!TypeOK
  <2>2. CASE S!CheckCurrent(w)
    BY <2>2, WorkerGoes DEF S!CheckCurrent
  <2>3. CASE S!Confirm(w)
    BY <2>3, WorkerGoes DEF S!Confirm
  <2>4. CASE S!Fails(w)
    BY <2>4, WorkerGoes DEF S!Fails
  <2>. QED BY <2>1, <2>2, <2>3, <2>4
<1>. QED BY <1>1, <1>2, <1>3, NothingWritten DEF S!TypeOK

LEMMA SemanticSteps ==
  ASSUME SemanticInv, [S!Next]_semantic
  PROVE  SemanticInv'
<1>1. ASSUME NEW w \in Workers, S!Step(w) \/ S!Fails(w) \/ S!Killed(w)
      PROVE  SemanticInv'
  <2>1. CASE S!Validate(w) \/ S!Count(w) \/ S!CountAll(w)
    BY <2>1, BackfillingStep DEF S!Validate, S!Count, S!CountAll
  <2>2. CASE S!Begin(w) \/ S!CheckCurrent(w) \/ S!Confirm(w) \/ S!Fails(w)
    BY <2>2, IterationStep
  <2>3. CASE S!Lookup(w) \/ S!Claim(w) \/ S!Find(w) \/ S!Write(w)
    BY <2>3, LookupStep, ClaimStep, FindStep, WriteStep
  <2>4. CASE S!Activate(w) \/ S!Degrade(w) \/ S!Release(w) \/ S!Killed(w)
    BY <2>4, ActivateStep, DegradeStep, LeaseStep
  <2>. QED BY <1>1, <2>1, <2>2, <2>3, <2>4 DEF S!Step
<1>2. CASE UNCHANGED semantic
  BY <1>2 DEF semantic, SemanticInv, S!TypeOK, S!VectorsOfTheirIndex
<1>. QED BY <1>1, <1>2, ShadowStep DEF S!Next

SemanticHolds == part = "semantic" => SemanticInv

\* The types of the semantic index and its labels, in every reachable state:
\* no transaction of advance_semantic_backfill breaks them.
THEOREM SemanticInvariant == Spec => []SemanticHolds
<1>1. Init => SemanticHolds
  BY SemanticStarts DEF Init, SemanticHolds
<1>2. SemanticHolds /\ [Next]_vars => SemanticHolds'
  <2> SUFFICES ASSUME SemanticInv, part = "semantic", [Next]_vars
               PROVE  SemanticInv'
    BY PartsRun DEF SemanticHolds
  <2>. QED BY SemanticSteps, PartsRun
<1>. QED BY <1>1, <1>2, PTL DEF Spec

\* What _persist_document_profiles stores for a document index was computed
\* from the text of that index, whatever is published during the calls of the
\* embedding model.
THEOREM VectorsMatchTheirIndex == Spec => []VectorsOfTheirIndex
<1>1. SemanticHolds => VectorsOfTheirIndex
  BY DEF SemanticHolds, SemanticInv, VectorsOfTheirIndex
<1>. QED BY <1>1, SemanticInvariant, PTL
=============================================================================
