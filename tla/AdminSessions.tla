----------------------------- MODULE AdminSessions -----------------------------
(***************************************************************************)
(* The administrator's password and sessions (repos/admin-auth-store),     *)
(* the routes that use them (api/admin/auth, security/admin-route-auth)    *)
(* and the two forms that call the routes.                                 *)
(*                                                                         *)
(* The web server runs the statements between two awaits without another   *)
(* handler of its own in between; the command that resets the password     *)
(* and the clock are not bound by that: "busy" is the browser whose        *)
(* request is between two statements.  Passwords are numbered in the order *)
(* they come into force, 0 before the first.                               *)
(***************************************************************************)
EXTENDS Naturals

CONSTANTS
    Browsers,
    Sessions,       \* rows of admin_sessions (bound)
    MaxPassword,    \* passwords that come into force (bound)
    Nobody

VARIABLES
    password,   \* admin_credentials
    session,    \* admin_sessions
    cookie,     \* the session cookie of each browser
    call,       \* the request a browser has under way
    busy        \* the browser whose request is being handled, or Nobody

vars == <<password, session, cookie, call, busy>>

(***************************************************************************)
(* op      login, logout or the change of the password                     *)
(* stage   sent; authorized, its body awaited; verified against the stored *)
(*         password; or answered                                           *)
(* with    the session cookie the request carries                          *)
(* typed   the password in the form, 0 for a wrong one                     *)
(* ok      the answer                                                      *)
(***************************************************************************)
Call == [op : {"none", "login", "logout", "change"},
         stage : {"sent", "authorized", "verified", "answered"},
         with : Sessions \cup {Nobody}, typed : 0 .. MaxPassword,
         ok : BOOLEAN]

NoCall == [op |-> "none", stage |-> "sent", with |-> Nobody, typed |-> 0,
           ok |-> FALSE]

TypeOK ==
    /\ password \in 0 .. MaxPassword
    /\ session \in [Sessions -> [state : {"none", "open", "revoked", "expired"},
                                 opened : 0 .. MaxPassword]]
    /\ cookie \in [Browsers -> Sessions \cup {Nobody}]
    /\ call \in [Browsers -> Call]
    /\ busy \in Browsers \cup {Nobody}

Init ==
    /\ password = 0
    /\ session = [s \in Sessions |-> [state |-> "none", opened |-> 0]]
    /\ cookie = [b \in Browsers |-> Nobody]
    /\ call = [b \in Browsers |-> NoCall]
    /\ busy = Nobody

Open(s) == s # Nobody /\ session[s].state = "open"

Revoked(ss) ==
    [s \in Sessions |-> IF ss[s].state = "open"
                          THEN [ss[s] EXCEPT !.state = "revoked"] ELSE ss[s]]

-----------------------------------------------------------------------------
(* The command line and the clock *)

\* The first start of the deployment.
Bootstrap ==
    /\ password = 0 /\ password' = 1
    /\ UNCHANGED <<session, cookie, call, busy>>

\* Mutation: the reset leaves the sessions open.
ResetKeepingSessions ==
    /\ password < MaxPassword
    /\ password' = password + 1
    /\ UNCHANGED <<session, cookie, call, busy>>

\* The command that resets the password, in one transaction.
Reset ==
    /\ password < MaxPassword
    /\ password' = password + 1
    /\ session' = Revoked(session)
    /\ UNCHANGED <<cookie, call, busy>>

Expire(s) ==
    /\ Open(s)
    /\ session' = [session EXCEPT ![s].state = "expired"]
    /\ UNCHANGED <<password, cookie, call, busy>>

-----------------------------------------------------------------------------
(* The pages *)

Send(b, op, typed) ==
    /\ call[b].op = "none"
    /\ call' = [call EXCEPT ![b] = [NoCall EXCEPT !.op = op, !.typed = typed,
                                                  !.with = cookie[b]]]
    /\ UNCHANGED <<password, session, cookie, busy>>

\* The login page sends a browser with an open session on to the sources.
SubmitLogin(b) ==
    /\ ~Open(cookie[b])
    /\ \E typed \in 0 .. password : Send(b, "login", typed)

\* The settings page is not shown without an open session.
SubmitChange(b) ==
    /\ Open(cookie[b])
    /\ \E typed \in 0 .. password : Send(b, "change", typed)

SubmitLogout(b) == cookie[b] # Nobody /\ Send(b, "logout", 0)

\* The answer of a login sets the cookie, that of a logout or a change clears
\* it; an answer that is lost or refuses leaves it.
Receive(b) ==
    /\ call[b].op # "none" /\ call[b].stage = "answered"
    /\ \E s \in IF ~call[b].ok THEN {cookie[b]}
                ELSE IF call[b].op = "login" THEN {call[b].with, cookie[b]}
                ELSE {Nobody, cookie[b]} :
         cookie' = [cookie EXCEPT ![b] = s]
    /\ call' = [call EXCEPT ![b] = NoCall]
    /\ UNCHANGED <<password, session, busy>>

-----------------------------------------------------------------------------
(* The routes *)

Idle == busy = Nobody
At(b, op, stage) == call[b].op = op /\ call[b].stage = stage

Answer(b, ok) ==
    [call EXCEPT ![b].stage = "answered", ![b].ok = ok]

\* authorizeAdminRequest, or for a login isAdminConfigured, before the body is
\* awaited.
Authorize(b) ==
    /\ Idle /\ call[b].op \in {"login", "change"} /\ call[b].stage = "sent"
    /\ LET may == IF call[b].op = "login" THEN password > 0
                                          ELSE Open(call[b].with)
       IN call' = IF may THEN [call EXCEPT ![b].stage = "authorized"]
                         ELSE Answer(b, FALSE)
    /\ UNCHANGED <<password, session, cookie, busy>>

\* The body is invalid, or the new password is the current one.
Invalid(b) ==
    /\ Idle /\ call[b].op \in {"login", "change"}
    /\ call[b].stage = "authorized"
    /\ call' = Answer(b, FALSE)
    /\ UNCHANGED <<password, session, cookie, busy>>

\* verifyPassword against the row read just before.
Verify(b) ==
    /\ Idle /\ call[b].op \in {"login", "change"}
    /\ call[b].stage = "authorized"
    /\ IF call[b].typed = password
         THEN /\ call' = [call EXCEPT ![b].stage = "verified"]
              /\ busy' = b
         ELSE call' = Answer(b, FALSE) /\ UNCHANGED busy
    /\ UNCHANGED <<password, session, cookie>>

\* createAdminSession: opened is the password the login was checked against.
OpenSession(b) ==
    /\ busy = b /\ At(b, "login", "verified")
    /\ \E s \in Sessions :
         /\ session[s].state = "none"
         /\ session' = [session EXCEPT ![s] =
                          [state |-> "open", opened |-> call[b].typed]]
         /\ call' = [Answer(b, TRUE) EXCEPT ![b].with = s]
    /\ busy' = Nobody
    /\ UNCHANGED <<password, cookie>>

\* The transaction of replaceAdminPassword.
Replace(b) ==
    /\ busy = b /\ At(b, "change", "verified")
    /\ password < MaxPassword
    /\ password' = password + 1
    /\ session' = Revoked(session)
    /\ call' = Answer(b, TRUE)
    /\ busy' = Nobody
    /\ UNCHANGED cookie

\* The database is locked for longer than busy_timeout, or the rows of the
\* model are used up.
StoreFails(b) ==
    /\ busy = b
    /\ call' = Answer(b, FALSE)
    /\ busy' = Nobody
    /\ UNCHANGED <<password, session, cookie>>

\* The route has no await.
Logout(b) ==
    /\ Idle /\ At(b, "logout", "sent")
    /\ LET s == call[b].with
       IN /\ call' = Answer(b, Open(s))
          /\ session' = IF Open(s)
                          THEN [session EXCEPT ![s].state = "revoked"]
                          ELSE session
    /\ UNCHANGED <<password, cookie, busy>>

Next ==
    \/ Bootstrap \/ Reset
    \/ \E s \in Sessions : Expire(s)
    \/ \E b \in Browsers :
         \/ SubmitLogin(b) \/ SubmitChange(b) \/ SubmitLogout(b) \/ Receive(b)
         \/ Authorize(b) \/ Invalid(b) \/ Verify(b)
         \/ OpenSession(b) \/ Replace(b) \/ StoreFails(b) \/ Logout(b)

Spec == Init /\ [][Next]_vars

-----------------------------------------------------------------------------
(* Properties; OutdatedOnlyByOvertakenLogin is of every step. *)

\* Open sessions of a password that is no longer in force.
Outdated == {s \in Sessions : Open(s) /\ session[s].opened # password}

\* A change or a reset of the password ends every session opened before, on
\* every browser and whatever requests are under way; only a login whose
\* password was compared before a reset and stored after it opens a session of
\* the earlier password.
OutdatedOnlyByOvertakenLogin ==
    Outdated' \subseteq Outdated \/ \E b \in Browsers : OpenSession(b)
=============================================================================
