----------------------------- MODULE McpGateway -----------------------------
(***************************************************************************)
(* The MCP HTTP gateway (web/mcp-server.mjs): requests of many clients,    *)
(* their authentication by the ReasonKB service, the sessions they open    *)
(* and the tools they call.                                                *)
(*                                                                         *)
(* The gateway is one thread.  An action is what one handler or callback   *)
(* does between two awaits.  A request that is answered where it arrives   *)
(* (a batch, a busy service, an unknown session) keeps nothing; the others *)
(* wait for the authentication service, then for the transport of the MCP  *)
(* SDK and for the tool.  The counters of running authentications, control *)
(* requests and tools are derived from the requests: the code decrements   *)
(* each in the `finally` of the handler that incremented it.  The SDK      *)
(* transport is external: a call's response stays open until the tool      *)
(* answers, the call is cancelled, or the transport closes.                *)
(***************************************************************************)
EXTENDS Naturals, FiniteSets

CONSTANTS
    Reqs,          \* request contexts the gateway holds at a time (bound)
    Slots,         \* session entries that exist at a time (bound)
    Ids,           \* JSON-RPC ids a client uses
    None,          \* no session, no id
    Modes,         \* the session modes to start in
    MaxAuth,       \* maxConcurrentAuthRequests
    MaxControl,    \* maxConcurrentControlRequests
    MaxTools,      \* maxConcurrentRequests
    MaxSessions    \* maxSessions

\* The limits are positive integers, or the gateway does not start.
ASSUME GatewayConfig ==
    /\ Modes \subseteq {"stateful", "stateless"}
    /\ {MaxAuth, MaxControl, MaxTools, MaxSessions} \subseteq Nat \ {0}
    /\ None \notin Slots \cup Ids \cup Reqs

ASSUME SlotsFinite == IsFiniteSet(Slots)

VARIABLES
    mode,          \* sessionMode, "stateful" or "stateless"
    shuttingDown,  \* closeMcpSessions has been called
    sess,          \* session entry: "none", "pending" or "open"
    expired,       \* entries whose expiresAt has passed
    req            \* the request contexts, with their pendingRequests entry

mcpVars == <<mode, shuttingDown, sess, expired, req>>

(***************************************************************************)
(* pc    where the handler of the request is                               *)
(* s,id  the session entry and the JSON-RPC id it was found under          *)
(* pend  pendingRequests maps id to this request                           *)
(* disp  the transport of the session holds its response stream            *)
(* att   attachSession counted it in inFlight                              *)
(* abort the abort signal of its context                                   *)
(* tool  "running", or "aborted" once its signal fired                     *)
(* hit   for a cancellation, the dispatched request it matched             *)
(* res   "open" while the client waits, then "done", or "gone"             *)
(***************************************************************************)
Kinds == {"none", "init", "call", "notify", "cancel", "delete", "stateless"}

Request ==
    [kind : Kinds,
     pc   : {"idle", "body", "auth", "handshake", "run", "cancel", "end"},
     s    : Slots \cup {None}, id : Ids \cup {None}, hit : Reqs \cup {None},
     pend : BOOLEAN, disp : BOOLEAN, att : BOOLEAN, abort : BOOLEAN,
     tool : {"none", "running", "aborted"},
     res  : {"none", "open", "done", "gone"}]

Idle == [kind |-> "none", pc |-> "idle", s |-> None, id |-> None,
         hit |-> None, pend |-> FALSE, disp |-> FALSE, att |-> FALSE,
         abort |-> FALSE, tool |-> "none", res |-> "none"]

\* Every variable holds a value of its type: the gateway's tables only hold
\* entries and contexts of the shapes createReasonkbMcpHttpApp builds.
McpTypeOK ==
    /\ mode \in Modes
    /\ shuttingDown \in BOOLEAN
    /\ sess \in [Slots -> {"none", "pending", "open"}]
    /\ expired \subseteq Slots
    /\ req \in [Reqs -> Request]

McpInit ==
    /\ mode \in Modes
    /\ shuttingDown = FALSE
    /\ sess = [s \in Slots |-> "none"]
    /\ expired = {}
    /\ req = [r \in Reqs |-> Idle]

-----------------------------------------------------------------------------
(* The counters and the tables of the gateway *)

Authenticating == {r \in Reqs : req[r].pc = "auth"}

Controls == {r \in Reqs : /\ req[r].kind \in {"notify", "cancel"}
                          /\ req[r].pc \in {"auth", "run", "cancel"}}

Tools == {r \in Reqs : req[r].tool # "none"}

Open == {s \in Slots : sess[s] = "open"}

InFlight(s) == {r \in Reqs : req[r].att /\ req[r].s = s}

Pending(s, id) == {r \in Reqs : req[r].pend /\ req[r].s = s /\ req[r].id = id}

Stop(tool) == IF tool = "running" THEN "aborted" ELSE tool

Answered(q) == [q EXCEPT !.res = IF @ = "open" THEN "done" ELSE @]

\* abortPendingRequests and the close of the transport, for the entries in S:
\* requests not yet dispatched are answered and aborted, those the transport
\* holds lose their stream, and the tools of all of them are aborted.
Closed(S, rq) ==
    [r \in Reqs |->
        LET q == rq[r] IN
        IF q.s \in S /\ (q.pend \/ q.disp)
          THEN [Answered(q) EXCEPT !.pend = FALSE, !.abort = @ \/ q.pend,
                                   !.tool = Stop(@)]
          ELSE q]

\* The contexts whose response ends in a step to rq: their "finish" or "close"
\* listener runs finishRequestContext.
Finishing(rq) == {r \in Reqs : req[r].res = "open" /\ rq[r].res # "open"}

\* detachSession: a call or an initialization refreshes the expiry of its
\* entry.
Refreshed(rq) ==
    {rq[r].s : r \in {p \in Finishing(rq) :
                        rq[p].att /\ rq[p].kind \in {"call", "init"}}}

\* armSessionIdleTimer: an expired entry closes when its last request leaves.
Lapsed(rq) ==
    {s \in (Open \cap expired) \ Refreshed(rq) :
        /\ \E r \in Finishing(rq) : rq[r].att /\ rq[r].s = s
        /\ \A r \in Reqs : rq[r].att /\ rq[r].s = s => r \in Finishing(rq)}

\* Mutation: closed entries stay in the table.
BecomesKept(rq0, S) ==
    /\ sess' = [s \in Slots |-> IF s \in S THEN "closed" ELSE sess[s]]
    /\ expired' = expired \ S
    /\ req' = Closed(S, rq0)

\* A step after which the requests are rq and the entries in S are closed.
Becomes(rq0, S) ==
    LET rq == Closed(S, rq0)
        shut == S \cup Lapsed(rq)
        rq2 == Closed(shut, rq)
    IN /\ sess' = [s \in Slots |-> IF s \in shut THEN "none" ELSE sess[s]]
       /\ expired' = expired \ (shut \cup Refreshed(rq))
       /\ req' = [r \in Reqs |-> IF r \in Finishing(rq2)
                                   THEN [rq2[r] EXCEPT !.att = FALSE]
                                   ELSE rq2[r]]

Keep == UNCHANGED <<mode, shuttingDown>>

KeepSessions == UNCHANGED <<mode, shuttingDown, sess, expired>>

-----------------------------------------------------------------------------
(* A request arrives, is read, and is answered at once or authenticated *)

\* The bearer token is present: the context and its deadline exist, the body
\* is being read and holds no slot.
Arrive(r) ==
    /\ req[r] = Idle
    /\ req' = [req EXCEPT ![r].pc = "body", ![r].res = "open"]
    /\ KeepSessions

\* Answered where it is: a batch, a malformed body, no session or one of
\* another key, a duplicate id, a busy service, a gateway shutting down.
Refuse(r) ==
    /\ req[r].pc = "body" /\ req[r].res = "open"
    /\ Becomes([req EXCEPT ![r] = [Answered(@) EXCEPT !.pc = "end"]], {})
    /\ Keep

\* The body has arrived and the gateway takes the request up.
Handled(r) ==
    /\ req[r].pc = "body" /\ req[r].res = "open"
    /\ ~shuttingDown

CanAuthenticate == Cardinality(Authenticating) < MaxAuth

HandleStateless(r) ==
    /\ Handled(r) /\ mode = "stateless"
    /\ CanAuthenticate
    /\ req' = [req EXCEPT ![r].kind = "stateless", ![r].pc = "auth"]
    /\ KeepSessions

HandleInit(r) ==
    /\ Handled(r) /\ mode = "stateful"
    /\ CanAuthenticate
    /\ req' = [req EXCEPT ![r].kind = "init", ![r].pc = "auth"]
    /\ KeepSessions

\* A JSON-RPC request of an open session: its id must not be active.
HandleCall(r, s, id) ==
    /\ Handled(r) /\ s \in Open
    /\ Pending(s, id) = {}
    /\ CanAuthenticate
    /\ req' = [req EXCEPT ![r].kind = "call", ![r].pc = "auth",
                          ![r].s = s, ![r].id = id, ![r].pend = TRUE]
    /\ KeepSessions

\* The "initialized" notification: a control request that authenticates.
HandleNotify(r, s) ==
    /\ Handled(r) /\ s \in Open
    /\ Cardinality(Controls) < MaxControl
    /\ CanAuthenticate
    /\ req' = [req EXCEPT ![r].kind = "notify", ![r].pc = "auth", ![r].s = s]
    /\ KeepSessions

HandleDelete(r, s) ==
    /\ Handled(r) /\ s \in Open
    /\ CanAuthenticate
    /\ req' = [req EXCEPT ![r].kind = "delete", ![r].pc = "auth", ![r].s = s]
    /\ KeepSessions

\* A cancellation does not authenticate.  A pending request under the id that
\* is not dispatched leaves the table and is answered; a dispatched one is
\* remembered.
HandleCancel(r, s, id) ==
    /\ Handled(r) /\ s \in Open
    /\ Cardinality(Controls) < MaxControl
    /\ LET early == {p \in Pending(s, id) : ~req[p].disp}
           late == Pending(s, id) \ early
       IN \E h \in IF late = {} THEN {None} ELSE late :
            Becomes([p \in Reqs |->
                CASE p = r -> [req[p] EXCEPT !.kind = "cancel",
                                 !.pc = "cancel", !.s = s, !.id = id,
                                 !.att = TRUE, !.hit = h]
                  [] p # r /\ p \in early -> [Answered(req[p]) EXCEPT
                                       !.pend = FALSE, !.abort = TRUE]
                  [] OTHER -> req[p]], {})
    /\ Keep

\* Mutation: the stream ends, the tool goes on.
FinishCancelStream(r) ==
    /\ req[r].pc = "cancel"
    /\ LET hit(p) == /\ req[r].hit # None /\ req[p].disp
                     /\ req[p].s = req[r].s /\ req[p].id = req[r].id
       IN Becomes([p \in Reqs |->
            CASE p = r -> [Answered(req[p]) EXCEPT !.pc = "end"]
              [] p # r /\ hit(p) -> Answered(req[p])
              [] OTHER -> req[p]], {})
    /\ Keep

\* After the transport took the notification: the matched request is aborted,
\* and the tool and the stream now under its id are ended.
FinishCancel(r) ==
    /\ req[r].pc = "cancel"
    /\ LET hit(p) == /\ req[r].hit # None /\ req[p].disp
                     /\ req[p].s = req[r].s /\ req[p].id = req[r].id
       IN Becomes([p \in Reqs |->
            CASE p = r -> [Answered(req[p]) EXCEPT !.pc = "end"]
              [] p # r /\ hit(p) ->
                   [Answered(req[p]) EXCEPT !.tool = Stop(@),
                      !.abort = @ \/ p = req[r].hit]
              [] OTHER -> req[p]], {})
    /\ Keep

-----------------------------------------------------------------------------
(* The answer of the authentication service *)

\* The key is good and the request is still wanted.
Authenticated(r) ==
    /\ req[r].pc = "auth"
    /\ ~req[r].abort /\ req[r].res = "open"

\* The entry was closed while the service was asked: 404.
AuthLate(r) ==
    /\ Authenticated(r)
    /\ req[r].kind \in {"notify", "delete"}
    /\ req[r].s \notin Open
    /\ Becomes([req EXCEPT ![r] = [Answered(@) EXCEPT !.pc = "end"]], {})
    /\ Keep

\* executeTool: the tool runs, unless the tools are busy or one still runs
\* under the id; the transport then answers with the error.
Ran(q) ==
    LET busy == \/ Cardinality(Tools) >= MaxTools
                \/ \E p \in Tools : /\ q.s # None /\ req[p].s = q.s
                                    /\ req[p].id = q.id
        taken == [q EXCEPT !.pc = "run", !.att = TRUE, !.disp = TRUE]
    IN IF busy THEN Answered(taken) ELSE [taken EXCEPT !.tool = "running"]

\* The call is attached to its session and dispatched to the transport.
DispatchCall(r) ==
    /\ Authenticated(r) /\ req[r].kind = "call"
    /\ req[r].pend /\ req[r].s \in Open
    /\ Becomes([req EXCEPT ![r] = Ran(req[r])], {})
    /\ Keep

\* Stateless mode: an entry of its own, closed when the response ends.
DispatchStateless(r) ==
    /\ Authenticated(r) /\ req[r].kind = "stateless"
    /\ Becomes([req EXCEPT ![r] = Ran(req[r])], {})
    /\ Keep

DispatchNotify(r) ==
    /\ Authenticated(r) /\ req[r].kind = "notify"
    /\ req[r].s \in Open
    /\ Becomes([req EXCEPT ![r].pc = "run", ![r].att = TRUE], {})
    /\ Keep

\* DELETE closes the transport, whose onclose cleans the entry up.
DispatchDelete(r) ==
    /\ Authenticated(r) /\ req[r].kind = "delete"
    /\ req[r].s \in Open
    /\ Becomes([req EXCEPT ![r].pc = "run", ![r].att = TRUE], {req[r].s})
    /\ Keep

\* Expired entries nobody uses make room; then either there is capacity, and
\* an entry is pending until the transport has initialized it, or not (503).
Idling == {s \in Open \cap expired : InFlight(s) = {}}

\* Mutation: entries being initialized do not count.
TakenOpen == Open \ Idling

Taken == {s \in Slots : sess[s] # "none"} \ Idling

StartSession(r) ==
    /\ Authenticated(r) /\ req[r].kind = "init"
    /\ Cardinality(Taken) < MaxSessions
    /\ \E s \in Slots :
         /\ sess[s] = "none" /\ \A p \in Reqs : req[p].s # s
         /\ LET rq == Closed(Idling, [req EXCEPT ![r].pc = "handshake",
                                                ![r].s = s])
           IN /\ sess' = [t \in Slots |-> IF t = s THEN "pending"
                                          ELSE IF t \in Idling THEN "none"
                                          ELSE sess[t]]
              /\ expired' = expired \ Idling
              /\ req' = rq
    /\ Keep

RefuseSession(r) ==
    /\ Authenticated(r) /\ req[r].kind = "init"
    /\ Cardinality(Taken) >= MaxSessions
    /\ Becomes([req EXCEPT ![r] = [Answered(@) EXCEPT !.pc = "end"]], Idling)
    /\ Keep

\* Mutation: the shutdown is not looked at again.
SessionInitializedLate(r) ==
    /\ req[r].pc = "handshake"
    /\ IF sess[req[r].s] = "none"
         THEN Becomes([req EXCEPT ![r] = [Answered(@) EXCEPT !.pc = "run"]],
                      {req[r].s})
         ELSE /\ sess' = [sess EXCEPT ![req[r].s] = "open"]
              /\ req' = [req EXCEPT ![r].pc = "run", ![r].att = TRUE,
                                    ![r].disp = TRUE]
              /\ UNCHANGED expired
    /\ Keep

\* onsessioninitialized: the entry is open and attached to the request, unless
\* the gateway closed it or is shutting down.
SessionInitialized(r) ==
    /\ req[r].pc = "handshake"
    /\ IF sess[req[r].s] = "none" \/ shuttingDown
         THEN Becomes([req EXCEPT ![r] = [Answered(@) EXCEPT !.pc = "run"]],
                      {req[r].s})
         ELSE /\ sess' = [sess EXCEPT ![req[r].s] = "open"]
              /\ req' = [req EXCEPT ![r].pc = "run", ![r].att = TRUE,
                                    ![r].disp = TRUE]
              /\ UNCHANGED expired
    /\ Keep

\* The transport refuses the initialization: the entry has no session id.
SessionRefused(r) ==
    /\ req[r].pc = "handshake"
    /\ Becomes([req EXCEPT ![r] = [Answered(@) EXCEPT !.pc = "end"]],
               {req[r].s})
    /\ Keep

\* The service refuses the key (401), which also closes the session of the
\* request, or it cannot be asked (502).
AuthDenied(r) ==
    /\ Authenticated(r)
    /\ \E S \in {{}, {req[r].s} \cap Open} :
         Becomes([req EXCEPT ![r] = [Answered(@) EXCEPT !.pc = "end",
                                                      !.pend = FALSE]], S)
    /\ Keep

\* The fetch of an aborted request rejects: nobody is left to answer.
AuthAborted(r) ==
    /\ req[r].pc = "auth" /\ req[r].abort
    /\ Becomes([req EXCEPT ![r].pc = "end", ![r].pend = FALSE], {})
    /\ Keep

-----------------------------------------------------------------------------
(* Tools, answers, deadlines, clients that leave *)

\* The tool answers, fails, is stopped by its abort or its own timeout; the
\* transport sends what came of it and ends the stream.
ToolSettles(r) ==
    /\ req[r].tool # "none"
    /\ Becomes([req EXCEPT ![r] = [Answered(@) EXCEPT !.tool = "none"]], {})
    /\ Keep

\* The transport answers a notification, a deletion, an initialization.
Respond(r) ==
    /\ req[r].pc = "run" /\ req[r].res = "open"
    /\ req[r].kind \in {"notify", "delete", "init"}
    /\ Becomes([req EXCEPT ![r] = Answered(@)], {})
    /\ Keep

\* handleRequest returns once the response has ended; the handler's finally.
Return(r) ==
    /\ req[r].pc = "run" /\ req[r].res # "open"
    /\ Becomes([req EXCEPT ![r] = [@ EXCEPT !.pc = "end", !.pend = FALSE,
                                            !.disp = FALSE]], {})
    /\ Keep

\* Mutation: the deadline starts with the authentication.
DeadlineOfKey(r) ==
    /\ req[r].pc = "auth" /\ req[r].res = "open"
    /\ Becomes([req EXCEPT ![r] = [Answered(@) EXCEPT !.abort = TRUE]], {})
    /\ Keep

\* A handler that waits for the body stops, one that waits for the key goes on.
Left(r) == IF req[r].pc = "body" THEN "end" ELSE req[r].pc

\* The pre-authentication deadline: 504, and the context is aborted.
Deadline(r) ==
    /\ req[r].pc \in {"body", "auth"} /\ req[r].res = "open"
    /\ Becomes([req EXCEPT ![r] = [Answered(@) EXCEPT !.abort = TRUE,
                                                     !.pc = Left(r)]], {})
    /\ Keep

\* The client leaves.  Its context is aborted, and with it the fetch of its
\* key or of its tool.  In the handshake only settled promises are awaited.
Disconnect(r) ==
    /\ req[r].pc \in {"body", "auth", "run", "cancel"}
    /\ req[r].res = "open"
    /\ Becomes([req EXCEPT ![r] = [@ EXCEPT !.res = "gone", !.abort = TRUE,
                    !.tool = Stop(req[r].tool), !.pc = Left(r)]], {})
    /\ Keep

\* The context is garbage: the client may send another request.
Forget(r) ==
    /\ req[r].pc = "end" /\ req[r].tool = "none" /\ ~req[r].att
    /\ req' = [req EXCEPT ![r] = Idle]
    /\ KeepSessions

-----------------------------------------------------------------------------
(* Sessions expire, the gateway shuts down *)

TimePasses(s) ==
    /\ s \in Open \ expired
    /\ expired' = expired \cup {s}
    /\ UNCHANGED <<mode, shuttingDown, sess, req>>

IdleTimer(s) ==
    /\ s \in Idling
    /\ Becomes(req, {s})
    /\ Keep

\* closeMcpSessions: sessions, pending entries and stateless entries close.
Shutdown ==
    /\ ~shuttingDown
    /\ shuttingDown' = TRUE
    /\ Becomes([r \in Reqs |->
            IF req[r].kind = "stateless" /\ req[r].disp
              THEN [Answered(req[r]) EXCEPT !.tool = Stop(@)]
              ELSE req[r]],
               {s \in Slots : sess[s] # "none"})
    /\ UNCHANGED mode

-----------------------------------------------------------------------------
Handle(r) ==
    \/ Refuse(r)
    \/ HandleStateless(r)
    \/ HandleInit(r)
    \/ \E s \in Slots : HandleNotify(r, s) \/ HandleDelete(r, s)
    \/ \E s \in Slots, id \in Ids : HandleCall(r, s, id)
                                    \/ HandleCancel(r, s, id)

AuthAnswers(r) ==
    \/ AuthLate(r) \/ DispatchCall(r) \/ DispatchStateless(r)
    \/ DispatchNotify(r) \/ DispatchDelete(r)
    \/ StartSession(r) \/ RefuseSession(r)
    \/ AuthDenied(r)

\* What the gateway's own thread and timers are bound to run.
Progress(r) ==
    \/ FinishCancel(r) \/ AuthAborted(r)
    \/ SessionInitialized(r) \/ SessionRefused(r)
    \/ ToolSettles(r) \/ Respond(r) \/ Return(r)

McpNext ==
    \/ \E r \in Reqs :
         \/ Arrive(r) \/ Handle(r) \/ AuthAnswers(r)
         \/ Progress(r) \/ Deadline(r) \/ Disconnect(r) \/ Forget(r)
    \/ \E s \in Slots : TimePasses(s) \/ IdleTimer(s)
    \/ Shutdown

McpSpec == McpInit /\ [][McpNext]_mcpVars

\* Callbacks run, timers fire: the deadline bounds the wait for the body and
\* for the authentication service, the tool timeout that for the tool.
McpFairness ==
    \A r \in Reqs : WF_mcpVars(Progress(r)) /\ WF_mcpVars(Deadline(r))

-----------------------------------------------------------------------------
(* Properties *)

\* Sessions that are open and sessions still being initialized never exceed
\* maxSessions, however the initializations overlap (the check before
\* initializeSession, the entries of pendingSessions).
SessionCapacity == Cardinality({s \in Slots : sess[s] # "none"}) <= MaxSessions

\* A session only counts requests whose response is still open: one that
\* counted a request forever would never expire (attachSession, and the
\* "finish" and "close" listeners that detach).
NoPinnedSession == \A r \in Reqs : req[r].att => req[r].res = "open"

\* A tool whose client has got its answer or has left is aborted: by the
\* disconnect, a cancellation, a deletion, a refused key, an expiry or the
\* shutdown, whichever it was.
NoOrphanTool ==
    \A r \in Reqs : req[r].tool = "running" => req[r].res = "open"

\* However a response ends, and under whatever id its request is confused with
\* another, the count of its session and its tool go with it.
NothingOutlivesItsResponse == NoPinnedSession /\ NoOrphanTool

\* No session survives closeMcpSessions, also one whose initialization was on
\* its way when the gateway began to shut down.
NoSessionAfterShutdown == shuttingDown => Open = {}

\* Every request is answered or its client leaves: the body, the key, the tool
\* and a request with the same id can delay the answer, none prevents it.
Waits(r) == req[r].res = "open"

AlwaysAnswered == \A r \in Reqs : Waits(r) ~> ~Waits(r)
=============================================================================
