----------------------------- MODULE AgentAccess -----------------------------
(***************************************************************************)
(* Requests with an API key (lib/agent-auth and the routes of api/agent):  *)
(* what a key is granted, the await between the check of the key and the   *)
(* reads that use it, and the projects of the corpus that may be served    *)
(* (repos/project-store), which change meanwhile.                          *)
(***************************************************************************)
EXTENDS Naturals, FiniteSets

CONSTANTS Projects, Agents

VARIABLES
    granted,    \* project_ids_json of each agent's key: {} grants every one
    scopes,     \* scopes_json
    live,       \* the key is not revoked
    used,       \* last_used_at is set
    served,     \* activeProjectWhere: the projects that may be served now
    request     \* the request of each agent

agentVars == <<granted, scopes, live, used, served, request>>

Scopes == {"read:projects", "read:documents", "query"}

(***************************************************************************)
(* stage   the key is checked and the body or the parameters are awaited;  *)
(*         retrieval is asked; the request is answered or refused          *)
(* scope   the scope of the route; "verify" for the route without one      *)
(* ids     projects the request names, or that of the document it names    *)
(* asked   the projects retrieval is asked for: {} asks for every one      *)
(* told    the projects the answer has content of                          *)
(***************************************************************************)
AgentRequest ==
    [stage : {"idle", "authorized", "asked", "answered", "refused"},
     scope : Scopes \cup {"verify"}, ids : SUBSET Projects,
     asked : SUBSET Projects, told : SUBSET Projects]

NoRequest == [stage |-> "idle", scope |-> "verify", ids |-> {}, asked |-> {},
              told |-> {}]

AgentTypeOK ==
    /\ granted \in [Agents -> SUBSET Projects]
    /\ scopes \in [Agents -> SUBSET Scopes]
    /\ live \in [Agents -> BOOLEAN] /\ used \in [Agents -> BOOLEAN]
    /\ served \in SUBSET Projects
    /\ request \in [Agents -> AgentRequest]

AgentInit ==
    /\ granted \in [Agents -> SUBSET Projects]
    /\ scopes \in [Agents -> {Scopes, {"query"}}]
    /\ live = [a \in Agents |-> TRUE] /\ used = [a \in Agents |-> FALSE]
    /\ served = Projects
    /\ request = [a \in Agents |-> NoRequest]

-----------------------------------------------------------------------------
(* The administrator and the workers *)

Revoke(a) ==
    /\ live[a] /\ live' = [live EXCEPT ![a] = FALSE]
    /\ UNCHANGED <<granted, scopes, used, served, request>>

ServedChanges ==
    /\ served' \in SUBSET Projects /\ served' # served
    /\ UNCHANGED <<granted, scopes, live, used, request>>

-----------------------------------------------------------------------------
(* A request *)

KeepKeys == UNCHANGED <<granted, scopes, live, served>>

RequestBecomes(a, r) == request' = [request EXCEPT ![a] = r]

\* requireAgentAuth: an unknown or revoked key leaves no trace; a key is used
\* also by a request its scopes refuse, but not by the route that verifies it.
RequireAgentAuth(a, scope, ids) ==
    /\ request[a].stage = "idle"
    /\ LET may == live[a] /\ (scope = "verify" \/ scope \in scopes[a])
       IN RequestBecomes(a, [NoRequest EXCEPT
              !.stage = IF ~may THEN "refused"
                        ELSE IF scope = "verify" THEN "answered"
                        ELSE "authorized",
              !.scope = scope, !.ids = ids])
    /\ used' = [used EXCEPT ![a] = @ \/ (live[a] /\ scope # "verify")]
    /\ KeepKeys

CanAccess(a, ids) == granted[a] = {} \/ ids \subseteq granted[a]

\* Mutation: an empty list is passed on as it is.
RequestedIds(a, ids) == ids

\* constrainProjectIds of a request CanAccess holds for.
ConstrainProjectIds(a, ids) ==
    IF granted[a] # {} /\ ids = {} THEN granted[a] ELSE ids

\* A question or a search for evidence: every project it comes to must be
\* served now.
Ask(a) ==
    LET r == request[a]
        ids == ConstrainProjectIds(a, r.ids)
    IN /\ r.stage = "authorized" /\ r.scope = "query"
       /\ RequestBecomes(a,
            IF CanAccess(a, r.ids) /\ ids \subseteq served
              THEN [r EXCEPT !.stage = "asked", !.asked = ids]
              ELSE [r EXCEPT !.stage = "refused"])
       /\ UNCHANGED used /\ KeepKeys

\* The retrieval API answers from what is served when it searches, or fails.
Retrieve(a) ==
    LET r == request[a]
        sought == IF r.asked = {} THEN served ELSE r.asked \cap served
    IN /\ r.stage = "asked"
       /\ \E found \in SUBSET sought, stage \in {"answered", "refused"} :
            RequestBecomes(a, [r EXCEPT
                !.stage = stage,
                !.told = IF stage = "answered" THEN found ELSE {}])
       /\ UNCHANGED used /\ KeepKeys

\* A document, its structure or its pages, or the documents of a project: the
\* route reads what it needs without another await.
ReadDocuments(a) ==
    LET r == request[a]
    IN /\ r.stage = "authorized" /\ r.scope = "read:documents"
       /\ Cardinality(r.ids) = 1
       /\ RequestBecomes(a,
            IF CanAccess(a, r.ids) /\ r.ids \subseteq served
              THEN [r EXCEPT !.stage = "answered", !.told = r.ids]
              ELSE [r EXCEPT !.stage = "refused"])
       /\ UNCHANGED used /\ KeepKeys

\* The projects an agent may ask about.
ListProjects(a) ==
    LET r == request[a]
    IN /\ r.stage = "authorized" /\ r.scope = "read:projects"
       /\ RequestBecomes(a, [r EXCEPT !.stage = "answered",
              !.told = {p \in served : CanAccess(a, {p})}])
       /\ UNCHANGED used /\ KeepKeys

\* The payload is invalid, the document unknown or without an index, the store
\* fails.
RefuseAgent(a) ==
    /\ request[a].stage = "authorized"
    /\ RequestBecomes(a, [request[a] EXCEPT !.stage = "refused"])
    /\ UNCHANGED used /\ KeepKeys

Done(a) ==
    /\ request[a].stage \in {"answered", "refused"}
    /\ RequestBecomes(a, NoRequest)
    /\ UNCHANGED used /\ KeepKeys

AgentNext ==
    \/ ServedChanges
    \/ \E a \in Agents :
         \/ Revoke(a) \/ Ask(a) \/ Retrieve(a) \/ ReadDocuments(a)
         \/ ListProjects(a) \/ RefuseAgent(a) \/ Done(a)
         \/ \E scope \in Scopes \cup {"verify"}, ids \in SUBSET Projects :
              RequireAgentAuth(a, scope, ids)

AgentSpec == AgentInit /\ [][AgentNext]_agentVars

-----------------------------------------------------------------------------
(* Properties *)

\* An agent is told only of projects its key grants, whatever it names and
\* however the corpus changes between its check and the search: above all a
\* key granted some projects never asks retrieval with the empty list, which
\* retrieval takes for every project.
ToldWithinGrant ==
    \A a \in Agents : granted[a] # {} => request[a].told \subseteq granted[a]
=============================================================================
