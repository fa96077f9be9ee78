------------------------------- MODULE ApiKeys -------------------------------
(***************************************************************************)
(* API keys: the store and its audit trail (repos/api-key-store), the      *)
(* administrator's page (components/api-key-manager) and its routes        *)
(* (api/admin/api-keys).  What a key may be used for is in AgentAccess.    *)
(*                                                                         *)
(* The page may have several calls under way; an answer may be lost and    *)
(* the page reloaded while the server still works on them.                 *)
(***************************************************************************)
EXTENDS Naturals

CONSTANTS
    Keys,       \* rows of api_keys (bound)
    Calls,      \* calls of the page under way at once (bound)
    NoKey

VARIABLES
    keys,       \* state of each key
    audit,      \* api_key.create and api_key.revoke events of each key
    page,       \* what the page shows
    call        \* the calls of the page

keyVars == <<keys, audit, page, call>>

Listed == {"absent", "live", "revoked"}

(***************************************************************************)
(* page   shown: the list; secret: the key just created; submitting and    *)
(*        revoking: what disables the buttons                              *)
(* call   stage: sent, stored (201 or 200), refused, or listed (the list   *)
(*        read after a revocation); gone: nobody waits for the answer      *)
(***************************************************************************)
Page == [shown : [Keys -> Listed], secret : Keys \cup {NoKey},
         submitting : BOOLEAN, revoking : Keys \cup {NoKey}]
Call == [op : {"none", "create", "revoke"}, key : Keys \cup {NoKey},
         stage : {"sent", "stored", "refused", "listed"}, gone : BOOLEAN,
         list : [Keys -> Listed]]

Empty == [k \in Keys |-> "absent"]
NoCall == [op |-> "none", key |-> NoKey, stage |-> "sent", gone |-> FALSE,
           list |-> Empty]

KeyTypeOK ==
    /\ keys \in [Keys -> Listed]
    /\ audit \in [Keys -> [created : Nat, revoked : Nat]]
    /\ page \in Page /\ call \in [Calls -> Call]

KeyInit ==
    /\ keys = Empty
    /\ audit = [k \in Keys |-> [created |-> 0, revoked |-> 0]]
    /\ page = [shown |-> Empty, secret |-> NoKey, submitting |-> FALSE,
               revoking |-> NoKey]
    /\ call = [c \in Calls |-> NoCall]

-----------------------------------------------------------------------------
(* The page *)

KeepKeyStore == UNCHANGED <<keys, audit>>

SubmitCreate(c) ==
    /\ call[c].op = "none" /\ ~page.submitting
    /\ call' = [call EXCEPT ![c].op = "create"]
    /\ page' = [page EXCEPT !.submitting = TRUE]
    /\ KeepKeyStore

\* The button of a key is disabled once it is revoked or its revocation is
\* the last one begun.
SubmitRevoke(c, k) ==
    /\ call[c].op = "none"
    /\ page.shown[k] = "live" /\ page.revoking # k
    /\ call' = [call EXCEPT ![c].op = "revoke", ![c].key = k]
    /\ page' = [page EXCEPT !.revoking = k]
    /\ KeepKeyStore

\* finally: of createKey and revokeKey
Settled(c) ==
    IF call[c].op = "create" THEN [page EXCEPT !.submitting = FALSE]
                             ELSE [page EXCEPT !.revoking = NoKey]

WaitsFor(c, op, stage) ==
    call[c].op = op /\ call[c].stage = stage /\ ~call[c].gone

\* Mutation: the key is shown before its creation has been answered for.
CreatedUnchecked(c) ==
    /\ call[c].op = "create" /\ ~call[c].gone
    /\ \E k \in Keys :
         page' = [Settled(c) EXCEPT !.shown[k] = "live", !.secret = k]
    /\ call' = [call EXCEPT ![c] = NoCall]
    /\ KeepKeyStore

\* The created key heads the list and its secret is shown.
Created(c) ==
    /\ WaitsFor(c, "create", "stored")
    /\ page' = [Settled(c) EXCEPT !.shown[call[c].key] = "live",
                                  !.secret = call[c].key]
    /\ call' = [call EXCEPT ![c] = NoCall]
    /\ KeepKeyStore

\* refreshKeys: the list the server read, which may be older than the page's.
RefreshKeys(c) ==
    /\ WaitsFor(c, "revoke", "listed")
    /\ page' = [Settled(c) EXCEPT !.shown = call[c].list]
    /\ call' = [call EXCEPT ![c] = NoCall]
    /\ KeepKeyStore

\* A refusal, or an answer that does not arrive: the server goes on.
Failed(c) ==
    /\ call[c].op # "none" /\ ~call[c].gone
    /\ page' = Settled(c)
    /\ call' = [call EXCEPT ![c] = IF @.stage = "sent"
                                     THEN [@ EXCEPT !.gone = TRUE] ELSE NoCall]
    /\ KeepKeyStore

Reload ==
    /\ page' = [shown |-> keys, secret |-> NoKey, submitting |-> FALSE,
                revoking |-> NoKey]
    /\ call' = [c \in Calls |-> IF call[c].op # "none" /\ call[c].stage = "sent"
                                  THEN [call[c] EXCEPT !.gone = TRUE]
                                  ELSE NoCall]
    /\ KeepKeyStore

CloseSecret ==
    /\ page.secret # NoKey /\ page' = [page EXCEPT !.secret = NoKey]
    /\ UNCHANGED call /\ KeepKeyStore

-----------------------------------------------------------------------------
(* The store *)

\* The answer of the server: nobody may wait for it.
AnswerCall(c, k, stage) ==
    call' = [call EXCEPT ![c] = IF @.gone THEN NoCall
                                ELSE [@ EXCEPT !.key = k, !.stage = stage]]

Sent(c, op) == call[c].op = op /\ call[c].stage = "sent"

\* createApiKey: the row and its audit event in one transaction.
CreateApiKey(c) ==
    /\ Sent(c, "create")
    /\ \E k \in Keys :
         /\ keys[k] = "absent"
         /\ keys' = [keys EXCEPT ![k] = "live"]
         /\ audit' = [audit EXCEPT ![k].created = @ + 1]
         /\ AnswerCall(c, k, "stored")
    /\ UNCHANGED page

\* revokeApiKey: a key that is not live is not found.
RevokeApiKey(c) ==
    /\ Sent(c, "revoke") /\ keys[call[c].key] = "live"
    /\ LET k == call[c].key
       IN /\ keys' = [keys EXCEPT ![k] = "revoked"]
          /\ audit' = [audit EXCEPT ![k].revoked = @ + 1]
          /\ AnswerCall(c, k, "stored")
    /\ UNCHANGED page

\* No session, an invalid payload, a key not found, a transaction rolled back.
RefuseChange(c) ==
    /\ call[c].op # "none" /\ call[c].stage = "sent"
    /\ AnswerCall(c, call[c].key, "refused")
    /\ UNCHANGED <<keys, audit, page>>

ListApiKeys(c) ==
    /\ WaitsFor(c, "revoke", "stored")
    /\ call' = [call EXCEPT ![c].stage = "listed", ![c].list = keys]
    /\ UNCHANGED <<keys, audit, page>>

KeyNext ==
    \/ \E c \in Calls :
         \/ SubmitCreate(c) \/ Created(c) \/ RefreshKeys(c) \/ Failed(c)
         \/ CreateApiKey(c) \/ RevokeApiKey(c) \/ RefuseChange(c)
         \/ ListApiKeys(c)
         \/ \E k \in Keys : SubmitRevoke(c, k)
    \/ Reload \/ CloseSecret

KeySpec == KeyInit /\ [][KeyNext]_keyVars

-----------------------------------------------------------------------------
(* Properties *)

\* Whatever order the answers arrive in, the page shows no key the store does
\* not have, none as revoked that still works, and no secret of a key that was
\* not stored.
PageTellsStore ==
    /\ \A k \in Keys :
         /\ page.shown[k] # "absent" => keys[k] # "absent"
         /\ page.shown[k] = "revoked" => keys[k] = "revoked"
    /\ page.secret # NoKey => keys[page.secret] # "absent"
=============================================================================
