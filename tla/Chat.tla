-------------------------------- MODULE Chat --------------------------------
(***************************************************************************)
(* Chat turns: the composer of a browser tab (components/chat-composer),   *)
(* the send route of the web server (api/chat/send) and the conversations  *)
(* it stores (repos/conversation-store).                                   *)
(*                                                                         *)
(* A tab sends one message at a time.  The route stores the question,      *)
(* asks the retrieval API and stores the answer; a tab may leave, the      *)
(* retrieval may fail, the database may be busy, the web server may stop.  *)
(* What the route does between two awaits is one action: it is the only    *)
(* writer of the conversation tables.                                      *)
(***************************************************************************)
EXTENDS Naturals, Sequences, SequencesExt, FiniteSets

CONSTANTS
    Turns,        \* messages sent (bound)
    Convs,        \* conversation rows (bound)
    NoConv

Message == Turns \X {"user", "assistant"}

ASSUME TurnsFinite == IsFiniteSet(Turns)
ASSUME NoConvAssumption == NoConv \notin Convs \cup Turns \cup Seq(Message)

VARIABLES
    conv,         \* stored messages of each conversation, or NoConv if no row
    scope,        \* the turn whose projects a conversation was last given
    title,        \* the turn a conversation is titled after
    turn,         \* composer and route of each turn
    up            \* the web server runs

chatVars == <<conv, scope, title, turn, up>>

(***************************************************************************)
(* ui       the composer: before sending, awaiting the new conversation,   *)
(*          awaiting the answer, reloaded with it, or showing an error     *)
(* route    the handler: asking the retrieval API, closing the stream,     *)
(*          ended                                                          *)
(* in       conversation of the turn                                       *)
(* streams  the response is a stream (composer) or one JSON answer (API)   *)
(* stored   assistantPersisted                                             *)
(* seen     the client has received the answer                             *)
(* left     the client has gone                                            *)
(* cancelled the stream has noticed: its retrieval is aborted              *)
(***************************************************************************)
Turn == [ui : {"idle", "create", "wait", "shown", "error"},
         route : {"none", "ask", "close", "end"},
         in : Convs \cup {NoConv}, streams : BOOLEAN,
         stored : BOOLEAN, seen : BOOLEAN, left : BOOLEAN,
         cancelled : BOOLEAN]

ChatTypeOK ==
    /\ conv \in [Convs -> Seq(Message) \cup {NoConv}]
    /\ scope \in [Convs -> Turns \cup {NoConv}]
    /\ title \in [Convs -> Turns \cup {NoConv}]
    /\ turn \in [Turns -> Turn]
    /\ up \in BOOLEAN

ChatInit ==
    /\ conv = [c \in Convs |-> NoConv]
    /\ scope = [c \in Convs |-> NoConv]
    /\ title = [c \in Convs |-> NoConv]
    /\ turn \in [Turns -> [ui : {"idle"}, route : {"none"}, in : {NoConv},
                           streams : BOOLEAN, stored : {FALSE},
                           seen : {FALSE}, left : {FALSE},
                           cancelled : {FALSE}]]
    /\ up = TRUE

-----------------------------------------------------------------------------
(* The composer *)

KeepConversations == UNCHANGED <<conv, scope, title, up>>

\* handleSend in a tab that shows no conversation: one is created first.
StartNew(t) ==
    /\ turn[t].ui = "idle"
    /\ turn' = [turn EXCEPT ![t].ui = "create"]
    /\ KeepConversations

\* handleSend in a tab that shows conversation c.
StartIn(t, c) ==
    /\ turn[t].ui = "idle" /\ conv[c] # NoConv
    /\ turn' = [turn EXCEPT ![t].ui = "wait", ![t].in = c]
    /\ KeepConversations

\* POST /api/conversations: a conversation with the projects of the tab.
CreateConversation(t, c) ==
    /\ up /\ turn[t].ui = "create" /\ conv[c] = NoConv
    /\ conv' = [conv EXCEPT ![c] = <<>>]
    /\ scope' = [scope EXCEPT ![c] = t]
    /\ turn' = [turn EXCEPT ![t].ui = "wait", ![t].in = c]
    /\ UNCHANGED <<title, up>>

\* The request fails, or the stream breaks before its end.
ShowError(t) ==
    /\ turn[t].ui \in {"create", "wait"}
    /\ ~up \/ turn[t].route = "none"
           \/ (turn[t].route = "end" /\ ~turn[t].seen)
    /\ turn' = [turn EXCEPT ![t].ui = "error", ![t].left = TRUE]
    /\ KeepConversations

\* The stream has ended: the tab goes to the conversation and reloads it.
ReloadConversation(t) ==
    /\ turn[t].ui = "wait" /\ turn[t].route = "end" /\ turn[t].seen
    /\ turn' = [turn EXCEPT ![t].ui = "shown"]
    /\ KeepConversations

\* The tab closes.
Leave(t) ==
    /\ turn[t].ui = "wait"
    /\ turn' = [turn EXCEPT ![t].left = TRUE, ![t].ui = "error"]
    /\ KeepConversations

-----------------------------------------------------------------------------
(* The send route *)

\* The question is stored before the retrieval is asked; it names a
\* conversation that has no name yet.
AcceptMessage(t) ==
    /\ up /\ turn[t].in # NoConv /\ turn[t].route = "none"
    /\ LET c == turn[t].in
       IN /\ conv' = [conv EXCEPT ![c] = Append(@, <<t, "user">>)]
          /\ scope' = [scope EXCEPT ![c] = t]
          /\ title' = [title EXCEPT ![c] = IF @ = NoConv THEN t ELSE @]
    /\ turn' = [turn EXCEPT ![t].route = "ask"]
    /\ UNCHANGED up

\* persistAssistantResponse
StoreAnswer(t) ==
    /\ conv' = [conv EXCEPT ![turn[t].in] = Append(@, <<t, "assistant">>)]
    /\ UNCHANGED <<scope, title, up>>

\* cancel() of the stream.
CancelStream(t) ==
    /\ up /\ turn[t].streams /\ turn[t].route \in {"ask", "close"}
    /\ turn[t].left /\ ~turn[t].cancelled
    /\ turn' = [turn EXCEPT ![t].cancelled = TRUE]
    /\ KeepConversations

\* Mutation: the answer is visible although it may not be stored.
StreamResultFirst(t) ==
    /\ up /\ turn[t].route = "ask"
    /\ turn[t].streams /\ ~turn[t].cancelled
    /\ KeepConversations
    /\ turn' = [turn EXCEPT ![t].route = "close", ![t].seen = ~turn[t].left]

\* Mutation: the cancellation is not looked at.
StreamResultAnyway(t) ==
    /\ up /\ turn[t].route = "ask" /\ turn[t].streams
    /\ StoreAnswer(t)
    /\ turn' = [turn EXCEPT ![t].route = "close", ![t].stored = TRUE,
                            ![t].seen = ~turn[t].left]

\* sendEvent of a result, from the retrieval API or the fallback: it is stored
\* and then made visible.
StreamResult(t) ==
    /\ up /\ turn[t].route = "ask"
    /\ turn[t].streams /\ ~turn[t].cancelled
    /\ StoreAnswer(t)
    /\ turn' = [turn EXCEPT ![t].route = "close", ![t].stored = TRUE,
                            ![t].seen = ~turn[t].left]

\* The retrieval of a cancelled stream answers or fails, or neither the result
\* nor its fallback can be stored: the stream ends without an answer.
StreamUnanswered(t) ==
    /\ up /\ turn[t].route = "ask" /\ turn[t].streams
    /\ turn' = [turn EXCEPT ![t].route = "end"]
    /\ KeepConversations

\* Mutation: the end of the stream stores the answer again.
CloseStreamAgain(t) ==
    /\ up /\ turn[t].route = "close"
    /\ IF turn[t].cancelled THEN KeepConversations ELSE StoreAnswer(t)
    /\ turn' = [turn EXCEPT ![t].route = "end"]

\* The reader of the retrieval is released; the result is stored unless it
\* is already, and the stream closes.  A cancelled stream returns before.
CloseStream(t) ==
    /\ up /\ turn[t].route = "close"
    /\ IF turn[t].stored \/ turn[t].cancelled
         THEN KeepConversations ELSE StoreAnswer(t)
    /\ turn' = [turn EXCEPT ![t].route = "end"]

\* Without a stream the answer is stored and returned at once, whether or not
\* the client still waits.
AnswerAtOnce(t) ==
    /\ up /\ turn[t].route = "ask" /\ ~turn[t].streams
    /\ StoreAnswer(t)
    /\ turn' = [turn EXCEPT ![t].route = "end", ![t].stored = TRUE,
                            ![t].seen = ~turn[t].left]

\* The answer cannot be stored: the request fails.
AnswerUnstored(t) ==
    /\ up /\ turn[t].route = "ask" /\ ~turn[t].streams
    /\ turn' = [turn EXCEPT ![t].route = "end"]
    /\ KeepConversations

\* The web server stops, between the statements of a handler at the worst:
\* an answer may be stored that nobody has seen.
WebStops ==
    /\ up /\ up' = FALSE
    /\ \E T \in SUBSET {t \in Turns : /\ turn[t].route = "ask"
                                     /\ ~turn[t].cancelled} :
         /\ Cardinality(T) <= 1
         /\ conv' = [c \in Convs |->
                IF \E t \in T : turn[t].in = c
                  THEN Append(conv[c], <<CHOOSE t \in T : TRUE, "assistant">>)
                  ELSE conv[c]]
    /\ turn' = [t \in Turns |-> IF turn[t].route = "none" THEN turn[t]
                                ELSE [turn[t] EXCEPT !.route = "end"]]
    /\ UNCHANGED <<scope, title>>

WebStarts == ~up /\ up' = TRUE /\ UNCHANGED <<conv, scope, title, turn>>

ChatNext ==
    \/ \E t \in Turns :
         \/ StartNew(t) \/ ShowError(t) \/ ReloadConversation(t) \/ Leave(t)
         \/ \E c \in Convs : StartIn(t, c) \/ CreateConversation(t, c)
         \/ AcceptMessage(t) \/ StreamResult(t) \/ StreamUnanswered(t)
         \/ CancelStream(t) \/ CloseStream(t)
         \/ AnswerAtOnce(t) \/ AnswerUnstored(t)
    \/ WebStops \/ WebStarts

ChatSpec == ChatInit /\ [][ChatNext]_chatVars

-----------------------------------------------------------------------------
(* Properties *)

Stored(t, role) ==
    \E c \in Convs : conv[c] # NoConv /\ Contains(conv[c], <<t, role>>)

\* An answer a client has seen is in the conversation it will reload, after
\* its question: the result is stored before it is sent.
SeenIsStored ==
    \A t \in Turns : turn[t].seen =>
        LET c == conv[turn[t].in]
        IN \E i, j \in DOMAIN c : /\ i < j /\ c[i] = <<t, "user">>
                                  /\ c[j] = <<t, "assistant">>

\* A turn has one question and at most one answer, whichever of the two
\* places that store it (the result event, the end of the stream) comes first
\* and however the web server restarts.
OneAnswer ==
    \A c \in Convs : conv[c] # NoConv => IsInjective(conv[c])

\* A stream its client has cancelled stores no answer any more.
AbandonedUnanswered ==
    [][\A t \in Turns : turn[t].cancelled =>
         (Stored(t, "assistant"))' = Stored(t, "assistant")]_chatVars
=============================================================================
