---------------------------- MODULE ServiceProofs ----------------------------
(***************************************************************************)
(* What clients and readers are promised: conversations, the page of API   *)
(* keys and the grants of agents, and the MCP gateway, for every number of *)
(* turns, keys, calls, requests, entries and ids and every limit.          *)
(***************************************************************************)
EXTENDS McpGateway, Chat, ApiKeys, AgentAccess, FiniteSetTheorems, TLAPS

-----------------------------------------------------------------------------
(*****************************************************************************)
(* Conversations.  A conversation holds a question and at most one answer of *)
(* each turn, what a client has seen is stored, and a cancelled stream       *)
(* stores nothing any more.                                                  *)
(*****************************************************************************)

Question(t) == <<t, "user">>
Answer(t) == <<t, "assistant">>

Holds(c, m) == conv[c] # NoConv /\ \E i \in DOMAIN conv[c] : conv[c][i] = m

\* The answer of a turn stands behind its question.
Ordered(t) ==
  LET c == conv[turn[t].in]
  IN \E i, j \in DOMAIN c : i < j /\ c[i] = Question(t) /\ c[j] = Answer(t)

(***************************************************************************)
(* What a turn has to do with the rows of its conversation: the question   *)
(* is there once the route has the message, the answer once it was seen.   *)
(***************************************************************************)
TurnInv(t) ==
  /\ turn[t].ui \in {"idle", "create"} => turn[t].in = NoConv
  /\ turn[t].in # NoConv => conv[turn[t].in] # NoConv
  /\ turn[t].route # "none" =>
       turn[t].in # NoConv /\ Holds(turn[t].in, Question(t))
  /\ turn[t].route = "close" => turn[t].stored
  /\ turn[t].cancelled => turn[t].streams
  /\ turn[t].seen => turn[t].route # "none" /\ Ordered(t)

\* What a stored message says of its turn: no answer before the route is
\* through with it.
MessageInv ==
  \A c \in Convs, t \in Turns :
    /\ Holds(c, Question(t)) => turn[t].in = c /\ turn[t].route # "none"
    /\ Holds(c, Answer(t)) =>
         turn[t].in = c /\ turn[t].route \in {"close", "end"}

ChatInv ==
  /\ ChatTypeOK
  /\ \A t \in Turns : TurnInv(t)
  /\ MessageInv
  /\ OneAnswer

-----------------------------------------------------------------------------
(* Conversations only grow.                                                *)
Grows ==
  \A c \in Convs : conv[c] # NoConv =>
    /\ conv'[c] # NoConv
    /\ DOMAIN conv[c] \subseteq DOMAIN conv'[c]
    /\ \A i \in DOMAIN conv[c] : conv'[c][i] = conv[c][i]

\* A conversation row is a sequence of messages or missing.
LEMMA RowsAreSequences ==
  ASSUME ChatTypeOK, NEW c \in Convs
  PROVE  /\ conv[c] # NoConv <=> conv[c] \in Seq(Message)
         /\ conv[c] # NoConv => DOMAIN conv[c] = 1 .. Len(conv[c])
  BY NoConvAssumption DEF ChatTypeOK

\* What appending a message does to the conversations.
LEMMA AppendMessage ==
  ASSUME ChatTypeOK, NEW c \in Convs, conv[c] # NoConv, NEW m \in Message,
         conv' = [conv EXCEPT ![c] = Append(@, m)]
  PROVE  /\ conv' \in [Convs -> Seq(Message) \cup {NoConv}]
         /\ Grows
         /\ \A b \in Convs : \A n :
              Holds(b, n)' <=> Holds(b, n) \/ (b = c /\ n = m)
         /\ \E j \in DOMAIN conv'[c] :
              conv'[c][j] = m /\ \A i \in DOMAIN conv[c] : i < j
         /\ OneAnswer /\ ~Holds(c, m) => OneAnswer'
<1> DEFINE s == conv[c]
<1>1. s \in Seq(Message) /\ DOMAIN s = 1 .. Len(s) /\ Len(s) \in Nat
  BY RowsAreSequences
<1>2. conv' = [conv EXCEPT ![c] = Append(s, m)]
  OBVIOUS
<1>3. conv'[c] = Append(s, m) /\ \A b \in Convs \ {c} : conv'[b] = conv[b]
  BY <1>2 DEF ChatTypeOK
<1>4. /\ Append(s, m) \in Seq(Message)
      /\ DOMAIN Append(s, m) = 1 .. Len(s) + 1
      /\ \A i \in 1 .. Len(s) : Append(s, m)[i] = s[i]
      /\ Append(s, m)[Len(s) + 1] = m
  BY <1>1
<1> HIDE DEF s
<1>5. Append(s, m) # NoConv
  BY <1>4, NoConvAssumption
<1>6. conv' \in [Convs -> Seq(Message) \cup {NoConv}]
  BY <1>2, <1>4 DEF ChatTypeOK
<1>7. Grows
  BY <1>1, <1>3, <1>4, <1>5 DEF Grows, s
<1>8. ASSUME NEW b \in Convs, NEW n
      PROVE  Holds(b, n)' <=> Holds(b, n) \/ (b = c /\ n = m)
  <2>1. CASE b # c
    BY <1>3, <2>1 DEF Holds
  <2>2. CASE b = c
    <3>1. Holds(c, n)' <=> \E i \in 1 .. Len(s) + 1 : Append(s, m)[i] = n
      BY <1>3, <1>4, <1>5 DEF Holds
    <3>2. Holds(c, n) <=> \E i \in 1 .. Len(s) : s[i] = n
      BY <1>1 DEF Holds, s
    <3>. QED BY <1>1, <1>4, <2>2, <3>1, <3>2
  <2>. QED BY <2>1, <2>2
<1>9. \E j \in DOMAIN conv'[c] :
        conv'[c][j] = m /\ \A i \in DOMAIN conv[c] : i < j
  <2>1. \A i \in 1 .. Len(s) : i < Len(s) + 1
    BY <1>1
  <2>2. Len(s) + 1 \in 1 .. Len(s) + 1
    BY <1>1
  <2>. QED BY <1>1, <1>3, <1>4, <2>1, <2>2 DEF s
<1>10. ASSUME OneAnswer, ~Holds(c, m)
       PROVE  OneAnswer'
  <2> SUFFICES ASSUME NEW b \in Convs, conv'[b] # NoConv
               PROVE  IsInjective(conv'[b])
    BY DEF OneAnswer
  <2>1. CASE b # c
    BY <1>3, <1>10, <2>1 DEF OneAnswer
  <2>2. CASE b = c
    <3>1. \A i \in 1 .. Len(s) : s[i] # m
      BY <1>1, <1>10 DEF Holds, s
    <3>2. \A i, j \in 1 .. Len(s) : s[i] = s[j] => i = j
      BY <1>1, <1>10 DEF OneAnswer, IsInjective, s
    <3>3. ASSUME NEW i \in 1 .. Len(s) + 1, NEW j \in 1 .. Len(s) + 1,
                 Append(s, m)[i] = Append(s, m)[j]
          PROVE  i = j
      BY <1>1, <1>4, <3>1, <3>2, <3>3
    <3>. QED BY SMTT(30), <1>3, <1>4, <2>2, <3>3 DEF IsInjective
  <2>. QED BY <2>1, <2>2
<1>. QED BY <1>6, <1>7, <1>8, <1>9, <1>10

-----------------------------------------------------------------------------
(* A turn keeps its conversation once the route has the message, and the   *)
(* route does not go back.                                                 *)
Onward(t) ==
  /\ turn[t].route # "none" =>
       turn'[t].in = turn[t].in /\ turn'[t].route # "none"
  /\ turn[t].route \in {"close", "end"} => turn'[t].route \in {"close", "end"}

\* How a turn moves in a step in which it stores no message: it may get a
\* conversation, and its route may end.
Moves(t) ==
  LET r == turn[t]
      v == turn'[t]
  IN /\ v.ui \in {"idle", "create"} => v.in = NoConv
     /\ \/ v.in = r.in
        \/ r.in = NoConv /\ v.in \in Convs /\ conv'[v.in] # NoConv
     /\ v.route = r.route \/ (r.route # "none" /\ v.route = "end")
     /\ v.stored = r.stored /\ v.seen = r.seen
     /\ v.cancelled => v.streams

\* A turn that so moves keeps its invariant while conversations grow.
LEMMA TurnMoves ==
  ASSUME ChatTypeOK, Grows, NEW t \in Turns, TurnInv(t), Moves(t)
  PROVE  TurnInv(t)' /\ Onward(t)
<1>1. turn[t].in \in Convs \cup {NoConv}
  BY DEF ChatTypeOK, Turn
<1>2. ASSUME NEW c \in Convs, NEW m, Holds(c, m)
      PROVE  Holds(c, m)'
  BY <1>2 DEF Grows, Holds
<1>3. turn[t].route # "none" => /\ turn'[t].in = turn[t].in
                                /\ turn[t].in \in Convs
                                /\ conv[turn[t].in] # NoConv
  BY <1>1 DEF TurnInv, Moves
<1>4. turn[t].seen => Ordered(t)'
  BY <1>3 DEF Grows, Ordered, TurnInv
<1>5. Onward(t)
  BY <1>3 DEF Onward, Moves
<1>6. turn'[t].in # NoConv => conv'[turn'[t].in] # NoConv
  BY <1>1 DEF TurnInv, Grows, Moves
<1>. QED BY <1>1, <1>2, <1>3, <1>4, <1>5, <1>6 DEF TurnInv, Moves

\* A turn that is not touched keeps its invariant while conversations grow.
LEMMA TurnKept ==
  ASSUME ChatTypeOK, Grows, NEW t \in Turns, TurnInv(t), turn'[t] = turn[t]
  PROVE  TurnInv(t)' /\ Onward(t)
  BY TurnMoves DEF Moves, TurnInv

\* Messages of turns that go onward keep their invariant, if every new one
\* agrees with its turn.
LEMMA MessagesKept ==
  ASSUME MessageInv, \A t \in Turns : Onward(t),
         \A c \in Convs, t \in Turns :
           /\ Holds(c, Question(t))' /\ ~Holds(c, Question(t)) =>
                turn'[t].in = c /\ turn'[t].route # "none"
           /\ Holds(c, Answer(t))' /\ ~Holds(c, Answer(t)) =>
                turn'[t].in = c /\ turn'[t].route \in {"close", "end"}
  PROVE  MessageInv'
<1> SUFFICES ASSUME NEW c \in Convs, NEW t \in Turns
             PROVE  /\ Holds(c, Question(t))' =>
                         turn'[t].in = c /\ turn'[t].route # "none"
                    /\ Holds(c, Answer(t))' =>
                         turn'[t].in = c /\ turn'[t].route \in {"close", "end"}
  BY DEF MessageInv, Question, Answer
<1>. QED BY DEF MessageInv, Onward

\* A step of turn t that stores no message.
LEMMA QuietStep ==
  ASSUME ChatInv, NEW t \in Turns, NEW v, turn' = [turn EXCEPT ![t] = v],
         Moves(t), Grows, OneAnswer',
         \A c \in Convs : \A m : Holds(c, m)' <=> Holds(c, m)
  PROVE  (\A u \in Turns : TurnInv(u))' /\ MessageInv' /\ OneAnswer'
<1>1. ASSUME NEW u \in Turns
      PROVE  TurnInv(u)' /\ Onward(u)
  <2>1. CASE u = t
    BY <2>1, TurnMoves DEF ChatInv
  <2>2. CASE u # t
    <3>1. turn'[u] = turn[u]
      BY <2>2 DEF ChatInv, ChatTypeOK
    <3>. QED BY <3>1, TurnKept DEF ChatInv
  <2>. QED BY <2>1, <2>2
<1>2. MessageInv'
  BY <1>1, MessagesKept DEF ChatInv
<1>. QED BY <1>1, <1>2

(***************************************************************************)
(* A step of turn t that stores a message of t: it must not be stored yet, *)
(* and t must agree with it afterwards.                                    *)
(***************************************************************************)
LEMMA StoringStep ==
  ASSUME ChatInv, NEW t \in Turns, NEW v \in Turn,
         NEW role \in {"user", "assistant"},
         turn[t].in \in Convs,
         conv' = [conv EXCEPT ![turn[t].in] = Append(@, <<t, role>>)],
         ~Holds(turn[t].in, <<t, role>>),
         turn' = [turn EXCEPT ![t] = v],
         v.in = turn[t].in, v.route # "none",
         v.ui = turn[t].ui, v.cancelled = turn[t].cancelled,
         v.streams = turn[t].streams,
         turn[t].route \in {"close", "end"} \/ role = "assistant"
           => v.route \in {"close", "end"},
         v.route = "close" => v.stored,
         role = "user" => ~v.seen /\ turn[t].route = "none",
         role = "assistant" => turn[t].route # "none"
  PROVE  /\ (\A u \in Turns : TurnInv(u))' /\ MessageInv' /\ OneAnswer'
         /\ conv' \in [Convs -> Seq(Message) \cup {NoConv}]
<1> DEFINE c == turn[t].in
           m == <<t, role>>
<1>1. /\ conv[c] # NoConv /\ m \in Message /\ c \in Convs /\ c # NoConv
      /\ TurnInv(t) /\ ChatTypeOK /\ OneAnswer /\ ~Holds(c, m)
      /\ conv' = [conv EXCEPT ![c] = Append(@, m)]
  BY NoConvAssumption DEF ChatInv, TurnInv, Message
<1>2. /\ conv' \in [Convs -> Seq(Message) \cup {NoConv}]
      /\ Grows
      /\ \A b \in Convs : \A n :
           Holds(b, n)' <=> Holds(b, n) \/ (b = c /\ n = m)
      /\ \E j \in DOMAIN conv'[c] :
           conv'[c][j] = m /\ \A i \in DOMAIN conv[c] : i < j
      /\ OneAnswer'
  <2> HIDE DEF c, m
  <2>. QED BY <1>1, AppendMessage
<1>3. turn'[t] = v
  BY DEF ChatInv, ChatTypeOK
<1>4. Onward(t)
  BY <1>3 DEF Onward
<1>5. TurnInv(t)'
  <2>1. Holds(c, Question(t))'
    <3>1. CASE role = "user"
      BY <1>2, <3>1 DEF Question
    <3>2. CASE role = "assistant"
      <4>1. Holds(c, Question(t))
        BY <1>1, <3>2 DEF TurnInv
      <4>. QED BY <1>2, <4>1
    <3>. QED BY <3>1, <3>2
  <2>2. conv'[c] # NoConv
    BY <1>1, <1>2 DEF Grows
  <2>3. v.seen => Ordered(t)'
    <3>1. CASE role = "user"
      BY <3>1
    <3>2. CASE role = "assistant"
      <4>1. PICK i \in DOMAIN conv[c] : conv[c][i] = Question(t)
        BY <1>1, <3>2 DEF TurnInv, Holds
      <4>2. PICK j \in DOMAIN conv'[c] : conv'[c][j] = m /\ i < j
        BY <1>2, <4>1
      <4>3. i \in DOMAIN conv'[c] /\ conv'[c][i] = Question(t)
        BY <1>1, <1>2, <4>1 DEF Grows
      <4>. QED BY <1>3, <3>2, <4>2, <4>3 DEF Ordered, Answer
    <3>. QED BY <3>1, <3>2
  <2>. QED BY <1>1, <1>3, <2>1, <2>2, <2>3 DEF TurnInv
<1>6. ASSUME NEW u \in Turns, u # t
      PROVE  TurnInv(u)' /\ Onward(u)
  <2>1. turn'[u] = turn[u]
    BY <1>6 DEF ChatInv, ChatTypeOK
  <2>. QED BY <1>2, <2>1, TurnKept DEF ChatInv
<1>7. \A b \in Convs, u \in Turns :
        /\ Holds(b, Question(u))' /\ ~Holds(b, Question(u)) =>
             turn'[u].in = b /\ turn'[u].route # "none"
        /\ Holds(b, Answer(u))' /\ ~Holds(b, Answer(u)) =>
             turn'[u].in = b /\ turn'[u].route \in {"close", "end"}
  BY <1>2, <1>3 DEF Question, Answer
<1>8. MessageInv'
  BY <1>4, <1>6, <1>7, MessagesKept DEF ChatInv
<1>. QED BY <1>2, <1>5, <1>6, <1>8

\* The ways in which an action changes the record of a turn.
LEMMA RecordSteps ==
  ASSUME NEW r \in Turn
  PROVE  /\ \A ui \in {"create", "wait", "shown", "error"} :
              /\ [r EXCEPT !.ui = ui] \in Turn
              /\ [r EXCEPT !.ui = ui, !.left = TRUE] \in Turn
              /\ [r EXCEPT !.left = TRUE, !.ui = ui] \in Turn
              /\ \A c \in Convs : [r EXCEPT !.ui = ui, !.in = c] \in Turn
         /\ \A route \in {"ask", "end", "close"} :
              /\ [r EXCEPT !.route = route] \in Turn
              /\ \A seen \in BOOLEAN :
                   [r EXCEPT !.route = route, !.stored = TRUE,
                             !.seen = seen] \in Turn
         /\ [r EXCEPT !.cancelled = TRUE] \in Turn
         /\ (~r.left) \in BOOLEAN
<1>1. ASSUME NEW ui \in {"create", "wait", "shown", "error"}
      PROVE  /\ [r EXCEPT !.ui = ui] \in Turn
             /\ [r EXCEPT !.ui = ui, !.left = TRUE] \in Turn
             /\ [r EXCEPT !.left = TRUE, !.ui = ui] \in Turn
  BY <1>1 DEF Turn
<1>2. ASSUME NEW ui \in {"create", "wait", "shown", "error"}, NEW c \in Convs
      PROVE  [r EXCEPT !.ui = ui, !.in = c] \in Turn
  BY <1>2 DEF Turn
<1>3. ASSUME NEW route \in {"ask", "end", "close"}, NEW seen \in BOOLEAN
      PROVE  /\ [r EXCEPT !.route = route] \in Turn
             /\ [r EXCEPT !.route = route, !.stored = TRUE,
                          !.seen = seen] \in Turn
  BY <1>3 DEF Turn
<1>4. [r EXCEPT !.cancelled = TRUE] \in Turn
  BY DEF Turn
<1>5. (~r.left) \in BOOLEAN
  BY DEF Turn
<1>. QED BY <1>1, <1>2, <1>3, <1>4, <1>5

\* Every variable of the chat keeps its type.
LEMMA ChatTypes ==
  ASSUME ChatInv, ChatNext,
         conv' \in [Convs -> Seq(Message) \cup {NoConv}]
  PROVE  ChatTypeOK'
<1> USE DEF ChatInv, ChatTypeOK
<1>1. ASSUME NEW t \in Turns
      PROVE  LET r == turn[t] IN
             /\ \A ui \in {"create", "wait", "shown", "error"} :
                  /\ [r EXCEPT !.ui = ui] \in Turn
                  /\ [r EXCEPT !.ui = ui, !.left = TRUE] \in Turn
                  /\ [r EXCEPT !.left = TRUE, !.ui = ui] \in Turn
                  /\ \A c \in Convs : [r EXCEPT !.ui = ui, !.in = c] \in Turn
             /\ \A route \in {"ask", "end", "close"} :
                  /\ [r EXCEPT !.route = route] \in Turn
                  /\ \A seen \in BOOLEAN :
                       [r EXCEPT !.route = route, !.stored = TRUE,
                                 !.seen = seen] \in Turn
             /\ [r EXCEPT !.cancelled = TRUE] \in Turn
             /\ (~r.left) \in BOOLEAN
  <2>1. turn[t] \in Turn
    OBVIOUS
  <2>. QED BY <2>1, RecordSteps
<1>2. ASSUME NEW t \in Turns, NEW v \in Turn, turn' = [turn EXCEPT ![t] = v]
      PROVE  turn' \in [Turns -> Turn]
  BY <1>2
<1>3. ASSUME NEW t \in Turns,
             StartNew(t) \/ ShowError(t) \/ ReloadConversation(t)
             \/ Leave(t) \/ CancelStream(t)
      PROVE  turn' \in [Turns -> Turn]
  BY <1>1, <1>2, <1>3
     DEF StartNew, ShowError, ReloadConversation, Leave, CancelStream
<1>4. ASSUME NEW t \in Turns, NEW c \in Convs,
             StartIn(t, c) \/ CreateConversation(t, c)
      PROVE  turn' \in [Turns -> Turn]
  <2>1. turn' = [turn EXCEPT ![t] = [turn[t] EXCEPT !.ui = "wait",
                                                    !.in = c]]
    BY <1>4 DEF StartIn, CreateConversation
  <2>2. [turn[t] EXCEPT !.ui = "wait", !.in = c] \in Turn
    BY <1>1
  <2>. QED BY <1>2, <2>1, <2>2
<1>5. ASSUME NEW t \in Turns,
             AcceptMessage(t) \/ StreamUnanswered(t) \/ CloseStream(t)
             \/ AnswerUnstored(t)
      PROVE  turn' \in [Turns -> Turn]
  BY <1>1, <1>2, <1>5
     DEF AcceptMessage, StreamUnanswered, CloseStream, AnswerUnstored
<1>6. ASSUME NEW t \in Turns, StreamResult(t) \/ AnswerAtOnce(t)
      PROVE  turn' \in [Turns -> Turn]
  <2>1. PICK route \in {"close", "end"} :
          turn' = [turn EXCEPT ![t] = [turn[t] EXCEPT
                     !.route = route, !.stored = TRUE,
                     !.seen = ~turn[t].left]]
    BY <1>6 DEF StreamResult, AnswerAtOnce
  <2>. QED BY <1>1, <1>2, <2>1
<1>7. CASE WebStops
  BY <1>1, <1>7 DEF WebStops
<1>8. turn' \in [Turns -> Turn]
  BY <1>3, <1>4, <1>5, <1>6, <1>7 DEF ChatNext, WebStarts
<1>9. ASSUME NEW t \in Turns, AcceptMessage(t)
      PROVE  /\ scope' \in [Convs -> Turns \cup {NoConv}]
             /\ title' \in [Convs -> Turns \cup {NoConv}]
  <2>1. \A c : \A v \in Turns \cup {NoConv},
                  f \in [Convs -> Turns \cup {NoConv}] :
           [f EXCEPT ![c] = v] \in [Convs -> Turns \cup {NoConv}]
    OBVIOUS
  <2>2. /\ scope' = [scope EXCEPT ![turn[t].in] = t]
        /\ \E v \in Turns \cup {NoConv} :
             title' = [title EXCEPT ![turn[t].in] = v]
    <3>1. turn[t].in \in Convs
      BY <1>9, NoConvAssumption DEF AcceptMessage, Turn
    <3>. QED BY <1>9, <3>1 DEF AcceptMessage
  <2>. QED BY <2>1, <2>2
<1>10. ASSUME NEW t \in Turns, NEW c \in Convs, CreateConversation(t, c)
       PROVE  scope' \in [Convs -> Turns \cup {NoConv}] /\ title' = title
  BY <1>10 DEF CreateConversation
<1>11. \/ UNCHANGED <<scope, title>>
       \/ \E t \in Turns : \/ AcceptMessage(t)
                           \/ \E c \in Convs : CreateConversation(t, c)
  BY DEF ChatNext, StartNew, ShowError, ReloadConversation, Leave, StartIn,
         StreamResult, StreamUnanswered, CancelStream, CloseStream,
         AnswerAtOnce, AnswerUnstored, WebStops, WebStarts, StoreAnswer,
         KeepConversations
<1>12. up' \in BOOLEAN
  BY DEF ChatNext, StartNew, ShowError, ReloadConversation, Leave, StartIn,
         CreateConversation, AcceptMessage, StreamResult, StreamUnanswered,
         CancelStream, CloseStream, AnswerAtOnce, AnswerUnstored, WebStops,
         WebStarts, StoreAnswer, KeepConversations
<1>. QED BY <1>8, <1>9, <1>10, <1>11, <1>12

-----------------------------------------------------------------------------
\* What the composer and the ends of the route do to a turn.
LEMMA QuietMoves ==
  ASSUME ChatInv, NEW t \in Turns,
         \/ StartNew(t) \/ ShowError(t) \/ ReloadConversation(t) \/ Leave(t)
         \/ CancelStream(t) \/ StreamUnanswered(t) \/ AnswerUnstored(t)
         \/ CloseStream(t) \/ \E c \in Convs : StartIn(t, c)
  PROVE  UNCHANGED conv /\ Moves(t) /\ \E v : turn' = [turn EXCEPT ![t] = v]
<1> DEFINE r == turn[t]
<1>1. r \in Turn /\ TurnInv(t) /\ turn \in [Turns -> Turn]
  BY DEF ChatInv, ChatTypeOK
<1>2. ASSUME NEW ui \in {"create", "wait", "shown", "error"},
             NEW left \in BOOLEAN, UNCHANGED conv,
             turn' = [turn EXCEPT ![t] = [r EXCEPT !.ui = ui, !.left = left]],
             ui # "create" \/ r.in = NoConv
      PROVE  Moves(t)
  <2>1. turn'[t] = [r EXCEPT !.ui = ui, !.left = left]
    BY <1>1, <1>2
  <2>. QED BY <1>1, <1>2, <2>1 DEF Moves, TurnInv, Turn
<1>3. ASSUME StartNew(t)
      PROVE  UNCHANGED conv /\ Moves(t) /\ \E v : turn' = [turn EXCEPT ![t] = v]
  <2>1. /\ UNCHANGED conv /\ r.in = NoConv
        /\ turn' = [turn EXCEPT ![t] = [r EXCEPT !.ui = "create"]]
    BY <1>1, <1>3 DEF StartNew, KeepConversations, TurnInv
  <2>2. [r EXCEPT !.ui = "create"] = [r EXCEPT !.ui = "create",
                                               !.left = r.left]
    BY <1>1 DEF Turn
  <2>3. r.left \in BOOLEAN
    BY <1>1 DEF Turn
  <2>. QED BY <1>2, <2>1, <2>2, <2>3
<1>4. ASSUME ReloadConversation(t)
      PROVE  UNCHANGED conv /\ Moves(t) /\ \E v : turn' = [turn EXCEPT ![t] = v]
  <2>1. /\ UNCHANGED conv
        /\ turn' = [turn EXCEPT ![t] = [r EXCEPT !.ui = "shown"]]
    BY <1>4 DEF ReloadConversation, KeepConversations
  <2>2. [r EXCEPT !.ui = "shown"] = [r EXCEPT !.ui = "shown",
                                              !.left = r.left]
    BY <1>1 DEF Turn
  <2>3. r.left \in BOOLEAN
    BY <1>1 DEF Turn
  <2>. QED BY <1>2, <2>1, <2>2, <2>3
<1>5. ASSUME ShowError(t) \/ Leave(t)
      PROVE  UNCHANGED conv /\ Moves(t) /\ \E v : turn' = [turn EXCEPT ![t] = v]
  <2>1. /\ UNCHANGED conv
        /\ turn' = [turn EXCEPT ![t] = [r EXCEPT !.ui = "error",
                                                 !.left = TRUE]]
    <3>1. [r EXCEPT !.left = TRUE, !.ui = "error"]
            = [r EXCEPT !.ui = "error", !.left = TRUE]
      BY <1>1 DEF Turn
    <3>2. CASE ShowError(t)
      BY <3>2 DEF ShowError, KeepConversations
    <3>3. CASE Leave(t)
      <4>1. turn' = [turn EXCEPT ![t] = [r EXCEPT !.left = TRUE,
                                                  !.ui = "error"]]
        BY <3>3 DEF Leave
      <4>. QED BY <3>1, <3>3, <4>1 DEF Leave, KeepConversations
    <3>. QED BY <1>5, <3>2, <3>3
  <2>. QED BY <1>2, <2>1
<1>6. ASSUME CancelStream(t)
      PROVE  UNCHANGED conv /\ Moves(t) /\ \E v : turn' = [turn EXCEPT ![t] = v]
  <2>1. /\ UNCHANGED conv /\ r.streams
        /\ turn' = [turn EXCEPT ![t] = [r EXCEPT !.cancelled = TRUE]]
    BY <1>6 DEF CancelStream, KeepConversations
  <2>2. turn'[t] = [r EXCEPT !.cancelled = TRUE]
    BY <1>1, <2>1
  <2>. QED BY <1>1, <2>1, <2>2 DEF Moves, TurnInv, Turn
<1>7. ASSUME StreamUnanswered(t) \/ AnswerUnstored(t) \/ CloseStream(t)
      PROVE  UNCHANGED conv /\ Moves(t) /\ \E v : turn' = [turn EXCEPT ![t] = v]
  <2>1. UNCHANGED conv
    BY <1>1, <1>7
       DEF StreamUnanswered, AnswerUnstored, CloseStream, KeepConversations,
           TurnInv
  <2>2. /\ r.route # "none"
        /\ turn' = [turn EXCEPT ![t] = [r EXCEPT !.route = "end"]]
    BY <1>7 DEF StreamUnanswered, AnswerUnstored, CloseStream
  <2>3. turn'[t] = [r EXCEPT !.route = "end"]
    BY <1>1, <2>2
  <2>. QED BY <1>1, <2>1, <2>2, <2>3 DEF Moves, TurnInv, Turn
<1>8. ASSUME NEW c \in Convs, StartIn(t, c)
      PROVE  UNCHANGED conv /\ Moves(t) /\ \E v : turn' = [turn EXCEPT ![t] = v]
  <2>1. /\ UNCHANGED conv /\ r.in = NoConv /\ conv[c] # NoConv
        /\ turn' = [turn EXCEPT ![t] = [r EXCEPT !.ui = "wait", !.in = c]]
    BY <1>1, <1>8 DEF StartIn, KeepConversations, TurnInv
  <2>2. turn'[t] = [r EXCEPT !.ui = "wait", !.in = c]
    BY <1>1, <2>1
  <2>. QED BY <1>1, <2>1, <2>2 DEF Moves, TurnInv, Turn
<1>. QED BY <1>3, <1>4, <1>5, <1>6, <1>7, <1>8

\* A new conversation is empty.
LEMMA CreateStep ==
  ASSUME ChatInv, NEW t \in Turns, NEW c \in Convs, CreateConversation(t, c)
  PROVE  /\ conv' \in [Convs -> Seq(Message) \cup {NoConv}]
         /\ (\A u \in Turns : TurnInv(u))' /\ MessageInv' /\ OneAnswer'
<1> DEFINE r == turn[t]
<1>1. r \in Turn /\ TurnInv(t) /\ turn \in [Turns -> Turn]
  BY DEF ChatInv, ChatTypeOK
<1>2. /\ conv' = [conv EXCEPT ![c] = <<>>] /\ conv[c] = NoConv
      /\ turn' = [turn EXCEPT ![t] = [r EXCEPT !.ui = "wait", !.in = c]]
      /\ r.in = NoConv
  BY <1>1 DEF CreateConversation, TurnInv
<1>3. <<>> \in Seq(Message) /\ <<>> # NoConv /\ DOMAIN <<>> = {}
  <2>1. <<>> \in Seq(Message) /\ Len(<<>>) = 0
    OBVIOUS
  <2>2. DOMAIN <<>> = 1 .. Len(<<>>)
    OBVIOUS
  <2>3. <<>> # NoConv
    BY <2>1, NoConvAssumption
  <2>4. 1 .. 0 = {}
    OBVIOUS
  <2>. QED BY <2>1, <2>2, <2>3, <2>4
<1>4. conv' \in [Convs -> Seq(Message) \cup {NoConv}]
  BY <1>2, <1>3 DEF ChatInv, ChatTypeOK
<1>5. conv'[c] = <<>> /\ \A b \in Convs \ {c} : conv'[b] = conv[b]
  BY <1>2 DEF ChatInv, ChatTypeOK
<1>6. Grows
  BY <1>2, <1>5 DEF Grows
<1>7. OneAnswer'
  BY <1>3, <1>5 DEF ChatInv, OneAnswer, IsInjective
<1>8. \A b \in Convs : \A m : Holds(b, m)' <=> Holds(b, m)
  BY <1>2, <1>3, <1>5 DEF Holds
<1>9. Moves(t)
  <2>1. turn'[t] = [r EXCEPT !.ui = "wait", !.in = c]
    BY <1>1, <1>2
  <2>. QED BY <1>1, <1>2, <1>3, <1>5, <2>1 DEF Moves, TurnInv, Turn
<1>. QED BY <1>2, <1>4, <1>6, <1>7, <1>8, <1>9, QuietStep

\* The route stores the question, and once the answer.
LEMMA StoringSteps ==
  ASSUME ChatInv, NEW t \in Turns,
         AcceptMessage(t) \/ StreamResult(t) \/ AnswerAtOnce(t)
  PROVE  /\ conv' \in [Convs -> Seq(Message) \cup {NoConv}]
         /\ (\A u \in Turns : TurnInv(u))' /\ MessageInv' /\ OneAnswer'
<1> DEFINE r == turn[t]
<1>1. r \in Turn /\ TurnInv(t) /\ r.in \in Convs \cup {NoConv}
  BY DEF ChatInv, ChatTypeOK, Turn
<1>2. CASE AcceptMessage(t)
  <2> DEFINE v == [r EXCEPT !.route = "ask"]
  <2>1. /\ r.in \in Convs /\ r.route = "none"
        /\ conv' = [conv EXCEPT ![r.in] = Append(@, <<t, "user">>)]
        /\ turn' = [turn EXCEPT ![t] = v]
    BY <1>1, <1>2 DEF AcceptMessage
  <2>2. ~Holds(r.in, <<t, "user">>)
    BY <2>1 DEF ChatInv, MessageInv, Question
  <2>3. /\ v \in Turn /\ v.in = r.in /\ v.route = "ask" /\ v.ui = r.ui
        /\ v.cancelled = r.cancelled /\ v.streams = r.streams
        /\ v.seen = r.seen
    BY <1>1 DEF Turn
  <2>4. ~v.seen
    BY <1>1, <2>1, <2>3 DEF TurnInv
  <2> HIDE DEF v
  <2>. QED BY <2>1, <2>2, <2>3, <2>4, StoringStep
<1>3. CASE StreamResult(t) \/ AnswerAtOnce(t)
  <2>1. PICK route \in {"close", "end"} :
          /\ r.route = "ask"
          /\ conv' = [conv EXCEPT ![r.in] = Append(@, <<t, "assistant">>)]
          /\ turn' = [turn EXCEPT ![t] = [r EXCEPT !.route = route,
                                                   !.stored = TRUE,
                                                   !.seen = ~r.left]]
    BY <1>3 DEF StreamResult, AnswerAtOnce, StoreAnswer
  <2> DEFINE v == [r EXCEPT !.route = route, !.stored = TRUE,
                            !.seen = ~r.left]
  <2>2. r.in \in Convs
    BY <1>1, <2>1 DEF TurnInv
  <2>3. ~Holds(r.in, <<t, "assistant">>)
    BY <2>1, <2>2 DEF ChatInv, MessageInv, Answer
  <2>4. /\ v \in Turn /\ v.in = r.in /\ v.route = route /\ v.ui = r.ui
        /\ v.cancelled = r.cancelled /\ v.streams = r.streams
        /\ v.stored = TRUE
    BY <1>1 DEF Turn
  <2> HIDE DEF v
  <2>. QED BY <2>1, <2>2, <2>3, <2>4, StoringStep DEF v
<1>. QED BY <1>2, <1>3

\* A stop stores at most one answer, of a turn that has asked and was not
\* cancelled.
LEMMA StopStores ==
  ASSUME ChatInv, WebStops
  PROVE  \/ UNCHANGED conv
         \/ \E u \in Turns :
              /\ turn[u].route = "ask" /\ ~turn[u].cancelled
              /\ turn[u].in \in Convs
              /\ conv' = [conv EXCEPT ![turn[u].in] =
                            Append(@, <<u, "assistant">>)]
<1>1. PICK T \in SUBSET {t \in Turns : /\ turn[t].route = "ask"
                                      /\ ~turn[t].cancelled} :
        /\ Cardinality(T) <= 1
        /\ conv' = [c \in Convs |->
               IF \E t \in T : turn[t].in = c
                 THEN Append(conv[c], <<CHOOSE t \in T : TRUE, "assistant">>)
                 ELSE conv[c]]
  BY DEF WebStops
<1>2. conv \in [Convs -> Seq(Message) \cup {NoConv}]
  BY DEF ChatInv, ChatTypeOK
<1>3. IsFiniteSet(T) /\ Cardinality(T) \in Nat
  BY TurnsFinite, FS_Subset, FS_CardinalityType
<1>4. CASE Cardinality(T) = 0
  <2>1. T = {}
    BY <1>3, <1>4, FS_EmptySet
  <2>. QED BY <1>1, <1>2, <2>1
<1>5. CASE Cardinality(T) = 1
  <2>1. PICK u : T = {u}
    BY <1>3, <1>5, FS_Singleton
  <2>2. u \in Turns /\ turn[u].route = "ask" /\ ~turn[u].cancelled
    BY <1>1, <2>1
  <2>3. turn[u].in \in Convs
    BY <2>2 DEF ChatInv, ChatTypeOK, TurnInv, Turn
  <2>4. (CHOOSE t \in T : TRUE) = u
    BY <2>1
  <2>5. conv' = [c \in Convs |->
                   IF turn[u].in = c THEN Append(conv[c], <<u, "assistant">>)
                   ELSE conv[c]]
    BY <1>1, <2>1, <2>4
  <2>6. conv' = [conv EXCEPT ![turn[u].in] = Append(@, <<u, "assistant">>)]
    BY <1>2, <2>3, <2>5
  <2>. QED BY <2>2, <2>3, <2>6
<1>6. Cardinality(T) \in {0, 1}
  BY <1>1, <1>3
<1>. QED BY <1>4, <1>5, <1>6

\* A stop ends every route.
LEMMA StopStep ==
  ASSUME ChatInv, WebStops
  PROVE  /\ conv' \in [Convs -> Seq(Message) \cup {NoConv}]
         /\ (\A u \in Turns : TurnInv(u))' /\ MessageInv' /\ OneAnswer'
<1>1. ASSUME NEW t \in Turns
      PROVE  /\ turn'[t].in = turn[t].in
             /\ Moves(t)
             /\ turn[t].route # "none" => turn'[t].route = "end"
  <2>1. turn[t] \in Turn /\ TurnInv(t)
    BY DEF ChatInv, ChatTypeOK
  <2>2. turn'[t] = IF turn[t].route = "none" THEN turn[t]
                   ELSE [turn[t] EXCEPT !.route = "end"]
    BY DEF WebStops
  <2>. QED BY <2>1, <2>2 DEF Moves, TurnInv, Turn
<1>2. CASE UNCHANGED conv
  <2>1. Grows /\ OneAnswer'
    BY <1>2 DEF ChatInv, Grows, OneAnswer
  <2>2. \A t \in Turns : TurnInv(t)' /\ Onward(t)
    BY <1>1, <2>1, TurnMoves DEF ChatInv
  <2>3. \A c \in Convs : \A m : Holds(c, m)' <=> Holds(c, m)
    BY <1>2 DEF Holds
  <2>4. MessageInv'
    BY <2>2, <2>3, MessagesKept DEF ChatInv
  <2>. QED BY <1>2, <2>1, <2>2, <2>4 DEF ChatInv, ChatTypeOK
<1>3. ASSUME NEW u \in Turns, turn[u].route = "ask", turn[u].in \in Convs,
             conv' = [conv EXCEPT ![turn[u].in] =
                        Append(@, <<u, "assistant">>)]
      PROVE  /\ conv' \in [Convs -> Seq(Message) \cup {NoConv}]
             /\ (\A t \in Turns : TurnInv(t))' /\ MessageInv' /\ OneAnswer'
  <2> DEFINE c == turn[u].in
             m == <<u, "assistant">>
  <2>1. /\ c \in Convs /\ conv[c] # NoConv /\ m \in Message
        /\ ~Holds(c, m) /\ ChatTypeOK /\ OneAnswer
        /\ conv' = [conv EXCEPT ![c] = Append(@, m)]
    BY <1>3, NoConvAssumption
       DEF ChatInv, TurnInv, MessageInv, Answer, Message
  <2>2. /\ conv' \in [Convs -> Seq(Message) \cup {NoConv}]
        /\ Grows
        /\ \A b \in Convs : \A n :
             Holds(b, n)' <=> Holds(b, n) \/ (b = c /\ n = m)
        /\ OneAnswer'
    <3> HIDE DEF c, m
    <3>. QED BY <2>1, AppendMessage
  <2>3. \A t \in Turns : TurnInv(t)' /\ Onward(t)
    BY <1>1, <2>2, TurnMoves DEF ChatInv
  <2>4. turn'[u].in = c /\ turn'[u].route = "end"
    BY <1>1, <1>3
  <2>5. \A b \in Convs, t \in Turns :
          /\ Holds(b, Question(t))' /\ ~Holds(b, Question(t)) =>
               turn'[t].in = b /\ turn'[t].route # "none"
          /\ Holds(b, Answer(t))' /\ ~Holds(b, Answer(t)) =>
               turn'[t].in = b /\ turn'[t].route \in {"close", "end"}
    BY <2>2, <2>4 DEF Question, Answer
  <2>6. MessageInv'
    BY <2>3, <2>5, MessagesKept DEF ChatInv
  <2>. QED BY <2>2, <2>3, <2>6
<1>. QED BY <1>2, <1>3, StopStores

-----------------------------------------------------------------------------
\* The invariant holds initially.
LEMMA ChatStarts ==
  ASSUME ChatInit
  PROVE  ChatInv
<1>1. ASSUME NEW t \in Turns
      PROVE  /\ turn[t] \in Turn /\ turn[t].ui = "idle"
             /\ turn[t].route = "none" /\ turn[t].in = NoConv
             /\ ~turn[t].stored /\ ~turn[t].seen /\ ~turn[t].cancelled
  BY DEF ChatInit, Turn
<1>2. ChatTypeOK
  BY <1>1 DEF ChatInit, ChatTypeOK
<1>3. \A t \in Turns : TurnInv(t)
  BY <1>1 DEF TurnInv
<1>4. \A c \in Convs : conv[c] = NoConv
  BY DEF ChatInit
<1>. QED BY <1>2, <1>3, <1>4 DEF ChatInv, MessageInv, Holds, OneAnswer

\* Every step preserves it.
LEMMA ChatSteps ==
  ASSUME ChatInv, [ChatNext]_chatVars
  PROVE  ChatInv'
<1> DEFINE Kept == /\ conv' \in [Convs -> Seq(Message) \cup {NoConv}]
                   /\ (\A u \in Turns : TurnInv(u))' /\ MessageInv'
                   /\ OneAnswer'
<1>1. CASE UNCHANGED chatVars
  BY <1>1 DEF chatVars, ChatInv, ChatTypeOK, TurnInv, MessageInv, OneAnswer,
              Holds, Ordered
<1>2. ASSUME NEW t \in Turns,
             \/ StartNew(t) \/ ShowError(t) \/ ReloadConversation(t)
             \/ Leave(t) \/ CancelStream(t) \/ StreamUnanswered(t)
             \/ AnswerUnstored(t) \/ CloseStream(t)
             \/ \E c \in Convs : StartIn(t, c)
      PROVE  Kept
  <2>1. UNCHANGED conv /\ Moves(t) /\ \E v : turn' = [turn EXCEPT ![t] = v]
    BY <1>2, QuietMoves
  <2>2. /\ Grows /\ OneAnswer'
        /\ \A c \in Convs : \A m : Holds(c, m)' <=> Holds(c, m)
        /\ conv' \in [Convs -> Seq(Message) \cup {NoConv}]
    BY <2>1 DEF Grows, ChatInv, ChatTypeOK, OneAnswer, Holds
  <2>. QED BY <2>1, <2>2, QuietStep
<1>3. CASE WebStarts
  BY <1>3 DEF WebStarts, ChatInv, ChatTypeOK, TurnInv, MessageInv,
              OneAnswer, Holds, Ordered
<1>4. CASE ChatNext /\ ~WebStarts
  <2>1. Kept
    BY <1>2, <1>4, CreateStep, StoringSteps, StopStep DEF ChatNext
  <2>. QED BY <1>4, <2>1, ChatTypes DEF ChatInv
<1>. QED BY <1>1, <1>3, <1>4

(***************************************************************************)
(* Rows, turns and messages of the chat agree in every reachable state.    *)
(***************************************************************************)
THEOREM ChatConsistent == ChatSpec => []ChatInv
  BY ChatStarts, ChatSteps, PTL DEF ChatSpec

(***************************************************************************)
(* No message is stored twice, whichever place of the send route stores    *)
(* the answer and however the web server restarts.                         *)
(***************************************************************************)
THEOREM AnsweredOnce == ChatSpec => []OneAnswer
<1>1. ChatInv => OneAnswer
  BY DEF ChatInv
<1>. QED BY <1>1, ChatConsistent, PTL

(***************************************************************************)
(* An answer the client has received is stored behind its question in the  *)
(* conversation the tab reloads.                                           *)
(***************************************************************************)
THEOREM SeenKept == ChatSpec => []SeenIsStored
<1>1. ChatInv => SeenIsStored
  BY DEF ChatInv, TurnInv, SeenIsStored, Ordered, Question, Answer
<1>. QED BY <1>1, ChatConsistent, PTL

(***************************************************************************)
(* A stream its client has cancelled stores nothing any more: neither its  *)
(* result, its end nor a stop of the web server does.                      *)
(***************************************************************************)
THEOREM CancelledStoresNothing == ChatSpec => AbandonedUnanswered
<1>1. ASSUME ChatInv, [ChatNext]_chatVars, NEW t \in Turns,
             turn[t].cancelled, NEW c \in Convs
      PROVE  Holds(c, Answer(t))' <=> Holds(c, Answer(t))
  <2>1. CASE UNCHANGED conv
    BY <2>1 DEF Holds
  <2>2. ASSUME NEW u \in Turns, NEW role \in {"user", "assistant"},
               turn[u].in \in Convs,
               conv' = [conv EXCEPT ![turn[u].in] = Append(@, <<u, role>>)],
               u # t \/ role = "user"
        PROVE  Holds(c, Answer(t))' <=> Holds(c, Answer(t))
    <3> DEFINE b == turn[u].in
               m == <<u, role>>
    <3>1. /\ b \in Convs /\ conv[b] # NoConv /\ m \in Message /\ ChatTypeOK
          /\ conv' = [conv EXCEPT ![b] = Append(@, m)] /\ m # Answer(t)
      BY <1>1, <2>2, NoConvAssumption
         DEF ChatInv, TurnInv, Message, Answer
    <3> HIDE DEF b, m
    <3>2. \A a \in Convs : \A n :
            Holds(a, n)' <=> Holds(a, n) \/ (a = b /\ n = m)
      BY <3>1, AppendMessage
    <3>. QED BY <1>1, <3>1, <3>2
  <2>3. ASSUME NEW u \in Turns,
               AcceptMessage(u) \/ StreamResult(u) \/ AnswerAtOnce(u)
        PROVE  Holds(c, Answer(t))' <=> Holds(c, Answer(t))
    <3>1. TurnInv(t) /\ TurnInv(u) /\ turn[u].in \in Convs \cup {NoConv}
      BY <1>1 DEF ChatInv, ChatTypeOK, Turn
    <3>2. turn[u].in \in Convs
      BY <2>3, <3>1 DEF AcceptMessage, StreamResult, AnswerAtOnce, TurnInv
    <3>3. CASE AcceptMessage(u)
      BY <2>2, <3>2, <3>3 DEF AcceptMessage
    <3>4. CASE StreamResult(u) \/ AnswerAtOnce(u)
      <4>1. u # t
        BY <1>1, <3>1, <3>4 DEF StreamResult, AnswerAtOnce, TurnInv
      <4>. QED BY <2>2, <3>2, <3>4, <4>1
               DEF StreamResult, AnswerAtOnce, StoreAnswer
    <3>. QED BY <2>3, <3>3, <3>4
  <2>4. CASE WebStops
    BY <1>1, <2>1, <2>2, <2>4, StopStores
  <2>5. ASSUME NEW u \in Turns, NEW b \in Convs, CreateConversation(u, b)
        PROVE  Holds(c, Answer(t))' <=> Holds(c, Answer(t))
    <3>1. conv' = [conv EXCEPT ![b] = <<>>] /\ conv[b] = NoConv
      BY <2>5 DEF CreateConversation
    <3>2. \A i : i \notin DOMAIN <<>>
      OBVIOUS
    <3>. QED BY <1>1, <3>1, <3>2 DEF Holds, ChatInv, ChatTypeOK
  <2>6. \/ UNCHANGED conv \/ WebStops
        \/ \E u \in Turns :
             \/ AcceptMessage(u) \/ StreamResult(u) \/ AnswerAtOnce(u)
             \/ \E b \in Convs : CreateConversation(u, b)
    <3>1. ASSUME NEW u \in Turns,
                 \/ StartNew(u) \/ ShowError(u) \/ ReloadConversation(u)
                 \/ Leave(u) \/ CancelStream(u) \/ StreamUnanswered(u)
                 \/ AnswerUnstored(u) \/ CloseStream(u)
                 \/ \E b \in Convs : StartIn(u, b)
          PROVE  UNCHANGED conv
      BY <1>1, <3>1, QuietMoves
    <3>. QED BY <1>1, <3>1 DEF ChatNext, WebStarts, chatVars
  <2>. QED BY <2>1, <2>3, <2>4, <2>5, <2>6
<1>2. ASSUME ChatTypeOK, NEW t \in Turns
      PROVE  Stored(t, "assistant") <=> \E c \in Convs : Holds(c, Answer(t))
  BY <1>2, RowsAreSequences DEF Stored, Holds, Contains, Answer
<1>3. ChatInv /\ ChatInv' /\ [ChatNext]_chatVars =>
        [\A t \in Turns : turn[t].cancelled =>
           (Stored(t, "assistant"))' = Stored(t, "assistant")]_chatVars
  <2> SUFFICES ASSUME ChatInv, ChatInv', [ChatNext]_chatVars,
                      NEW t \in Turns, turn[t].cancelled
               PROVE  Stored(t, "assistant")' = Stored(t, "assistant")
    OBVIOUS
  <2>1. Stored(t, "assistant") <=> \E c \in Convs : Holds(c, Answer(t))
    BY <1>2 DEF ChatInv
  <2>2. Stored(t, "assistant")' <=> \E c \in Convs : Holds(c, Answer(t))'
    <3>1. \A c \in Convs : conv'[c] # NoConv =>
                             DOMAIN conv'[c] = 1 .. Len(conv'[c])
      BY DEF ChatInv, ChatTypeOK
    <3>. QED BY <3>1 DEF Stored, Holds, Contains, Answer
  <2>3. Stored(t, "assistant")' <=> Stored(t, "assistant")
    BY <1>1, <2>1, <2>2
  <2>. QED BY <2>3 DEF Stored
<1>. QED BY <1>3, ChatConsistent, PTL DEF ChatSpec, AbandonedUnanswered

-----------------------------------------------------------------------------
(*****************************************************************************)
(* The API keys.  The page is never ahead of the store: a key only goes from *)
(* absent to live to revoked, so what was true of it when a list was read,   *)
(* or a creation stored, remains so while the answer is on its way.          *)
(*****************************************************************************)

\* A list tells of keys what a store has, or had.
Tells(list, store) ==
    \A k \in Keys : /\ list[k] # "absent" => store[k] # "absent"
                    /\ list[k] = "revoked" => store[k] = "revoked"

\* The answer to a creation names a stored key, a list that was read tells of
\* the store; a call that is not under way has no answer.
AnswersTell ==
    \A c \in Calls :
      /\ call[c].op = "none" => call[c].stage = "sent"
      /\ call[c].op = "create" /\ call[c].stage = "stored"
           => call[c].key \in Keys /\ keys[call[c].key] # "absent"
      /\ Tells(call[c].list, keys)

KeysInv == KeyTypeOK /\ AnswersTell /\ PageTellsStore

\* Keys only move on: none disappears, none that is revoked comes back.
KeysGoOn ==
    /\ keys' \in [Keys -> Listed]
    /\ \A k \in Keys : /\ keys[k] # "absent" => keys'[k] # "absent"
                       /\ keys[k] = "revoked" => keys'[k] = "revoked"

\* What is told remains so while keys move on.
LEMMA StillTold ==
    ASSUME KeysGoOn, NEW list, Tells(list, keys)
    PROVE  Tells(list, keys')
BY DEF KeysGoOn, Tells

\* When the store moves on, the page that told of it still does.
LEMMA PageStillTells ==
    ASSUME KeysInv, KeysGoOn, UNCHANGED page
    PROVE  PageTellsStore'
<1>1. page.secret # NoKey => page.secret \in Keys
  BY DEF KeysInv, KeyTypeOK, Page
<1> QED
  BY <1>1 DEF KeysInv, PageTellsStore, KeysGoOn

\* An answer of the server to one call keeps what the calls tell.
LEMMA CallAnswered ==
    ASSUME KeysInv, KeysGoOn, NEW c \in Calls, NEW k \in Keys \cup {NoKey},
           NEW stage \in {"stored", "refused"}, AnswerCall(c, k, stage),
           call[c].op # "none",
           call[c].op = "create" /\ stage = "stored"
             => k \in Keys /\ keys'[k] # "absent"
    PROVE  call' \in [Calls -> Call] /\ AnswersTell'
<1> DEFINE new == IF call[c].gone THEN NoCall
                  ELSE [call[c] EXCEPT !.key = k, !.stage = stage]
<1>1. call[c] \in Call
  BY DEF KeysInv, KeyTypeOK
<1>2. /\ Empty \in [Keys -> Listed] /\ \A j \in Keys : Empty[j] = "absent"
  BY DEF Empty, Listed
<1>3. /\ NoCall \in Call /\ NoCall.op = "none" /\ NoCall.list = Empty
  BY <1>2 DEF NoCall, Call
<1>4. new \in Call
  BY <1>1, <1>3 DEF Call
<1>5. call' = [call EXCEPT ![c] = new]
  BY DEF AnswerCall
<1>6. Tells(new.list, keys')
  <2>1. CASE call[c].gone
    BY <1>2, <1>3, <2>1 DEF Tells
  <2>2. CASE ~call[c].gone
    <3>1. new.list = call[c].list
      BY <1>1, <2>2 DEF Call
    <3>2. Tells(call[c].list, keys)
      BY DEF KeysInv, AnswersTell
    <3> QED
      BY <3>1, <3>2, StillTold
  <2> QED
    BY <2>1, <2>2
<1>7. /\ new.op = "none" => new.stage = "sent"
      /\ new.op = "create" /\ new.stage = "stored"
           => new.key \in Keys /\ keys'[new.key] # "absent"
  BY <1>1 DEF Call, NoCall
<1> HIDE DEF new
<1>8. call' \in [Calls -> Call]
  BY <1>4, <1>5 DEF KeysInv, KeyTypeOK
<1>9. ASSUME NEW d \in Calls
      PROVE  /\ call'[d].op = "none" => call'[d].stage = "sent"
             /\ call'[d].op = "create" /\ call'[d].stage = "stored"
                  => call'[d].key \in Keys /\ keys'[call'[d].key] # "absent"
             /\ Tells(call'[d].list, keys')
  <2>1. CASE d = c
    <3>1. call'[d] = new
      BY <1>5, <2>1 DEF KeysInv, KeyTypeOK
    <3> QED
      BY <1>6, <1>7, <3>1 DEF Tells
  <2>2. CASE d # c
    <3>1. call'[d] = call[d]
      BY <1>5, <2>2 DEF KeysInv, KeyTypeOK
    <3> QED
      BY <3>1 DEF KeysInv, AnswersTell, Tells, KeysGoOn
  <2> QED
    BY <2>1, <2>2
<1> QED
  BY <1>8, <1>9 DEF AnswersTell, Tells

\* A step of the page changes neither the store nor what a call may tell: a
\* call keeps its answer or is forgotten or begins.
LEMMA KeyPageStep ==
    ASSUME KeysInv, KeepKeyStore, page' \in Page, call' \in [Calls -> Call],
           PageTellsStore',
           \A c \in Calls : \/ /\ call'[c].op = call[c].op
                               /\ call'[c].stage = call[c].stage
                               /\ call'[c].key = call[c].key
                               /\ call'[c].list = call[c].list
                            \/ call'[c] = NoCall
                            \/ /\ call'[c].stage = "sent"
                               /\ call'[c].list = call[c].list
    PROVE  KeysInv'
<1>1. \A k \in Keys : Empty[k] = "absent"
  BY DEF Empty
<1>2. KeyTypeOK'
  BY DEF KeysInv, KeyTypeOK, KeepKeyStore
<1>3. AnswersTell'
  BY <1>1 DEF KeysInv, AnswersTell, Tells, KeepKeyStore, NoCall
<1> QED
  BY <1>2, <1>3 DEF KeysInv

LEMMA KeysInit == KeyInit => KeysInv
<1> SUFFICES ASSUME KeyInit PROVE KeysInv
  OBVIOUS
<1>1. Empty \in [Keys -> Listed] /\ \A k \in Keys : Empty[k] = "absent"
  BY DEF Empty, Listed
<1>2. NoCall \in Call
  BY <1>1 DEF NoCall, Call
<1>3. KeyTypeOK
  BY <1>1, <1>2 DEF KeyInit, KeyTypeOK, Page
<1> QED
  BY <1>1, <1>3 DEF KeyInit, KeysInv, AnswersTell, PageTellsStore, Tells, NoCall

LEMMA KeysStep == KeysInv /\ [KeyNext]_keyVars => KeysInv'
<1> SUFFICES ASSUME KeysInv, [KeyNext]_keyVars PROVE KeysInv'
  OBVIOUS
<1>1. /\ page \in Page /\ call \in [Calls -> Call]
      /\ keys \in [Keys -> Listed]
      /\ audit \in [Keys -> [created : Nat, revoked : Nat]]
  BY DEF KeysInv, KeyTypeOK
<1>2. /\ Empty \in [Keys -> Listed] /\ \A k \in Keys : Empty[k] = "absent"
      /\ NoCall \in Call
  BY DEF Empty, Listed, NoCall, Call
<1>3. ASSUME NEW c \in Calls PROVE Settled(c) \in Page
                                   /\ Settled(c).shown = page.shown
                                   /\ Settled(c).secret = page.secret
  BY <1>1 DEF Settled, Page
<1>4. ASSUME KeepKeyStore, page'.shown = page.shown,
             page'.secret \in {page.secret, NoKey}
      PROVE  PageTellsStore'
  BY <1>4 DEF KeepKeyStore, KeysInv, PageTellsStore
<1>5. ASSUME NEW c \in Calls, SubmitCreate(c) PROVE KeysInv'
  <2> DEFINE new == [call[c] EXCEPT !.op = "create"]
  <2>1. call' = [call EXCEPT ![c] = new]
    BY <1>5 DEF SubmitCreate
  <2>2. new \in Call /\ new.stage = "sent" /\ new.list = call[c].list
    BY <1>1, <1>5 DEF SubmitCreate, Call, KeysInv, AnswersTell
  <2>3. page' \in Page /\ PageTellsStore'
    BY <1>1, <1>4, <1>5 DEF SubmitCreate, Page
  <2> HIDE DEF new
  <2> QED
    BY <1>1, <1>5, <2>1, <2>2, <2>3, KeyPageStep DEF SubmitCreate
<1>6. ASSUME NEW c \in Calls, NEW k \in Keys, SubmitRevoke(c, k)
      PROVE  KeysInv'
  <2> DEFINE new == [call[c] EXCEPT !.op = "revoke", !.key = k]
  <2>1. call' = [call EXCEPT ![c] = new]
    BY <1>1, <1>6 DEF SubmitRevoke
  <2>2. new \in Call /\ new.stage = "sent" /\ new.list = call[c].list
    BY <1>1, <1>6 DEF SubmitRevoke, Call, KeysInv, AnswersTell
  <2>3. page' \in Page /\ PageTellsStore'
    BY <1>1, <1>4, <1>6 DEF SubmitRevoke, Page
  <2> HIDE DEF new
  <2> QED
    BY <1>1, <1>6, <2>1, <2>2, <2>3, KeyPageStep DEF SubmitRevoke
<1>7. ASSUME NEW c \in Calls, Created(c) PROVE KeysInv'
  <2> DEFINE k == call[c].key
  <2>1. k \in Keys /\ keys[k] # "absent"
    BY <1>7 DEF Created, WaitsFor, KeysInv, AnswersTell
  <2>2. page' = [Settled(c) EXCEPT !.shown[k] = "live", !.secret = k]
    BY <1>7 DEF Created
  <2>3. page' \in Page /\ page'.secret = k
        /\ page'.shown = [page.shown EXCEPT ![k] = "live"]
    BY <1>3, <2>1, <2>2 DEF Page, Listed
  <2>4. PageTellsStore'
    BY <1>1, <1>7, <2>1, <2>3
       DEF Created, KeepKeyStore, KeysInv, PageTellsStore, Page
  <2> QED
    BY <1>1, <1>2, <1>7, <2>3, <2>4, KeyPageStep DEF Created
<1>8. ASSUME NEW c \in Calls, RefreshKeys(c) PROVE KeysInv'
  <2> DEFINE list == call[c].list
  <2>1. list \in [Keys -> Listed] /\ Tells(list, keys)
    BY <1>1 DEF KeysInv, AnswersTell, Call
  <2>2. page' = [Settled(c) EXCEPT !.shown = list]
    BY <1>8 DEF RefreshKeys
  <2>3. page' \in Page /\ page'.secret = page.secret /\ page'.shown = list
    BY <1>3, <2>1, <2>2 DEF Page
  <2>4. PageTellsStore'
    BY <1>8, <2>1, <2>3
       DEF RefreshKeys, KeepKeyStore, KeysInv, PageTellsStore, Tells
  <2> QED
    BY <1>1, <1>2, <1>8, <2>3, <2>4, KeyPageStep DEF RefreshKeys
<1>9. ASSUME NEW c \in Calls, Failed(c) PROVE KeysInv'
  <2> DEFINE new == IF call[c].stage = "sent"
                      THEN [call[c] EXCEPT !.gone = TRUE] ELSE NoCall
  <2>1. call' = [call EXCEPT ![c] = new]
    BY <1>9 DEF Failed
  <2>2. /\ new \in Call
        /\ \/ new = NoCall
           \/ /\ new.op = call[c].op /\ new.stage = call[c].stage
              /\ new.key = call[c].key /\ new.list = call[c].list
    BY <1>1, <1>2 DEF Call
  <2>3. page' \in Page /\ PageTellsStore'
    BY <1>3, <1>4, <1>9 DEF Failed
  <2> HIDE DEF new
  <2> QED
    BY <1>1, <1>9, <2>1, <2>2, <2>3, KeyPageStep DEF Failed
<1>10. CASE Reload
  <2>1. page' \in Page
    BY <1>1, <1>10 DEF Reload, Page
  <2>2. call' \in [Calls -> Call]
    BY <1>1, <1>2, <1>10 DEF Reload, Call
  <2>3. PageTellsStore'
    BY <1>1, <1>10 DEF Reload, KeepKeyStore, PageTellsStore
  <2>4. ASSUME NEW c \in Calls
        PROVE  \/ call'[c] = NoCall
               \/ /\ call'[c].op = call[c].op /\ call'[c].key = call[c].key
                  /\ call'[c].stage = call[c].stage
                  /\ call'[c].list = call[c].list
    <3>1. call[c] \in Call
      BY <1>1
    <3>2. call'[c] \in {NoCall, [call[c] EXCEPT !.gone = TRUE]}
      BY <1>10 DEF Reload
    <3> QED
      BY <3>1, <3>2 DEF Call
  <2> QED
    BY <1>10, <2>1, <2>2, <2>3, <2>4, KeyPageStep DEF Reload
<1>11. CASE CloseSecret
  <2>1. page' \in Page
    BY <1>1, <1>11 DEF CloseSecret, Page
  <2> QED
    BY <1>1, <1>4, <1>11, <2>1, KeyPageStep DEF CloseSecret, Page
<1>12. ASSUME NEW c \in Calls, CreateApiKey(c) PROVE KeysInv'
  <2>1. PICK k \in Keys : /\ keys[k] = "absent"
                          /\ keys' = [keys EXCEPT ![k] = "live"]
                          /\ audit' = [audit EXCEPT ![k].created = @ + 1]
                          /\ AnswerCall(c, k, "stored")
                          /\ call[c].op = "create"
    BY <1>12 DEF CreateApiKey, Sent
  <2>2. KeysGoOn /\ keys'[k] # "absent"
    BY <1>1, <2>1 DEF KeysGoOn, Listed
  <2>3. call' \in [Calls -> Call] /\ AnswersTell'
    BY <2>1, <2>2, CallAnswered
  <2>4. page' = page /\ PageTellsStore'
    BY <1>12, <2>2, PageStillTells DEF CreateApiKey
  <2>5. audit' \in [Keys -> [created : Nat, revoked : Nat]]
    BY <1>1, <2>1
  <2> QED
    BY <1>1, <2>2, <2>3, <2>4, <2>5 DEF KeysInv, KeyTypeOK, KeysGoOn
<1>13. ASSUME NEW c \in Calls, RevokeApiKey(c) PROVE KeysInv'
  <2> DEFINE k == call[c].key
  <2>1. /\ k \in Keys \cup {NoKey} /\ keys[k] = "live"
        /\ call[c].op = "revoke"
        /\ keys' = [keys EXCEPT ![k] = "revoked"]
        /\ audit' = [audit EXCEPT ![k].revoked = @ + 1]
        /\ AnswerCall(c, k, "stored")
    BY <1>1, <1>13 DEF RevokeApiKey, Sent, Call
  <2>2. KeysGoOn
    BY <1>1, <2>1 DEF KeysGoOn, Listed
  <2>3. call' \in [Calls -> Call] /\ AnswersTell'
    BY <2>1, <2>2, CallAnswered
  <2>4. page' = page /\ PageTellsStore'
    BY <1>13, <2>2, PageStillTells DEF RevokeApiKey
  <2>5. audit' \in [Keys -> [created : Nat, revoked : Nat]]
    <3>1. CASE k \in Keys
      BY <1>1, <2>1, <3>1
    <3>2. CASE k \notin Keys
      BY <1>1, <2>1, <3>2
    <3> QED
      BY <3>1, <3>2
  <2> QED
    BY <1>1, <2>2, <2>3, <2>4, <2>5 DEF KeysInv, KeyTypeOK, KeysGoOn
<1>14. ASSUME NEW c \in Calls, RefuseChange(c) PROVE KeysInv'
  <2>1. KeysGoOn
    BY <1>1, <1>14 DEF RefuseChange, KeysGoOn
  <2>2. call[c].key \in Keys \cup {NoKey}
    BY <1>1 DEF Call
  <2>3. call' \in [Calls -> Call] /\ AnswersTell'
    BY <1>14, <2>1, <2>2, CallAnswered DEF RefuseChange
  <2> QED
    BY <1>1, <1>14, <2>1, <2>3, PageStillTells
    DEF RefuseChange, KeysInv, KeyTypeOK
<1>15. ASSUME NEW c \in Calls, ListApiKeys(c) PROVE KeysInv'
  <2> DEFINE new == [call[c] EXCEPT !.stage = "listed", !.list = keys]
  <2>1. call' = [call EXCEPT ![c] = new]
    BY <1>15 DEF ListApiKeys
  <2>2. /\ new \in Call /\ new.stage = "listed" /\ new.list = keys
        /\ new.op = "revoke"
    BY <1>1, <1>15 DEF Call, ListApiKeys, WaitsFor
  <2> HIDE DEF new
  <2>3. \A d \in Calls : call'[d] = IF d = c THEN new ELSE call[d]
    BY <1>1, <2>1
  <2>4. AnswersTell'
    <3>1. keys' = keys
      BY <1>15 DEF ListApiKeys
    <3>2. \A d \in Calls : Tells(IF d = c THEN keys ELSE call[d].list, keys)
      BY DEF KeysInv, AnswersTell, Tells
    <3>3. \A d \in Calls : Tells(call'[d].list, keys)
      BY <2>2, <2>3, <3>2
    <3>4. \A d \in Calls :
            /\ call'[d].op = "none" => call'[d].stage = "sent"
            /\ call'[d].op = "create" /\ call'[d].stage = "stored"
                 => call'[d].key \in Keys /\ keys[call'[d].key] # "absent"
      BY <2>2, <2>3 DEF KeysInv, AnswersTell
    <3> QED
      BY <3>1, <3>3, <3>4 DEF AnswersTell, Tells
  <2>5. KeyTypeOK'
    BY <1>1, <1>15, <2>1, <2>2 DEF ListApiKeys, KeyTypeOK
  <2> QED
    BY <1>15, <2>4, <2>5 DEF ListApiKeys, KeysInv, PageTellsStore
<1>16. CASE UNCHANGED keyVars
  BY <1>16 DEF keyVars, KeysInv, KeyTypeOK, AnswersTell, Tells, PageTellsStore
<1> QED
  BY <1>5, <1>6, <1>7, <1>8, <1>9, <1>10, <1>11, <1>12, <1>13, <1>14, <1>15,
     <1>16 DEF KeyNext

\* The store, the page and its calls have their types, and the page shows
\* nothing that is not so, in whatever order the answers arrive.
THEOREM PageTells == KeySpec => [](KeyTypeOK /\ PageTellsStore)
<1>1. KeysInv => KeyTypeOK /\ PageTellsStore
  BY DEF KeysInv
<1> QED
  BY <1>1, KeysInit, KeysStep, PTL DEF KeySpec

-----------------------------------------------------------------------------
(***************************************************************************)
(* An agent is told only of what its key grants, for every set of projects *)
(* and of agents.  The types and the grant are inductive once the list     *)
(* retrieval was asked with is known to stay within the grant.             *)
(***************************************************************************)

\* A request that retrieval works on asks for projects of the grant, and for
\* some of them if the grant names any.
AskedWithinGrant ==
    \A a \in Agents :
      request[a].stage = "asked" /\ granted[a] # {}
        => request[a].asked # {} /\ request[a].asked \subseteq granted[a]

AccessInv == AgentTypeOK /\ AskedWithinGrant /\ ToldWithinGrant

\* What a step does to one agent's request keeps the invariant if the new
\* request keeps it.
LEMMA AskBecoming ==
    ASSUME AccessInv, KeepKeys, used' \in [Agents -> BOOLEAN],
           NEW a \in Agents, NEW r \in AgentRequest, RequestBecomes(a, r),
           granted[a] # {} => /\ r.told \subseteq granted[a]
                              /\ r.stage = "asked" =>
                                   r.asked # {} /\ r.asked \subseteq granted[a]
    PROVE  AccessInv'
<1>1. \A b \in Agents : request'[b] = IF b = a THEN r ELSE request[b]
  BY DEF AccessInv, AgentTypeOK, RequestBecomes
<1>2. AgentTypeOK'
  BY DEF AccessInv, AgentTypeOK, RequestBecomes, KeepKeys
<1>3. AskedWithinGrant'
  BY <1>1 DEF AccessInv, AskedWithinGrant, KeepKeys
<1>4. ToldWithinGrant'
  BY <1>1 DEF AccessInv, ToldWithinGrant, KeepKeys
<1> QED
  BY <1>2, <1>3, <1>4 DEF AccessInv

\* The list a key with a grant is constrained to is neither empty nor beyond
\* the grant.
LEMMA Constrained ==
    ASSUME AgentTypeOK, NEW a \in Agents, NEW ids \in SUBSET Projects,
           CanAccess(a, ids)
    PROVE  /\ ConstrainProjectIds(a, ids) \in SUBSET Projects
           /\ granted[a] # {} =>
                /\ ConstrainProjectIds(a, ids) # {}
                /\ ConstrainProjectIds(a, ids) \subseteq granted[a]
BY DEF AgentTypeOK, CanAccess, ConstrainProjectIds

LEMMA AccessInit == AgentInit => AccessInv
BY DEF AgentInit, AccessInv, AgentTypeOK, AskedWithinGrant, ToldWithinGrant,
       AgentRequest, NoRequest, Scopes

LEMMA AccessStep == AccessInv /\ [AgentNext]_agentVars => AccessInv'
<1> SUFFICES ASSUME AccessInv, [AgentNext]_agentVars PROVE AccessInv'
  OBVIOUS
<1> USE DEF AgentRequest, NoRequest
<1>1. ASSUME NEW a \in Agents PROVE request[a] \in AgentRequest
  BY DEF AccessInv, AgentTypeOK
<1>2. ASSUME NEW a \in Agents, UNCHANGED used
      PROVE used' \in [Agents -> BOOLEAN]
  BY <1>2 DEF AccessInv, AgentTypeOK
<1>3. CASE ServedChanges
  BY <1>3 DEF ServedChanges, AccessInv, AgentTypeOK, AskedWithinGrant,
              ToldWithinGrant
<1>4. ASSUME NEW a \in Agents, Revoke(a) PROVE AccessInv'
  BY <1>4 DEF Revoke, AccessInv, AgentTypeOK, AskedWithinGrant, ToldWithinGrant
<1>5. ASSUME NEW a \in Agents, NEW sc \in Scopes \cup {"verify"},
             NEW ids \in SUBSET Projects, RequireAgentAuth(a, sc, ids)
      PROVE  AccessInv'
  <2> DEFINE may == live[a] /\ (sc = "verify" \/ sc \in scopes[a])
             stage == IF ~may THEN "refused"
                      ELSE IF sc = "verify" THEN "answered"
                      ELSE "authorized"
             r == [NoRequest EXCEPT !.stage = stage, !.scope = sc,
                                    !.ids = ids]
  <2>1. RequestBecomes(a, r)
    BY <1>5 DEF RequireAgentAuth
  <2>2. stage \in {"refused", "answered", "authorized"}
    OBVIOUS
  <2> HIDE DEF stage
  <2>3. r \in AgentRequest /\ r.told = {} /\ r.stage # "asked"
    BY <2>2
  <2>4. used' \in [Agents -> BOOLEAN]
    BY <1>5 DEF RequireAgentAuth, AccessInv, AgentTypeOK
  <2> QED
    BY <1>5, <2>1, <2>3, <2>4, AskBecoming DEF RequireAgentAuth
<1>6. ASSUME NEW a \in Agents, Ask(a) PROVE AccessInv'
  <2> DEFINE ids == ConstrainProjectIds(a, request[a].ids)
             asks == CanAccess(a, request[a].ids) /\ ids \subseteq served
  <2>1. AgentTypeOK /\ request[a].ids \in SUBSET Projects
    BY <1>1 DEF AccessInv
  <2>2. granted[a] # {} => request[a].told \subseteq granted[a]
    BY DEF AccessInv, ToldWithinGrant
  <2>3. CASE asks
    <3> DEFINE r == [request[a] EXCEPT !.stage = "asked", !.asked = ids]
    <3>1. /\ ids \in SUBSET Projects
          /\ granted[a] # {} => ids # {} /\ ids \subseteq granted[a]
      BY <2>1, <2>3, Constrained
    <3>2. RequestBecomes(a, r)
      BY <1>6, <2>3 DEF Ask
    <3>3. /\ r \in AgentRequest /\ r.told = request[a].told /\ r.asked = ids
      BY <1>1, <3>1
    <3> QED
      BY <1>2, <1>6, <2>2, <3>1, <3>2, <3>3, AskBecoming DEF Ask
  <2>4. CASE ~asks
    <3> DEFINE r == [request[a] EXCEPT !.stage = "refused"]
    <3>1. RequestBecomes(a, r)
      BY <1>6, <2>4 DEF Ask
    <3>2. r \in AgentRequest /\ r.told = request[a].told /\ r.stage = "refused"
      BY <1>1
    <3> QED
      BY <1>2, <1>6, <2>2, <3>1, <3>2, AskBecoming DEF Ask
  <2> QED
    BY <2>3, <2>4
<1>7. ASSUME NEW a \in Agents, Retrieve(a) PROVE AccessInv'
  <2> DEFINE sought == IF request[a].asked = {} THEN served
                       ELSE request[a].asked \cap served
  <2>1. PICK found \in SUBSET sought, stage \in {"answered", "refused"} :
          RequestBecomes(a, [request[a] EXCEPT !.stage = stage,
                        !.told = IF stage = "answered" THEN found ELSE {}])
    BY <1>7 DEF Retrieve
  <2> DEFINE r == [request[a] EXCEPT !.stage = stage,
                     !.told = IF stage = "answered" THEN found ELSE {}]
  <2>2. granted[a] # {} => sought \subseteq granted[a]
    BY <1>7 DEF Retrieve, AccessInv, AskedWithinGrant
  <2>3. sought \in SUBSET Projects
    BY <1>1 DEF AccessInv, AgentTypeOK
  <2>4. /\ r \in AgentRequest /\ r.stage # "asked"
        /\ r.told \subseteq sought
    BY <1>1, <2>3
  <2> QED
    BY <1>2, <1>7, <2>1, <2>2, <2>4, AskBecoming DEF Retrieve
<1>8. ASSUME NEW a \in Agents, ReadDocuments(a) PROVE AccessInv'
  <2> DEFINE granting == CanAccess(a, request[a].ids)
                         /\ request[a].ids \subseteq served
             yes == [request[a] EXCEPT !.stage = "answered",
                                       !.told = request[a].ids]
             no == [request[a] EXCEPT !.stage = "refused"]
  <2>1. /\ yes \in AgentRequest /\ yes.stage # "asked"
        /\ yes.told = request[a].ids
        /\ no \in AgentRequest /\ no.stage # "asked"
        /\ no.told = request[a].told
    BY <1>1
  <2>2. CASE granting
    <3>1. RequestBecomes(a, yes)
      BY <1>8, <2>2 DEF ReadDocuments
    <3>2. granted[a] # {} => yes.told \subseteq granted[a]
      BY <2>1, <2>2 DEF CanAccess
    <3> QED
      BY <1>2, <1>8, <2>1, <3>1, <3>2, AskBecoming DEF ReadDocuments
  <2>3. CASE ~granting
    <3>1. RequestBecomes(a, no)
      BY <1>8, <2>3 DEF ReadDocuments
    <3>2. granted[a] # {} => no.told \subseteq granted[a]
      BY <2>1 DEF AccessInv, ToldWithinGrant
    <3> QED
      BY <1>2, <1>8, <2>1, <3>1, <3>2, AskBecoming DEF ReadDocuments
  <2> QED
    BY <2>2, <2>3
<1>9. ASSUME NEW a \in Agents, ListProjects(a) PROVE AccessInv'
  <2> DEFINE told == {p \in served : CanAccess(a, {p})}
             r == [request[a] EXCEPT !.stage = "answered", !.told = told]
  <2>1. RequestBecomes(a, r)
    BY <1>9 DEF ListProjects
  <2>2. told \in SUBSET Projects
    BY DEF AccessInv, AgentTypeOK
  <2>3. r \in AgentRequest /\ r.stage # "asked" /\ r.told = told
    BY <1>1, <2>2
  <2>4. granted[a] # {} => told \subseteq granted[a]
    BY DEF CanAccess
  <2> QED
    BY <1>2, <1>9, <2>1, <2>3, <2>4, AskBecoming DEF ListProjects
<1>10. ASSUME NEW a \in Agents, RefuseAgent(a) PROVE AccessInv'
  <2> DEFINE r == [request[a] EXCEPT !.stage = "refused"]
  <2>1. RequestBecomes(a, r)
    BY <1>10 DEF RefuseAgent
  <2>2. /\ r \in AgentRequest /\ r.stage # "asked"
        /\ granted[a] # {} => r.told \subseteq granted[a]
    BY <1>1 DEF AccessInv, ToldWithinGrant
  <2> QED
    BY <1>2, <1>10, <2>1, <2>2, AskBecoming DEF RefuseAgent
<1>11. ASSUME NEW a \in Agents, Done(a) PROVE AccessInv'
  <2>1. NoRequest \in AgentRequest /\ NoRequest.told = {}
    OBVIOUS
  <2> QED
    BY <1>2, <1>11, <2>1, AskBecoming DEF Done
<1>12. CASE UNCHANGED agentVars
  BY <1>12
  DEF agentVars, AccessInv, AgentTypeOK, AskedWithinGrant, ToldWithinGrant
<1> QED
  BY <1>3, <1>4, <1>5, <1>6, <1>7, <1>8, <1>9, <1>10, <1>11, <1>12
  DEF AgentNext

\* The requests of agents have their types, and an agent is told only of
\* projects its key grants.
THEOREM GrantKept == AgentSpec => [](AgentTypeOK /\ ToldWithinGrant)
<1>1. AccessInv => AgentTypeOK /\ ToldWithinGrant
  BY DEF AccessInv
<1> QED
  BY <1>1, AccessInit, AccessStep, PTL DEF AgentSpec

-----------------------------------------------------------------------------
(*****************************************************************************)
(* The MCP gateway leaves nothing behind: no tool of an answered request     *)
(* goes on, no session counts a request that has ended, no more sessions     *)
(* exist than allowed and none is open after the shutdown.                   *)
(*****************************************************************************)

\* What NoOrphanTool and NoPinnedSession need to be inductive.  A running tool
\* belongs to a call the transport holds, whose handler waits for it; nobody
\* else ends the response of a request in the handshake, for neither a
\* cancellation nor a closing session finds it.
ToolHeld(q) ==
    /\ q.tool = "running" => /\ q.res = "open" /\ q.pc = "run" /\ q.disp
                             /\ q.kind \in {"call", "stateless"}
    /\ q.tool # "none" => q.pc \in {"run", "end"}
    /\ q.disp => q.pc = "run"
    /\ q.pend => q.kind = "call"
    /\ q.pc = "body" => q.kind = "none"
    /\ q.pc = "handshake" => q.kind = "init" /\ q.res = "open"

Entries == {s \in Slots : sess[s] # "none"}

GatewayInv ==
    /\ McpTypeOK
    /\ \A r \in Reqs : ToolHeld(req[r])
    /\ NoPinnedSession /\ NoSessionAfterShutdown /\ SessionCapacity

\* The number of entries does not grow while entries only leave.
LEMMA FewerEntries ==
    ASSUME IsFiniteSet(Slots), MaxSessions \in Nat, SessionCapacity,
           Entries' \subseteq Entries
    PROVE  SessionCapacity'
<1>1. IsFiniteSet(Entries)
  BY FS_Subset DEF Entries
<1>2. IsFiniteSet(Entries') /\ Cardinality(Entries') <= Cardinality(Entries)
  BY <1>1, FS_Subset
<1>3. Cardinality(Entries) \in Nat /\ Cardinality(Entries') \in Nat
  BY <1>1, <1>2, FS_CardinalityType
<1> QED
  BY <1>2, <1>3 DEF SessionCapacity, Entries

\* ResponseGiven a request changes its response only.
LEMMA ResponseGiven ==
    ASSUME NEW q \in Request
    PROVE  /\ Answered(q) \in Request
           /\ Answered(q).tool = q.tool /\ Answered(q).att = q.att
           /\ Answered(q).pc = q.pc /\ Answered(q).abort = q.abort
           /\ Answered(q).kind = q.kind /\ Answered(q).pend = q.pend
           /\ Answered(q).disp = q.disp
BY DEF Answered, Request

\* Closing entries ends responses together with their tools and leaves what
\* is attached as it is.
LEMMA Closing ==
    ASSUME NEW S, NEW rq \in [Reqs -> Request],
           \A r \in Reqs : ToolHeld(rq[r])
    PROVE  /\ Closed(S, rq) \in [Reqs -> Request]
           /\ \A r \in Reqs : /\ ToolHeld(Closed(S, rq)[r])
                              /\ Closed(S, rq)[r].att = rq[r].att
<1> SUFFICES ASSUME NEW r \in Reqs
             PROVE  /\ Closed(S, rq)[r] \in Request
                    /\ ToolHeld(Closed(S, rq)[r])
                    /\ Closed(S, rq)[r].att = rq[r].att
  BY DEF Closed
<1> DEFINE q == rq[r]
           shut == [Answered(q) EXCEPT !.pend = FALSE, !.abort = @ \/ q.pend,
                                       !.tool = Stop(@)]
<1>1. q \in Request /\ ToolHeld(q)
  OBVIOUS
<1>2. /\ Stop(q.tool) \in {"none", "aborted"}
      /\ q.tool = "none" => Stop(q.tool) = "none"
  BY <1>1 DEF Stop, Request
<1>3. /\ Answered(q) \in Request /\ Answered(q).tool = q.tool
      /\ Answered(q).att = q.att /\ Answered(q).pc = q.pc
      /\ Answered(q).kind = q.kind /\ Answered(q).disp = q.disp
  BY <1>1, ResponseGiven
<1>4. ASSUME q.pend \/ q.disp
      PROVE  shut \in Request /\ ToolHeld(shut) /\ shut.att = q.att
  <2>1. /\ shut.tool = Stop(q.tool) /\ shut.att = q.att
        /\ shut.pc = q.pc /\ shut.kind = q.kind /\ shut.disp = q.disp
        /\ shut.pend = FALSE
    BY <1>3 DEF Request
  <2>2. (Answered(q).abort \/ q.pend) \in BOOLEAN
    OBVIOUS
  <2>3. shut \in Request
    BY ZenonT(30), <1>2, <1>3, <2>2 DEF Request
  <2>4. q.pc # "handshake"
    BY <1>1, <1>4 DEF ToolHeld
  <2>5. ToolHeld(shut)
    BY <1>1, <1>2, <2>1, <2>4 DEF ToolHeld
  <2> QED
    BY <2>1, <2>3, <2>5
<1>5. \/ Closed(S, rq)[r] = shut /\ (q.pend \/ q.disp)
      \/ Closed(S, rq)[r] = q
  BY DEF Closed
<1> QED
  BY <1>1, <1>4, <1>5

\* What every step through Becomes keeps: it attaches only requests whose
\* response was open, and detaches those whose response ends.
LEMMA Becoming ==
    ASSUME IsFiniteSet(Slots), MaxSessions \in Nat, GatewayInv,
           NEW rq0 \in [Reqs -> Request], NEW S, Becomes(rq0, S),
           mode' = mode, shuttingDown' \in BOOLEAN,
           shuttingDown' => shuttingDown \/ Open \subseteq S,
           \A r \in Reqs : /\ ToolHeld(rq0[r])
                           /\ rq0[r].att => req[r].res = "open"
    PROVE  GatewayInv'
<1> DEFINE rq == Closed(S, rq0)
           shut == S \cup Lapsed(rq)
           rq2 == Closed(shut, rq)
<1>1. /\ rq \in [Reqs -> Request]
      /\ \A r \in Reqs : ToolHeld(rq[r]) /\ rq[r].att = rq0[r].att
  BY Closing
<1>2. /\ rq2 \in [Reqs -> Request]
      /\ \A r \in Reqs : ToolHeld(rq2[r]) /\ rq2[r].att = rq[r].att
  BY <1>1, Closing
<1>3. /\ sess' = [s \in Slots |-> IF s \in shut THEN "none" ELSE sess[s]]
      /\ expired' = expired \ (shut \cup Refreshed(rq))
      /\ req' = [r \in Reqs |-> IF r \in Finishing(rq2)
                                  THEN [rq2[r] EXCEPT !.att = FALSE]
                                  ELSE rq2[r]]
  BY DEF Becomes
<1> HIDE DEF rq2, rq
<1>4. ASSUME NEW r \in Reqs
      PROVE  /\ req'[r] \in Request /\ ToolHeld(req'[r])
             /\ req'[r].att => req'[r].res = "open"
  <2>1. CASE r \in Finishing(rq2)
    <3>1. req'[r] = [rq2[r] EXCEPT !.att = FALSE]
      BY <1>3, <2>1
    <3>2. rq2[r] \in Request /\ ToolHeld(rq2[r])
      BY <1>2
    <3>3. req'[r] \in Request /\ req'[r].att = FALSE
      BY <3>1, <3>2 DEF Request
    <3>4. /\ req'[r].tool = rq2[r].tool /\ req'[r].res = rq2[r].res
          /\ req'[r].pc = rq2[r].pc /\ req'[r].disp = rq2[r].disp
          /\ req'[r].kind = rq2[r].kind /\ req'[r].pend = rq2[r].pend
      BY <3>1, <3>2 DEF Request
    <3>5. ToolHeld(req'[r])
      BY <3>2, <3>4 DEF ToolHeld
    <3> QED
      BY <3>3, <3>5
  <2>2. CASE r \notin Finishing(rq2)
    <3>1. req'[r] = rq2[r]
      BY <1>3, <2>2
    <3>2. rq2[r].att => rq2[r].res = "open"
      BY <1>1, <1>2, <2>2 DEF Finishing
    <3> QED
      BY <1>2, <3>1, <3>2
  <2> QED
    BY <2>1, <2>2
<1>5. McpTypeOK'
  BY <1>3, <1>4 DEF GatewayInv, McpTypeOK
<1>6. NoPinnedSession'
  BY <1>4 DEF NoPinnedSession
<1>7. Entries' \subseteq Entries
  BY <1>3 DEF Entries
<1>8. Open' \subseteq Open \ S
  BY <1>3 DEF Open
<1>9. NoSessionAfterShutdown'
  BY <1>8 DEF GatewayInv, NoSessionAfterShutdown
<1> QED
  BY <1>4, <1>5, <1>6, <1>7, <1>9, FewerEntries DEF GatewayInv

\* ... when only one request changes by itself.
LEMMA OneBecomes ==
    ASSUME IsFiniteSet(Slots), MaxSessions \in Nat, GatewayInv,
           NEW r \in Reqs, NEW q \in Request, NEW S,
           Becomes([req EXCEPT ![r] = q], S), Keep,
           ToolHeld(q), q.att => req[r].res = "open"
    PROVE  GatewayInv'
<1> DEFINE rq0 == [req EXCEPT ![r] = q]
<1>1. rq0 \in [Reqs -> Request] /\ \A p \in Reqs : rq0[p] = IF p = r THEN q
                                                            ELSE req[p]
  BY DEF GatewayInv, McpTypeOK
<1>2. shuttingDown \in BOOLEAN
  BY DEF GatewayInv, McpTypeOK
<1> QED
  BY <1>1, <1>2, Becoming DEF Keep, GatewayInv, NoPinnedSession

\* ... or when no response can end.
LEMMA OneChanges ==
    ASSUME GatewayInv, NEW r \in Reqs, NEW q \in Request,
           req' = [req EXCEPT ![r] = q], KeepSessions,
           ToolHeld(q), q.att => q.res = "open"
    PROVE  GatewayInv'
<1>1. McpTypeOK'
  BY DEF GatewayInv, McpTypeOK, KeepSessions
<1>2. \A p \in Reqs : req'[p] = IF p = r THEN q ELSE req[p]
  BY DEF GatewayInv, McpTypeOK
<1> QED
  BY <1>1, <1>2 DEF GatewayInv, KeepSessions, NoPinnedSession,
                    NoSessionAfterShutdown, SessionCapacity, Open

\* What is known of the request of a step.
LEMMA Known ==
    ASSUME GatewayInv, NEW r \in Reqs
    PROVE  /\ req[r] \in Request /\ ToolHeld(req[r])
           /\ req[r].att => req[r].res = "open"
           /\ req[r].pc # "run" => req[r].tool # "running"
           /\ Answered(req[r]) \in Request
           /\ Answered(req[r]).att = req[r].att
           /\ Answered(req[r]).tool = req[r].tool
           /\ Answered(req[r]).abort = req[r].abort
           /\ Answered(req[r]).pc = req[r].pc
           /\ Answered(req[r]).kind = req[r].kind
           /\ Answered(req[r]).pend = req[r].pend
           /\ Answered(req[r]).disp = req[r].disp
<1>1. req[r] \in Request /\ ToolHeld(req[r])
      /\ (req[r].att => req[r].res = "open")
  BY DEF GatewayInv, McpTypeOK, NoPinnedSession
<1>2. req[r].pc # "run" => req[r].tool # "running"
  BY <1>1 DEF ToolHeld
<1>3. /\ Answered(req[r]) \in Request
      /\ Answered(req[r]).att = req[r].att
      /\ Answered(req[r]).tool = req[r].tool
      /\ Answered(req[r]).abort = req[r].abort
      /\ Answered(req[r]).pc = req[r].pc
      /\ Answered(req[r]).kind = req[r].kind
      /\ Answered(req[r]).pend = req[r].pend
      /\ Answered(req[r]).disp = req[r].disp
  BY <1>1, ResponseGiven
<1> QED
  BY <1>1, <1>2, <1>3

\* A request is read and refused, or taken up.
LEMMA ReadingStep ==
    ASSUME IsFiniteSet(Slots), MaxSessions \in Nat, GatewayInv,
           NEW r \in Reqs,
           \/ Arrive(r) \/ Refuse(r) \/ HandleStateless(r) \/ HandleInit(r)
           \/ \E s \in Slots : HandleNotify(r, s) \/ HandleDelete(r, s)
           \/ \E s \in Slots, id \in Ids : HandleCall(r, s, id)
    PROVE  GatewayInv'
<1>1. /\ req[r] \in Request /\ (req[r].att => req[r].res = "open")
      /\ Answered(req[r]) \in Request
      /\ Answered(req[r]).att = req[r].att
      /\ Answered(req[r]).tool = req[r].tool
      /\ Answered(req[r]).pc = req[r].pc
      /\ Answered(req[r]).kind = req[r].kind
      /\ Answered(req[r]).pend = req[r].pend
      /\ Answered(req[r]).disp = req[r].disp
      /\ ToolHeld(req[r])
  BY Known
<1>2. req \in [Reqs -> Request]
  BY DEF GatewayInv, McpTypeOK
<1>3. CASE Arrive(r)
  <2> DEFINE q == [req[r] EXCEPT !.pc = "body", !.res = "open"]
  <2>0. /\ req[r].tool = "none" /\ req[r].kind = "none"
        /\ req[r].disp = FALSE /\ req[r].pend = FALSE
    BY <1>3 DEF Arrive, Idle
  <2>1. q \in Request /\ ToolHeld(q) /\ q.res = "open"
    BY <1>1, <2>0 DEF Request, ToolHeld
  <2>2. req' = [req EXCEPT ![r] = q] /\ KeepSessions
    BY <1>2, <1>3 DEF Arrive
  <2> QED
    BY <2>1, <2>2, OneChanges
<1>4. CASE Refuse(r)
  <2> DEFINE q == [Answered(req[r]) EXCEPT !.pc = "end"]
  <2>1. q \in Request /\ ToolHeld(q) /\ q.att = req[r].att
    BY <1>1, <1>4 DEF Refuse, Request, ToolHeld
  <2>2. Becomes([req EXCEPT ![r] = q], {}) /\ Keep
    BY <1>4 DEF Refuse
  <2> QED
    BY <1>1, <2>1, <2>2, OneBecomes
<1>5. CASE HandleStateless(r)
  <2> DEFINE q == [req[r] EXCEPT !.kind = "stateless", !.pc = "auth"]
  <2>1. /\ q \in Request /\ ToolHeld(q) /\ q.att = req[r].att
        /\ q.res = req[r].res
    BY <1>1, <1>5 DEF HandleStateless, Handled, Request, Kinds, ToolHeld
  <2>2. req' = [req EXCEPT ![r] = q] /\ KeepSessions
    BY <1>2, <1>5 DEF HandleStateless
  <2> QED
    BY <1>1, <2>1, <2>2, OneChanges
<1>6. CASE HandleInit(r)
  <2> DEFINE q == [req[r] EXCEPT !.kind = "init", !.pc = "auth"]
  <2>1. /\ q \in Request /\ ToolHeld(q) /\ q.att = req[r].att
        /\ q.res = req[r].res
    BY <1>1, <1>6 DEF HandleInit, Handled, Request, Kinds, ToolHeld
  <2>2. req' = [req EXCEPT ![r] = q] /\ KeepSessions
    BY <1>2, <1>6 DEF HandleInit
  <2> QED
    BY <1>1, <2>1, <2>2, OneChanges
<1>7. ASSUME NEW s \in Slots, HandleNotify(r, s) PROVE GatewayInv'
  <2> DEFINE q == [req[r] EXCEPT !.kind = "notify", !.pc = "auth", !.s = s]
  <2>1. /\ q \in Request /\ ToolHeld(q) /\ q.att = req[r].att
        /\ q.res = req[r].res
    BY <1>1, <1>7 DEF HandleNotify, Handled, Request, Kinds, ToolHeld
  <2>2. req' = [req EXCEPT ![r] = q] /\ KeepSessions
    BY <1>2, <1>7 DEF HandleNotify
  <2> QED
    BY <1>1, <2>1, <2>2, OneChanges
<1>8. ASSUME NEW s \in Slots, HandleDelete(r, s) PROVE GatewayInv'
  <2> DEFINE q == [req[r] EXCEPT !.kind = "delete", !.pc = "auth", !.s = s]
  <2>1. /\ q \in Request /\ ToolHeld(q) /\ q.att = req[r].att
        /\ q.res = req[r].res
    BY <1>1, <1>8 DEF HandleDelete, Handled, Request, Kinds, ToolHeld
  <2>2. req' = [req EXCEPT ![r] = q] /\ KeepSessions
    BY <1>2, <1>8 DEF HandleDelete
  <2> QED
    BY <1>1, <2>1, <2>2, OneChanges
<1>9. ASSUME NEW s \in Slots, NEW id \in Ids, HandleCall(r, s, id)
      PROVE  GatewayInv'
  <2> DEFINE q == [req[r] EXCEPT !.kind = "call", !.pc = "auth",
                            !.s = s, !.id = id, !.pend = TRUE]
  <2>1. /\ q \in Request /\ ToolHeld(q) /\ q.att = req[r].att
        /\ q.res = req[r].res
    BY <1>1, <1>9 DEF HandleCall, Handled, Request, Kinds, ToolHeld
  <2>2. req' = [req EXCEPT ![r] = q] /\ KeepSessions
    BY <1>2, <1>9 DEF HandleCall
  <2> QED
    BY <1>1, <2>1, <2>2, OneChanges
<1> QED
  BY <1>3, <1>4, <1>5, <1>6, <1>7, <1>8, <1>9

\* A request ends, or is told that it need not go on, before the transport has
\* it, or after.
LEMMA EndingStep ==
    ASSUME IsFiniteSet(Slots), MaxSessions \in Nat, GatewayInv,
           NEW r \in Reqs,
           \/ AuthLate(r) \/ RefuseSession(r) \/ AuthDenied(r)
           \/ AuthAborted(r) \/ SessionRefused(r) \/ ToolSettles(r)
           \/ Respond(r) \/ Return(r) \/ Deadline(r) \/ Disconnect(r)
    PROVE  GatewayInv'
<1>1. /\ req[r] \in Request /\ (req[r].att => req[r].res = "open")
      /\ Answered(req[r]) \in Request
      /\ Answered(req[r]).att = req[r].att
      /\ Answered(req[r]).tool = req[r].tool
      /\ Answered(req[r]).abort = req[r].abort
      /\ Answered(req[r]).pc = req[r].pc
      /\ Answered(req[r]).kind = req[r].kind
      /\ Answered(req[r]).pend = req[r].pend
      /\ Answered(req[r]).disp = req[r].disp
      /\ ToolHeld(req[r])
  BY Known
<1>2. req \in [Reqs -> Request]
  BY DEF GatewayInv, McpTypeOK
<1>3. CASE AuthLate(r)
  <2> DEFINE q == [Answered(req[r]) EXCEPT !.pc = "end"]
  <2>1. q \in Request /\ ToolHeld(q) /\ q.att = req[r].att
    BY <1>1, <1>3 DEF AuthLate, Authenticated, Stop, Request, ToolHeld
  <2>2. Becomes([req EXCEPT ![r] = q], {}) /\ Keep
    BY <1>2, <1>3 DEF AuthLate
  <2> QED
    BY <1>1, <2>1, <2>2, OneBecomes
<1>4. CASE RefuseSession(r)
  <2> DEFINE q == [Answered(req[r]) EXCEPT !.pc = "end"]
  <2>1. q \in Request /\ ToolHeld(q) /\ q.att = req[r].att
    BY <1>1, <1>4 DEF RefuseSession, Authenticated, Stop, Request, ToolHeld
  <2>2. Becomes([req EXCEPT ![r] = q], Idling) /\ Keep
    BY <1>2, <1>4 DEF RefuseSession
  <2> QED
    BY <1>1, <2>1, <2>2, OneBecomes
<1>5. CASE AuthDenied(r)
  <2> DEFINE q == [Answered(req[r]) EXCEPT !.pc = "end", !.pend = FALSE]
  <2>1. q \in Request /\ ToolHeld(q) /\ q.att = req[r].att
    BY <1>1, <1>5 DEF AuthDenied, Authenticated, Request, ToolHeld
  <2>2. PICK S : Becomes([req EXCEPT ![r] = q], S)
    BY <1>5 DEF AuthDenied
  <2> QED
    BY <1>1, <1>5, <2>1, <2>2, OneBecomes DEF AuthDenied
<1>6. CASE AuthAborted(r)
  <2> DEFINE q == [req[r] EXCEPT !.pc = "end", !.pend = FALSE]
  <2>1. q \in Request /\ ToolHeld(q) /\ q.att = req[r].att
    BY ZenonT(30), <1>1, <1>6
       DEF AuthAborted, Authenticated, Stop, Request, ToolHeld
  <2>2. Becomes([req EXCEPT ![r] = q], {}) /\ Keep
    BY <1>2, <1>6 DEF AuthAborted
  <2> QED
    BY <1>1, <2>1, <2>2, OneBecomes
<1>7. CASE SessionRefused(r)
  <2> DEFINE q == [Answered(req[r]) EXCEPT !.pc = "end"]
  <2>1. q \in Request /\ ToolHeld(q) /\ q.att = req[r].att
    BY <1>1, <1>7 DEF SessionRefused, Authenticated, Stop, Request, ToolHeld
  <2>2. Becomes([req EXCEPT ![r] = q], {req[r].s}) /\ Keep
    BY <1>2, <1>7 DEF SessionRefused
  <2> QED
    BY <1>1, <2>1, <2>2, OneBecomes
<1>8. CASE ToolSettles(r)
  <2> DEFINE q == [Answered(req[r]) EXCEPT !.tool = "none"]
  <2>1. q \in Request /\ ToolHeld(q) /\ q.att = req[r].att
    BY <1>1, <1>8 DEF ToolSettles, Authenticated, Stop, Request, ToolHeld
  <2>2. Becomes([req EXCEPT ![r] = q], {}) /\ Keep
    BY <1>2, <1>8 DEF ToolSettles
  <2> QED
    BY <1>1, <2>1, <2>2, OneBecomes
<1>9. CASE Respond(r)
  <2>1. ToolHeld(Answered(req[r]))
    BY <1>1, <1>9 DEF Respond, ToolHeld
  <2>2. Becomes([req EXCEPT ![r] = Answered(req[r])], {}) /\ Keep
    BY <1>9 DEF Respond
  <2> QED
    BY <1>1, <2>1, <2>2, OneBecomes
<1>10. CASE Return(r)
  <2> DEFINE q == [req[r] EXCEPT !.pc = "end", !.pend = FALSE, !.disp = FALSE]
  <2>1. req[r].tool # "running"
    BY <1>1, <1>10 DEF Return, ToolHeld
  <2>2. q \in Request /\ ToolHeld(q) /\ q.att = req[r].att
    <3>1. req[r] \in Request
      BY <1>1
    <3>2. /\ q.tool = req[r].tool /\ q.att = req[r].att /\ q.pc = "end"
          /\ q.disp = FALSE /\ q.pend = FALSE
      BY <3>1 DEF Request
    <3>3. q \in Request
      BY <3>1, <2>1 DEF Request
    <3> QED
      BY <2>1, <3>2, <3>3 DEF ToolHeld
  <2>3. Becomes([req EXCEPT ![r] = q], {}) /\ Keep
    BY <1>2, <1>10 DEF Return
  <2> QED
    BY <1>1, <2>2, <2>3, OneBecomes
<1>11. CASE Deadline(r)
  <2> DEFINE q == [Answered(req[r]) EXCEPT !.abort = TRUE, !.pc = Left(r)]
  <2>1. q \in Request /\ ToolHeld(q) /\ q.att = req[r].att
    BY ZenonT(30), <1>1, <1>11 DEF Deadline, Left, Request, ToolHeld
  <2>2. Becomes([req EXCEPT ![r] = q], {}) /\ Keep
    BY <1>1, <1>11 DEF Deadline
  <2> QED
    BY <1>1, <2>1, <2>2, OneBecomes
<1>12. CASE Disconnect(r)
  <2> DEFINE q == [req[r] EXCEPT !.res = "gone", !.abort = TRUE,
                                 !.tool = Stop(req[r].tool), !.pc = Left(r)]
  <2>1. /\ Stop(req[r].tool) \in {"none", "aborted"}
        /\ req[r].tool = "none" => Stop(req[r].tool) = "none"
    BY <1>1 DEF Stop, Request
  <2>2. q \in Request /\ ToolHeld(q) /\ q.att = req[r].att
    <3>1. req[r] \in Request
      BY <1>1
    <3>2. /\ q.tool = Stop(req[r].tool) /\ q.att = req[r].att
          /\ q.pc = Left(r) /\ q.kind = req[r].kind
          /\ q.disp = req[r].disp /\ q.pend = req[r].pend
      BY <3>1 DEF Request
    <3>3. q \in Request
      BY ZenonT(30), <3>1, <2>1 DEF Left, Request
    <3>4. ToolHeld(q)
      BY <1>1, <1>12, <2>1, <3>2 DEF Disconnect, Left, ToolHeld
    <3> QED
      BY <3>2, <3>3, <3>4
  <2>3. Becomes([req EXCEPT ![r] = q], {}) /\ Keep
    BY <1>2, <1>12 DEF Disconnect
  <2> QED
    BY <1>1, <2>2, <2>3, OneBecomes
<1> QED
  BY <1>3, <1>4, <1>5, <1>6, <1>7, <1>8, <1>9, <1>10, <1>11, <1>12

\* A tool that starts to run belongs to a call or a stateless request.
LEMMA Running ==
    ASSUME GatewayInv, NEW r \in Reqs, Authenticated(r),
           req[r].kind \in {"call", "stateless"}
    PROVE  Ran(req[r]) \in Request /\ ToolHeld(Ran(req[r]))
<1> DEFINE taken == [req[r] EXCEPT !.pc = "run", !.att = TRUE, !.disp = TRUE]
           runs == [taken EXCEPT !.tool = "running"]
<1>1. req[r] \in Request /\ ToolHeld(req[r]) /\ req[r].tool # "running"
  BY Known DEF Authenticated
<1>2. /\ taken \in Request /\ taken.tool = req[r].tool
      /\ taken.res = req[r].res /\ taken.pc = "run" /\ taken.disp
      /\ taken.kind = req[r].kind /\ taken.pend = req[r].pend
  BY <1>1 DEF Request
<1> HIDE DEF taken
<1>3. /\ Answered(taken) \in Request /\ Answered(taken).tool = req[r].tool
      /\ Answered(taken).pc = "run" /\ Answered(taken).disp
      /\ Answered(taken).kind = req[r].kind
      /\ Answered(taken).pend = req[r].pend
  BY <1>2, ResponseGiven
<1>4. ToolHeld(Answered(taken))
  BY <1>1, <1>3 DEF ToolHeld
<1>5. /\ runs \in Request /\ runs.tool = "running" /\ runs.pc = "run"
      /\ runs.kind = taken.kind /\ runs.pend = taken.pend
      /\ runs.disp = taken.disp /\ runs.res = taken.res
  BY <1>2 DEF Request
<1>6. ToolHeld(runs)
  BY <1>1, <1>2, <1>5 DEF ToolHeld, Authenticated
<1>7. Ran(req[r]) \in {Answered(taken), runs}
  BY DEF Ran, taken
<1> QED
  BY <1>3, <1>4, <1>5, <1>6, <1>7

\* The key is good: the transport takes the request.
LEMMA DispatchStep ==
    ASSUME IsFiniteSet(Slots), MaxSessions \in Nat, GatewayInv,
           NEW r \in Reqs,
           \/ DispatchCall(r) \/ DispatchStateless(r)
           \/ DispatchNotify(r) \/ DispatchDelete(r)
    PROVE  GatewayInv'
<1>1. /\ req[r] \in Request /\ ToolHeld(req[r])
      /\ req[r].tool # "running" /\ req[r].res = "open"
  BY Known DEF DispatchCall, DispatchStateless, DispatchNotify,
               DispatchDelete, Authenticated
<1>2. req \in [Reqs -> Request]
  BY DEF GatewayInv, McpTypeOK
<1> DEFINE q == [req[r] EXCEPT !.pc = "run", !.att = TRUE]
<1>3. q \in Request /\ ToolHeld(q)
  BY <1>1 DEF Request, ToolHeld
<1>4. CASE DispatchCall(r) \/ DispatchStateless(r)
  <2>1. /\ Becomes([req EXCEPT ![r] = Ran(req[r])], {}) /\ Keep
        /\ Ran(req[r]) \in Request /\ ToolHeld(Ran(req[r]))
    BY <1>4, Running DEF DispatchCall, DispatchStateless
  <2> QED
    BY <1>1, <2>1, OneBecomes
<1>5. CASE DispatchNotify(r)
  <2>1. Becomes([req EXCEPT ![r] = q], {}) /\ Keep
    BY <1>2, <1>5 DEF DispatchNotify
  <2> QED
    BY <1>1, <1>3, <2>1, OneBecomes
<1>6. CASE DispatchDelete(r)
  <2>1. Becomes([req EXCEPT ![r] = q], {req[r].s}) /\ Keep
    BY <1>2, <1>6 DEF DispatchDelete
  <2> QED
    BY <1>1, <1>3, <2>1, OneBecomes
<1> QED
  BY <1>4, <1>5, <1>6

\* A cancellation arrives, and takes effect.
LEMMA CancellationStep ==
    ASSUME IsFiniteSet(Slots), MaxSessions \in Nat, GatewayInv,
           NEW r \in Reqs,
           \/ \E s \in Slots, id \in Ids : HandleCancel(r, s, id)
           \/ FinishCancel(r)
    PROVE  GatewayInv'
<1>1. req \in [Reqs -> Request] /\ shuttingDown \in BOOLEAN
  BY DEF GatewayInv, McpTypeOK
<1>2. ASSUME NEW s \in Slots, NEW id \in Ids, HandleCancel(r, s, id)
      PROVE  GatewayInv'
  <2> DEFINE early == {p \in Pending(s, id) : ~req[p].disp}
             late == Pending(s, id) \ early
  <2>1. PICK h \in IF late = {} THEN {None} ELSE late :
          Becomes([p \in Reqs |->
                CASE p = r -> [req[p] EXCEPT !.kind = "cancel",
                                 !.pc = "cancel", !.s = s, !.id = id,
                                 !.att = TRUE, !.hit = h]
                  [] p # r /\ p \in early -> [Answered(req[p]) EXCEPT
                                       !.pend = FALSE, !.abort = TRUE]
                  [] OTHER -> req[p]], {})
    BY <1>2 DEF HandleCancel
  <2> DEFINE taken(p) == [req[p] EXCEPT !.kind = "cancel",
                            !.pc = "cancel", !.s = s, !.id = id,
                            !.att = TRUE, !.hit = h]
             ended(p) == [Answered(req[p]) EXCEPT !.pend = FALSE,
                                                  !.abort = TRUE]
             rq0 == [p \in Reqs |-> CASE p = r -> taken(p)
                                      [] p # r /\ p \in early -> ended(p)
                                      [] OTHER -> req[p]]
  <2>2. Becomes(rq0, {})
    BY <2>1
  <2>3. /\ taken(r) \in Request /\ ToolHeld(taken(r))
        /\ req[r].res = "open"
    <3>1. /\ req[r] \in Request /\ req[r].res = "open"
          /\ req[r].tool = "none" /\ req[r].disp = FALSE
          /\ req[r].pend = FALSE
      <4>1. /\ req[r] \in Request /\ ToolHeld(req[r]) /\ req[r].res = "open"
            /\ req[r].pc = "body"
        BY <1>2, Known DEF HandleCancel, Handled
      <4> QED
        BY <4>1 DEF ToolHeld, Request
    <3>2. h \in Reqs \cup {None}
      BY DEF Pending
    <3>3. /\ taken(r).tool = "none" /\ taken(r).pc = "cancel"
          /\ taken(r).disp = FALSE /\ taken(r).pend = FALSE
      BY <3>1 DEF Request
    <3>4. taken(r) \in Request
      BY <3>1, <3>2 DEF Request, Kinds
    <3> QED
      BY <3>1, <3>3, <3>4 DEF ToolHeld
  <2>4. ASSUME NEW p \in early
        PROVE  /\ ended(p) \in Request /\ ToolHeld(ended(p))
               /\ ended(p).att = req[p].att
    <3>1. p \in Reqs /\ ~req[p].disp /\ req[p].pend
      BY DEF Pending
    <3>2. /\ Answered(req[p]) \in Request
          /\ Answered(req[p]).att = req[p].att
          /\ Answered(req[p]).tool = req[p].tool
          /\ Answered(req[p]).pc = req[p].pc
          /\ Answered(req[p]).kind = req[p].kind
          /\ Answered(req[p]).disp = req[p].disp
          /\ ToolHeld(req[p])
      BY <3>1, Known
    <3>3. /\ ended(p).tool = req[p].tool /\ ended(p).att = req[p].att
          /\ ended(p).pc = req[p].pc /\ ended(p).kind = req[p].kind
          /\ ended(p).disp = req[p].disp /\ ended(p).pend = FALSE
      BY <3>2 DEF Request
    <3>4. ended(p) \in Request
      BY <3>2 DEF Request
    <3>5. ToolHeld(ended(p))
      BY <3>1, <3>2, <3>3 DEF ToolHeld
    <3> QED
      BY <3>3, <3>4, <3>5
  <2> HIDE DEF taken, ended, early
  <2>5. ASSUME NEW p \in Reqs
        PROVE  /\ rq0[p] \in Request /\ ToolHeld(rq0[p])
               /\ rq0[p].att => req[p].res = "open"
    <3>1. /\ req[p] \in Request /\ ToolHeld(req[p])
          /\ req[p].att => req[p].res = "open"
      BY Known
    <3>2. CASE p = r
      <4>1. rq0[p] = taken(r)
        BY <3>2
      <4> QED
        BY <2>3, <3>2, <4>1
    <3>3. CASE p # r /\ p \in early
      BY <2>4, <3>1, <3>3
    <3>4. CASE p # r /\ p \notin early
      BY <3>1, <3>4
    <3> QED
      BY <3>2, <3>3, <3>4
  <2>6. rq0 \in [Reqs -> Request]
    BY <2>5
  <2> HIDE DEF rq0
  <2> QED
    BY <1>1, <1>2, <2>2, <2>5, <2>6, Becoming DEF HandleCancel, Keep
<1>3. CASE FinishCancel(r)
  <2> DEFINE hit(p) == /\ req[r].hit # None /\ req[p].disp
                       /\ req[p].s = req[r].s /\ req[p].id = req[r].id
             over(p) == [Answered(req[p]) EXCEPT !.pc = "end"]
             stopped(p) == [Answered(req[p]) EXCEPT
                              !.tool = Stop(@),
                              !.abort = @ \/ p = req[r].hit]
             rq0 == [p \in Reqs |-> CASE p = r -> over(p)
                                      [] p # r /\ hit(p) -> stopped(p)
                                      [] OTHER -> req[p]]
  <2>1. Becomes(rq0, {}) /\ Keep
    BY <1>3 DEF FinishCancel
  <2>2. /\ over(r) \in Request /\ ToolHeld(over(r))
        /\ over(r).att = req[r].att
    <3>1. req[r].pc = "cancel"
      BY <1>3 DEF FinishCancel
    <3>2. /\ Answered(req[r]) \in Request /\ ToolHeld(req[r])
          /\ Answered(req[r]).tool = req[r].tool
          /\ Answered(req[r]).att = req[r].att
          /\ Answered(req[r]).disp = req[r].disp
          /\ Answered(req[r]).pend = req[r].pend
          /\ Answered(req[r]).kind = req[r].kind
      BY Known
    <3>3. /\ over(r) \in Request /\ over(r).pc = "end"
          /\ over(r).tool = req[r].tool /\ over(r).att = req[r].att
          /\ over(r).disp = req[r].disp /\ over(r).pend = req[r].pend
          /\ over(r).kind = req[r].kind
      BY <3>2 DEF Request
    <3> QED
      BY <3>1, <3>2, <3>3 DEF ToolHeld
  <2>3. ASSUME NEW p \in Reqs, req[p].disp
        PROVE  /\ stopped(p) \in Request /\ ToolHeld(stopped(p))
               /\ stopped(p).att = req[p].att
    <3>1. /\ Answered(req[p]) \in Request /\ ToolHeld(req[p])
          /\ Answered(req[p]).att = req[p].att
          /\ Answered(req[p]).tool = req[p].tool
          /\ Answered(req[p]).pc = req[p].pc
          /\ Answered(req[p]).kind = req[p].kind
          /\ Answered(req[p]).pend = req[p].pend
      BY Known
    <3>2. Stop(Answered(req[p]).tool) \in {"none", "aborted"}
      BY <3>1 DEF Stop, Request
    <3>3. (Answered(req[p]).abort \/ p = req[r].hit) \in BOOLEAN
      OBVIOUS
    <3>4. /\ stopped(p).tool = Stop(Answered(req[p]).tool)
          /\ stopped(p).att = req[p].att /\ stopped(p).pc = req[p].pc
          /\ stopped(p).kind = req[p].kind
          /\ stopped(p).pend = req[p].pend
      BY <3>1 DEF Request
    <3>5. stopped(p) \in Request
      BY <3>1, <3>2, <3>3 DEF Request
    <3>6. ToolHeld(stopped(p))
      BY <2>3, <3>1, <3>2, <3>4 DEF ToolHeld
    <3> QED
      BY <3>4, <3>5, <3>6
  <2> HIDE DEF over, stopped, hit
  <2>4. ASSUME NEW p \in Reqs
        PROVE  /\ rq0[p] \in Request /\ ToolHeld(rq0[p])
               /\ rq0[p].att => req[p].res = "open"
    <3>1. /\ req[p] \in Request /\ ToolHeld(req[p])
          /\ req[p].att => req[p].res = "open"
      BY Known
    <3>2. CASE p = r
      BY <2>2, <3>1, <3>2
    <3>3. CASE p # r /\ hit(p)
      <4>1. req[p].disp
        BY <3>3 DEF hit
      <4> QED
        BY <2>3, <3>1, <3>3, <4>1
    <3>4. CASE p # r /\ ~hit(p)
      BY <3>1, <3>4
    <3> QED
      BY <3>2, <3>3, <3>4
  <2>5. rq0 \in [Reqs -> Request]
    BY <2>4
  <2> HIDE DEF rq0
  <2> QED
    BY <1>1, <2>1, <2>4, <2>5, Becoming DEF Keep
<1> QED
  BY <1>2, <1>3

\* An entry is taken for a session that starts: there is one, for those that
\* idle have left.
LEMMA AdmissionStep ==
    ASSUME IsFiniteSet(Slots), MaxSessions \in Nat, GatewayInv,
           NEW r \in Reqs, StartSession(r)
    PROVE  GatewayInv'
<1> DEFINE q(s) == [req[r] EXCEPT !.pc = "handshake", !.s = s]
           rq0(s) == [req EXCEPT ![r] = q(s)]
<1>1. req \in [Reqs -> Request]
  BY DEF GatewayInv, McpTypeOK
<1>2. PICK s \in Slots :
        /\ sess[s] = "none"
        /\ sess' = [t \in Slots |-> IF t = s THEN "pending"
                                    ELSE IF t \in Idling THEN "none"
                                    ELSE sess[t]]
        /\ expired' = expired \ Idling
        /\ req' = Closed(Idling, rq0(s))
  BY <1>1 DEF StartSession
<1>3. /\ req[r] \in Request /\ ToolHeld(req[r]) /\ req[r].res = "open"
      /\ req[r].kind = "init" /\ req[r].pc = "auth"
  BY Known DEF StartSession, Authenticated
<1>4. /\ q(s) \in Request /\ ToolHeld(q(s))
      /\ q(s).att = req[r].att /\ q(s).s = s /\ q(s).res = "open"
  BY <1>3 DEF Request, ToolHeld
<1> HIDE DEF q
<1>5. \A p \in Reqs : rq0(s)[p] = IF p = r THEN q(s) ELSE req[p]
  BY <1>1
<1>6. /\ rq0(s) \in [Reqs -> Request]
      /\ \A p \in Reqs : ToolHeld(rq0(s)[p])
  BY <1>1, <1>4, <1>5, Known
<1> HIDE DEF rq0
<1>7. /\ req' \in [Reqs -> Request]
      /\ \A p \in Reqs : ToolHeld(req'[p]) /\ req'[p].att = rq0(s)[p].att
  BY <1>2, <1>6, Closing
<1>8. ASSUME NEW p \in Reqs, req'[p].att
      PROVE  req'[p].res = "open"
  <2>1. rq0(s)[p].att
    BY <1>7, <1>8
  <2>2. rq0(s)[p].s \notin Idling /\ rq0(s)[p].res = "open"
    <3>1. CASE p = r
      BY <1>2, <1>4, <1>5, <3>1 DEF Idling, Open
    <3>2. CASE p # r
      <4>1. req[p].att /\ rq0(s)[p] = req[p]
        BY <1>5, <2>1, <3>2
      <4>2. req[p].s \notin Idling
        BY <4>1 DEF Idling, InFlight
      <4> QED
        BY <4>1, <4>2, Known
    <3> QED
      BY <3>1, <3>2
  <2>3. req'[p] = rq0(s)[p]
    BY <1>2, <2>2 DEF Closed
  <2> QED
    BY <2>2, <2>3
<1>9. McpTypeOK'
  BY <1>2, <1>7 DEF GatewayInv, McpTypeOK, StartSession, Keep
<1>10. NoPinnedSession'
  BY <1>8 DEF NoPinnedSession
<1>11. NoSessionAfterShutdown'
  BY <1>2 DEF GatewayInv, NoSessionAfterShutdown, Open, StartSession, Keep
<1>12. SessionCapacity'
  <2>1. Entries' \subseteq Taken \cup {s}
    BY <1>2 DEF Entries, Taken
  <2>2. IsFiniteSet(Taken)
    BY FS_Subset DEF Taken
  <2>3. /\ IsFiniteSet(Taken \cup {s})
        /\ Cardinality(Taken \cup {s}) <= Cardinality(Taken) + 1
    <3>1. Cardinality(Taken) \in Nat
      BY <2>2, FS_CardinalityType
    <3>2. /\ IsFiniteSet(Taken \cup {s})
          /\ \/ Cardinality(Taken \cup {s}) = Cardinality(Taken)
             \/ Cardinality(Taken \cup {s}) = Cardinality(Taken) + 1
      BY <2>2, FS_AddElement
    <3> QED
      BY <3>1, <3>2
  <2>4. /\ IsFiniteSet(Entries')
        /\ Cardinality(Entries') <= Cardinality(Taken \cup {s})
    BY <2>1, <2>3, FS_Subset
  <2>5. /\ Cardinality(Taken) \in Nat /\ Cardinality(Entries') \in Nat
        /\ Cardinality(Taken \cup {s}) \in Nat
    BY <2>2, <2>3, <2>4, FS_CardinalityType
  <2>6. Cardinality(Taken) < MaxSessions
    BY DEF StartSession
  <2> QED
    BY <2>3, <2>4, <2>5, <2>6 DEF SessionCapacity, Entries
<1> QED
  BY <1>7, <1>9, <1>10, <1>11, <1>12 DEF GatewayInv

\* The transport has initialized the session, in time or too late.
LEMMA InitializedStep ==
    ASSUME IsFiniteSet(Slots), MaxSessions \in Nat, GatewayInv,
           NEW r \in Reqs, SessionInitialized(r)
    PROVE  GatewayInv'
<1>1. /\ req[r] \in Request /\ ToolHeld(req[r]) /\ req[r].pc = "handshake"
      /\ Answered(req[r]) \in Request
      /\ Answered(req[r]).att = req[r].att
      /\ Answered(req[r]).tool = req[r].tool
      /\ Answered(req[r]).kind = req[r].kind
      /\ Answered(req[r]).pend = req[r].pend
      /\ Answered(req[r]).disp = req[r].disp
      /\ req[r].att => req[r].res = "open"
  BY Known DEF SessionInitialized
<1>2. /\ req \in [Reqs -> Request]
      /\ sess \in [Slots -> {"none", "pending", "open"}]
  BY DEF GatewayInv, McpTypeOK
<1>3. /\ req[r].tool = "none" /\ req[r].kind = "init"
      /\ req[r].res = "open" /\ req[r].pend = FALSE
  BY <1>1 DEF ToolHeld, Request
<1>4. CASE sess[req[r].s] = "none" \/ shuttingDown
  <2> DEFINE q == [Answered(req[r]) EXCEPT !.pc = "run"]
  <2>1. q \in Request /\ ToolHeld(q) /\ q.att = req[r].att
    BY <1>1, <1>3 DEF Request, ToolHeld
  <2>2. Becomes([req EXCEPT ![r] = q], {req[r].s}) /\ Keep
    BY <1>4 DEF SessionInitialized
  <2> QED
    BY <1>1, <2>1, <2>2, OneBecomes
<1>5. CASE ~(sess[req[r].s] = "none" \/ shuttingDown)
  <2> DEFINE q == [req[r] EXCEPT !.pc = "run", !.att = TRUE, !.disp = TRUE]
  <2>1. q \in Request /\ ToolHeld(q) /\ q.res = "open"
    BY <1>1, <1>3 DEF Request, ToolHeld
  <2>2. /\ req' = [req EXCEPT ![r] = q]
        /\ sess' = [sess EXCEPT ![req[r].s] = "open"]
        /\ expired' = expired /\ Keep
    BY <1>2, <1>5 DEF SessionInitialized
  <2> HIDE DEF q
  <2>3. \A p \in Reqs : req'[p] = IF p = r THEN q ELSE req[p]
    BY <1>2, <2>2
  <2>4. Entries' \subseteq Entries
    BY <1>2, <1>5, <2>2 DEF Entries
  <2>5. McpTypeOK'
    BY <1>2, <2>1, <2>2 DEF GatewayInv, McpTypeOK, Keep
  <2>6. NoPinnedSession' /\ \A p \in Reqs : ToolHeld(req'[p])
    BY <2>1, <2>3 DEF GatewayInv, NoPinnedSession
  <2>7. NoSessionAfterShutdown'
    BY <1>5, <2>2 DEF NoSessionAfterShutdown, Keep
  <2> QED
    BY <2>4, <2>5, <2>6, <2>7, FewerEntries DEF GatewayInv
<1> QED
  BY <1>4, <1>5

\* Contexts are dropped, sessions expire, the gateway shuts down.
LEMMA LeavingStep ==
    ASSUME IsFiniteSet(Slots), MaxSessions \in Nat, GatewayInv,
           \/ \E r \in Reqs : Forget(r)
           \/ \E s \in Slots : TimePasses(s) \/ IdleTimer(s)
           \/ Shutdown
    PROVE  GatewayInv'
<1>1. /\ req \in [Reqs -> Request] /\ shuttingDown \in BOOLEAN
      /\ expired \subseteq Slots
  BY DEF GatewayInv, McpTypeOK
<1>2. ASSUME NEW r \in Reqs, Forget(r) PROVE GatewayInv'
  <2>1. Idle \in Request /\ ToolHeld(Idle) /\ ~Idle.att
    BY DEF Idle, Request, Kinds, ToolHeld
  <2> QED
    BY <1>2, <2>1, OneChanges DEF Forget
<1>3. ASSUME NEW s \in Slots, TimePasses(s) PROVE GatewayInv'
  <2>1. McpTypeOK'
    BY <1>3 DEF TimePasses, GatewayInv, McpTypeOK
  <2> QED
    BY <1>3, <2>1 DEF TimePasses, GatewayInv, NoPinnedSession, Open,
                      NoSessionAfterShutdown, SessionCapacity
<1>4. ASSUME NEW s \in Slots, IdleTimer(s) PROVE GatewayInv'
  <2>1. Becomes(req, {s}) /\ Keep
    BY <1>4 DEF IdleTimer
  <2>2. \A r \in Reqs : /\ ToolHeld(req[r])
                        /\ req[r].att => req[r].res = "open"
    BY Known
  <2> QED
    BY <1>1, <2>1, <2>2, Becoming DEF Keep
<1>5. CASE Shutdown
  <2> DEFINE stopped(r) == [Answered(req[r]) EXCEPT !.tool = Stop(@)]
             rq0 == [r \in Reqs |-> IF req[r].kind = "stateless" /\ req[r].disp
                                      THEN stopped(r) ELSE req[r]]
  <2>1. /\ Becomes(rq0, Entries) /\ mode' = mode /\ shuttingDown' = TRUE
    BY <1>5 DEF Shutdown, Entries
  <2>2. ASSUME NEW r \in Reqs, req[r].disp
        PROVE  /\ stopped(r) \in Request /\ ToolHeld(stopped(r))
               /\ stopped(r).att = req[r].att
    <3>1. /\ Answered(req[r]) \in Request /\ ToolHeld(req[r])
          /\ Answered(req[r]).att = req[r].att
          /\ Answered(req[r]).tool = req[r].tool
          /\ Answered(req[r]).pc = req[r].pc
          /\ Answered(req[r]).kind = req[r].kind
          /\ Answered(req[r]).pend = req[r].pend
      BY Known
    <3>2. Stop(Answered(req[r]).tool) \in {"none", "aborted"}
      BY <3>1 DEF Stop, Request
    <3>3. /\ stopped(r).tool = Stop(Answered(req[r]).tool)
          /\ stopped(r).att = req[r].att /\ stopped(r).pc = req[r].pc
          /\ stopped(r).kind = req[r].kind
          /\ stopped(r).pend = req[r].pend
      BY <3>1 DEF Request
    <3>4. stopped(r) \in Request
      BY <3>1, <3>2 DEF Request
    <3>5. ToolHeld(stopped(r))
      BY <2>2, <3>1, <3>2, <3>3 DEF ToolHeld
    <3> QED
      BY <3>3, <3>4, <3>5
  <2> HIDE DEF stopped
  <2>3. ASSUME NEW r \in Reqs
        PROVE  /\ rq0[r] \in Request /\ ToolHeld(rq0[r])
               /\ rq0[r].att => req[r].res = "open"
    BY <2>2, Known
  <2>4. rq0 \in [Reqs -> Request]
    BY <2>3
  <2> HIDE DEF rq0
  <2>5. Open \subseteq Entries
    BY DEF Open, Entries
  <2> QED
    BY <2>1, <2>3, <2>4, <2>5, Becoming
<1> QED
  BY <1>2, <1>3, <1>4, <1>5

LEMMA GatewayInit ==
    ASSUME MaxSessions \in Nat, McpInit
    PROVE  GatewayInv
<1>1. /\ Idle \in Request /\ ToolHeld(Idle) /\ ~Idle.att
  BY DEF Idle, Request, Kinds, ToolHeld
<1>2. McpTypeOK
  BY <1>1 DEF McpInit, McpTypeOK
<1>3. Entries = {} /\ Open = {}
  BY DEF McpInit, Entries, Open
<1>4. SessionCapacity
  BY <1>3, FS_EmptySet DEF SessionCapacity, Entries
<1> QED
  BY <1>1, <1>2, <1>3, <1>4
  DEF McpInit, GatewayInv, NoPinnedSession, NoSessionAfterShutdown

LEMMA GatewayStep ==
    ASSUME IsFiniteSet(Slots), MaxSessions \in Nat,
           GatewayInv, [McpNext]_mcpVars
    PROVE  GatewayInv'
<1>1. ASSUME NEW r \in Reqs, Handle(r) \/ Arrive(r)
      PROVE  GatewayInv'
  BY <1>1, ReadingStep, CancellationStep DEF Handle
<1>2. ASSUME NEW r \in Reqs, AuthAnswers(r)
      PROVE  GatewayInv'
  BY <1>2, EndingStep, DispatchStep, AdmissionStep DEF AuthAnswers
<1>3. ASSUME NEW r \in Reqs, Progress(r)
      PROVE  GatewayInv'
  BY <1>3, CancellationStep, EndingStep, InitializedStep DEF Progress
<1>4. ASSUME NEW r \in Reqs, Deadline(r) \/ Disconnect(r) \/ Forget(r)
      PROVE  GatewayInv'
  BY <1>4, EndingStep, LeavingStep
<1>5. CASE (\E s \in Slots : TimePasses(s) \/ IdleTimer(s)) \/ Shutdown
  BY <1>5, LeavingStep
<1>6. CASE UNCHANGED mcpVars
  BY <1>6 DEF mcpVars, GatewayInv, McpTypeOK, NoPinnedSession, SessionCapacity,
              NoSessionAfterShutdown, Open
<1> QED
  BY <1>1, <1>2, <1>3, <1>4, <1>5, <1>6 DEF McpNext

\* The gateway leaves nothing behind, however requests, cancellations, clients
\* that leave, expiries and the shutdown interleave.
LEMMA GatewayKept ==
    McpSpec => []GatewayInv
<1>1. MaxSessions \in Nat
  BY GatewayConfig
<1>2. McpInit => GatewayInv
  BY <1>1, GatewayInit
<1>3. GatewayInv /\ [McpNext]_mcpVars => GatewayInv'
  BY <1>1, SlotsFinite, GatewayStep
<1> QED
  BY <1>2, <1>3, PTL DEF McpSpec

\* A running tool has a client that waits for it, and an entry counts only
\* requests whose response is open: each way a response can end (an answer, a
\* client that leaves, a cancellation, a deletion, a refused key, an expiry, the
\* shutdown) aborts the tool and detaches the entry in the same step.
THEOREM ResponsesRelease ==
    McpSpec => [](McpTypeOK /\ NothingOutlivesItsResponse)
<1>1. GatewayInv => McpTypeOK /\ NothingOutlivesItsResponse
  BY DEF GatewayInv, NothingOutlivesItsResponse, NoOrphanTool, ToolHeld
<1> QED
  BY <1>1, GatewayKept, PTL

\* The entries, those still being initialized included, stay within
\* maxSessions, although the capacity is checked before the awaits of the
\* initialization and the entry opens after them.
THEOREM SessionsBounded ==
    McpSpec => []SessionCapacity
<1>1. GatewayInv => SessionCapacity
  BY DEF GatewayInv
<1> QED
  BY <1>1, GatewayKept, PTL

\* No session is open after closeMcpSessions, one on its way included.
THEOREM ShutdownCloses ==
    McpSpec => []NoSessionAfterShutdown
<1>1. GatewayInv => NoSessionAfterShutdown
  BY DEF GatewayInv
<1> QED
  BY <1>1, GatewayKept, PTL
=============================================================================
