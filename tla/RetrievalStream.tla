--------------------------- MODULE RetrievalStream ---------------------------
(***************************************************************************)
(* Reading a retrieval event stream: the server-sent events of the         *)
(* retrieval API as the web server (lib/retrieval-client.ts) and the MCP   *)
(* gateway (mcp-server.mjs) take them from the chunks of a response body.  *)
(*                                                                         *)
(* A text is a sequence of tokens: the line ends CR and LF, the data line  *)
(* of a progress event, of the result event, and a comment.  Chunks are    *)
(* cut anywhere, also inside a line end.                                   *)
(***************************************************************************)
EXTENDS Naturals, Sequences, SequencesExt, FiniteSetsExt

CONSTANTS MaxEvents   \* events in a stream (bound)

Data == {"progress", "result"}

\* What the writer puts after an event: the retrieval API an empty line, a
\* proxy on the way its own line ends.
LineEnds == {<<"lf", "lf">>, <<"cr", "lf", "cr", "lf">>, <<"lf", "cr", "lf">>}

VARIABLES
    wire,       \* the text not yet read
    buffer,     \* parserState.buffer
    scanFrom,   \* parserState.scanFrom, counted from 1
    sent,       \* the data events of the whole text
    delivered,  \* the events handed on, in order
    pc          \* "read", "scan", "flush", or how the reading ended

vars == <<wire, buffer, scanFrom, sent, delivered, pc>>

Ended == {"result", "noResult", "malformed", "broken"}

IsData(t) == t \in Data

\* The data events of a text, in order.
DataIn(text) ==
    LET upTo[n \in 0 .. Len(text)] ==
          IF n = 0 THEN <<>>
          ELSE IF IsData(text[n]) THEN Append(upTo[n - 1], text[n])
                                  ELSE upTo[n - 1]
    IN upTo[Len(text)]

\* Each event in its frame: the event, then its line ends.
Frames(events, end) ==
    LET width == Len(end) + 1
    IN [i \in 1 .. width * Len(events) |->
          IF (i - 1) % width = 0 THEN events[(i - 1) \div width + 1]
                                 ELSE end[(i - 1) % width]]

\* A stream: events with their line ends, the last one perhaps cut short.
Init ==
    /\ \E events \in BoundedSeq(Data \cup {"comment"}, MaxEvents),
          end \in LineEnds, cut \in 0 .. 2 :
         LET text == Frames(events, end)
         IN /\ cut <= Len(text)
            /\ wire = SubSeq(text, 1, Len(text) - cut)
    /\ sent = DataIn(wire)
    /\ buffer = <<>> /\ scanFrom = 1
    /\ delivered = <<>> /\ pc = "read"

TypeOK ==
    /\ \A text \in {wire, buffer} :
         text \in Seq(Data \cup {"comment", "cr", "lf"})
    /\ scanFrom \in Nat \ {0}
    /\ {sent, delivered} \subseteq Seq(Data)
    /\ pc \in {"read", "scan", "flush"} \cup Ended

-----------------------------------------------------------------------------
At(text, i) == IF i \in 1 .. Len(text) THEN text[i] ELSE "none"

\* The second line feed of an empty line, when one begins at i.
SecondFeed(text, i) == IF At(text, i + 1) = "cr" THEN i + 2 ELSE i + 1

EmptyLine(text, i) ==
    At(text, i) = "lf" /\ At(text, SecondFeed(text, i)) = "lf"

\* The empty lines the scan of takeCompleteSseFrames meets.
Found == {i \in scanFrom .. Len(buffer) : EmptyLine(buffer, i)}

\* Where the next scan begins when the buffer holds no complete frame.
Resume == IF Len(buffer) <= 2 THEN 1 ELSE Len(buffer) - 1

\* reader.read(): another chunk.
Read ==
    /\ pc = "read"
    /\ \E n \in 1 .. Len(wire) :
         /\ buffer' = buffer \o SubSeq(wire, 1, n)
         /\ wire' = SubSeq(wire, n + 1, Len(wire))
    /\ pc' = "scan"
    /\ UNCHANGED <<scanFrom, sent, delivered>>

\* Mutation: a last frame without an empty line is lost.
ReadEndDropping ==
    /\ pc = "read" /\ wire = <<>>
    /\ pc' = "noResult"
    /\ UNCHANGED <<wire, buffer, scanFrom, sent, delivered>>

\* The body ends.  A last frame that was not terminated is terminated.
ReadEnd ==
    /\ pc = "read" /\ wire = <<>>
    /\ IF \A i \in DOMAIN buffer : buffer[i] \in {"cr", "lf"}
         THEN pc' = "noResult" /\ UNCHANGED buffer
         ELSE pc' = "flush" /\ buffer' = buffer \o <<"lf", "lf">>
    /\ UNCHANGED <<wire, scanFrom, sent, delivered>>

\* The body fails, or the caller's signal aborts it.
ReadFails ==
    /\ pc = "read" /\ pc' = "broken"
    /\ UNCHANGED <<wire, buffer, scanFrom, sent, delivered>>

\* The first complete frame is cut off and its event handed on; a result is
\* the last.  Data lines that run into each other are no JSON.
TakeFrame ==
    /\ pc \in {"scan", "flush"} /\ Found # {}
    /\ LET i == Min(Found)
           event == DataIn(SubSeq(buffer, 1, i - 1))
       IN /\ buffer' = SubSeq(buffer, SecondFeed(buffer, i) + 1, Len(buffer))
          /\ IF Len(event) > 1
               THEN pc' = "malformed" /\ UNCHANGED delivered
               ELSE /\ delivered' = delivered \o event
                    /\ pc' = IF event = <<"result">> THEN "result" ELSE pc
    /\ scanFrom' = 1
    /\ UNCHANGED <<wire, sent>>

\* No complete frame is left.
AwaitMore ==
    /\ pc \in {"scan", "flush"} /\ Found = {}
    /\ scanFrom' = Resume
    /\ pc' = IF pc = "flush" THEN "noResult" ELSE "read"
    /\ UNCHANGED <<wire, buffer, sent, delivered>>

Next == Read \/ ReadEnd \/ ReadFails \/ TakeFrame \/ AwaitMore

Spec == Init /\ [][Next]_vars

-----------------------------------------------------------------------------
(* Properties *)

UpToResult(events) ==
    LET results == {i \in DOMAIN events : events[i] = "result"}
    IN IF results = {} THEN events ELSE SubSeq(events, 1, Min(results))

\* No complete frame waits in the buffer for the next chunk: resuming the
\* scan near the end of the buffer skips no empty line.
NoFrameWaits ==
    pc = "read" => \A i \in DOMAIN buffer : ~EmptyLine(buffer, i)

\* However the chunks are cut, a reader that is not interrupted hands on the
\* events of the text in order up to the first result, and says truly whether
\* there was one (the "without a result event" errors).
DeliveredAsSent ==
    /\ pc \in {"result", "noResult"} => delivered = UpToResult(sent)
    /\ pc = "result" <=> Contains(delivered, "result")
    /\ pc # "malformed"
    /\ NoFrameWaits
=============================================================================
