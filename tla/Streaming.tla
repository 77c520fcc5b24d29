----------------------------- MODULE Streaming -----------------------------
(***************************************************************************)
(* A streamed answer on its way through the router: the byte stream of the *)
(* provider, the SSE (for kiro: frame) parser of its adapter, and the loop *)
(* of chat_completions that turns chunks into events for the caller.       *)
(*                                                                         *)
(* An answer is the sequence of its texts, the provider's word for why it  *)
(* finished, and the newline it separates its events with.  Every event is *)
(* two units on the wire, its body and the end of its delimiter, so that a *)
(* read may break inside an event or between two.  Tool calls and token    *)
(* counts are left out.                                                    *)
(***************************************************************************)
EXTENDS Integers, SequencesExt

CONSTANTS NoText, NoReason

VARIABLES
    type,     \* the type of the adapter
    answer,   \* what the provider answers
    got,      \* units received
    parsed,   \* events taken out of the buffer
    queue,    \* chunks the adapter yields before it reads on
    phase,    \* "none", "reading", "tail", "failed", "closing", "closed" or "gone"
    late,     \* the request budget has passed
    sent      \* what the caller was sent

streamVars == <<type, answer, got, parsed, queue, phase, late, sent>>

-----------------------------------------------------------------------------
(* The wire *)

Event(t, r) == [text |-> t, reason |-> r]

Noise == Event(NoText, NoReason)

\* The events of an answer as each API sends them: a reason in an event of its
\* own, with the last text (google) or not at all (kiro); something the parser
\* has no use for before or behind it.
Events(t, a) ==
    LET n     == Len(a.texts)
        texts == [i \in 1..n |-> Event(a.texts[i], NoReason)]
    IN  CASE t = "google" ->
                 IF n = 0 THEN <<Event(NoText, a.reason)>>
                 ELSE [i \in 1..n |-> Event(a.texts[i], IF i = n THEN a.reason ELSE NoReason)]
          [] t = "kiro"   -> Append(texts, Noise)
          [] t = "anthropic" -> <<Noise>> \o Append(texts, Event(NoText, a.reason))
          [] OTHER -> texts \o <<Event(NoText, a.reason), Noise>>

Units == 2 * Len(Events(type, answer))

\* Only a blank line of two line feeds ends an event: find_sse_boundary.
\* Frames of kiro end where their length says.
Delimited == type = "kiro" \/ answer.newline = "lf"

Ready == Delimited /\ 2 * (parsed + 1) <= got

-----------------------------------------------------------------------------
(* The adapters *)

GoogleReason(r) == CASE r = "STOP"       -> "stop"
                     [] r = "MAX_TOKENS" -> "length"
                     [] r = "SAFETY"     -> "content_filter"
                     [] OTHER            -> r

Chunk(t, r) == [text |-> t, reason |-> r]

\* Mutation of GoogleChunks: an event with a reason is taken for an end only.
BugReasonHidesText(e) == IF e.reason # NoReason
                         THEN <<Chunk(NoText, GoogleReason(e.reason))>>
                         ELSE IF e.text # NoText THEN <<Chunk(e.text, NoReason)>> ELSE <<>>

GoogleChunks(e) ==
    LET r == IF e.reason = NoReason THEN NoReason ELSE GoogleReason(e.reason)
    IN  (IF e.text # NoText THEN <<Chunk(e.text, r)>> ELSE <<>>)
        \o (IF r # NoReason THEN <<Chunk(NoText, r)>> ELSE <<>>)

\* The Responses API calls a cut answer incomplete, which the parser skips.
ResponsesChunks(e) ==
    IF e.text # NoText THEN <<Chunk(e.text, NoReason)>>
    ELSE IF e.reason = "completed" THEN <<Chunk(NoText, "stop")>> ELSE <<>>

KiroChunks(e) == IF e.text # NoText THEN <<Chunk(e.text, NoReason)>> ELSE <<>>

OpenAIChunks(e) == IF e = Noise THEN <<>> ELSE <<Chunk(e.text, e.reason)>>

\* The generic adapter has a copy of the parser.
GenericChunks(e) == IF e = Noise THEN <<>> ELSE <<Chunk(e.text, e.reason)>>

\* Text deltas, and the message_delta with its stop_reason and usage.
AnthropicChunks(e) == CASE e.text # NoText     -> <<Chunk(e.text, NoReason)>>
                        [] e.reason # NoReason -> <<Chunk(NoText, e.reason)>>
                        [] OTHER               -> <<>>

Parse(t, e) == CASE t = "google"    -> GoogleChunks(e)
                 [] t = "responses" -> ResponsesChunks(e)
                 [] t = "kiro"      -> KiroChunks(e)
                 [] t = "anthropic" -> AnthropicChunks(e)
                 [] t = "openai"    -> OpenAIChunks(e)
                 [] OTHER           -> GenericChunks(e)

Before == SubSeq(Events(type, answer), 1, parsed)

SawText == \E e \in ToSet(Before) : e.text # NoText

\* What an adapter adds when the bytes end.
Ending(r) == <<Chunk(NoText, r)>>

AnthropicTail == IF SawText THEN Ending("end_turn") ELSE <<>>

\* Every event of Gemini carries usage.
GoogleTail == IF Before # <<>> THEN Ending("stop") ELSE <<>>

ResponsesTail ==
    IF SawText /\ \A e \in ToSet(Before) : e.reason # "completed" THEN Ending("stop") ELSE <<>>

KiroTail == Ending("stop")

TailChunks(t) == CASE t = "anthropic" -> AnthropicTail
                   [] t = "google"    -> GoogleTail
                   [] t = "responses" -> ResponsesTail
                   [] t = "kiro"      -> KiroTail
                   [] OTHER           -> <<>>

\* The same answer to a request that does not stream.
Whole(a, r) == [texts |-> a.texts, reason |-> r]

OpenAIComplete(a) == Whole(a, a.reason)
GenericComplete(a) == Whole(a, a.reason)
AnthropicComplete(a) == Whole(a, a.reason)
GoogleComplete(a) == Whole(a, GoogleReason(a.reason))
ResponsesComplete(a) == Whole(a, "stop")
KiroComplete(a) == Whole(a, "stop")

Complete(t, a) == CASE t = "openai"    -> OpenAIComplete(a)
                    [] t = "anthropic" -> AnthropicComplete(a)
                    [] t = "google"    -> GoogleComplete(a)
                    [] t = "responses" -> ResponsesComplete(a)
                    [] t = "kiro"      -> KiroComplete(a)
                    [] OTHER           -> GenericComplete(a)

-----------------------------------------------------------------------------
Error == [kind |-> "error"]
Terminator == [kind |-> "done"]

NoAnswer == [texts |-> <<>>, reason |-> NoReason, newline |-> "lf"]

StreamIdle ==
    /\ type = "none" /\ answer = NoAnswer
    /\ got = 0 /\ parsed = 0 /\ queue = <<>> /\ phase = "none" /\ late = FALSE /\ sent = <<>>

\* The POST was answered 2xx.
Open(t, a) ==
    /\ phase = "none"
    /\ type' = t /\ answer' = a /\ phase' = "reading"
    /\ UNCHANGED <<got, parsed, queue, late, sent>>

\* A stream that is over leaves nothing behind.
Close ==
    /\ phase \in {"closed", "gone"}
    /\ type' = "none" /\ answer' = NoAnswer
    /\ got' = 0 /\ parsed' = 0 /\ queue' = <<>> /\ phase' = "none" /\ late' = FALSE /\ sent' = <<>>

Drained == phase = "reading" /\ queue = <<>> /\ ~ Ready

ReadChunk ==
    /\ Drained
    /\ got' \in got + 1 .. Units
    /\ UNCHANGED <<type, answer, parsed, queue, phase, late, sent>>

ParseEvent ==
    /\ phase = "reading" /\ queue = <<>> /\ Ready
    /\ parsed' = parsed + 1
    /\ queue' = Parse(type, Events(type, answer)[parsed + 1])
    /\ UNCHANGED <<type, answer, got, phase, late, sent>>

\* The body ends, perhaps early.
EndOfBytes ==
    /\ Drained
    /\ phase' = "tail" /\ queue' = TailChunks(type)
    /\ UNCHANGED <<type, answer, got, parsed, late, sent>>

Break ==
    /\ Drained
    /\ phase' = "failed"
    /\ UNCHANGED <<type, answer, got, parsed, queue, late, sent>>

Item == queue # <<>> \/ phase = "failed"

Active == phase \in {"reading", "tail"}

Forward ==
    /\ Active /\ queue # <<>> /\ ~ late
    /\ sent' = Append(sent, [kind |-> "chunk", chunk |-> Head(queue)])
    /\ queue' = Tail(queue)
    /\ UNCHANGED <<type, answer, got, parsed, phase, late>>

\* Mutation of Overdue: the loop goes on.
BugNoBreak ==
    /\ Active /\ queue # <<>> /\ late
    /\ sent' = Append(sent, Error) /\ queue' = Tail(queue)
    /\ UNCHANGED <<type, answer, got, parsed, phase, late>>

\* The budget is looked at when an item comes, whatever it is.
Overdue ==
    /\ (Active /\ queue # <<>>) \/ phase = "failed"
    /\ late
    /\ sent' = Append(sent, Error) /\ queue' = <<>> /\ phase' = "closing"
    /\ UNCHANGED <<type, answer, got, parsed, late>>

ForwardError ==
    /\ phase = "failed" /\ ~ late
    /\ sent' = Append(sent, Error) /\ phase' = "closing"
    /\ UNCHANGED <<type, answer, got, parsed, queue, late>>

\* Mutation of Terminate: an error is the end.
BugErrorEnds ==
    /\ phase = "tail" /\ queue = <<>>
    /\ sent' = Append(sent, Terminator) /\ phase' = "closed"
    /\ UNCHANGED <<type, answer, got, parsed, queue, late>>

Terminate ==
    /\ phase = "closing" \/ (phase = "tail" /\ queue = <<>>)
    /\ sent' = Append(sent, Terminator) /\ phase' = "closed"
    /\ UNCHANGED <<type, answer, got, parsed, queue, late>>

\* The caller hangs up: the body is dropped where it stands.
Leave ==
    /\ phase \in {"reading", "tail", "failed", "closing"}
    /\ phase' = "gone"
    /\ UNCHANGED <<type, answer, got, parsed, queue, late, sent>>

Overrun ==
    /\ phase \in {"reading", "tail", "failed"} /\ ~ late
    /\ late' = TRUE
    /\ UNCHANGED <<type, answer, got, parsed, queue, phase, sent>>

Relay == ParseEvent \/ Forward \/ Overdue \/ ForwardError \/ Terminate

Upstream == ReadChunk \/ EndOfBytes \/ Break

StreamNext == Relay \/ Upstream \/ Leave \/ Overrun

\* The task that serves the body runs; a provider sends, ends or breaks off
\* its answer in the end.
StreamFairness == WF_streamVars(Relay) /\ WF_streamVars(Upstream)

-----------------------------------------------------------------------------
Add(seq, x, none) == IF x = none THEN seq ELSE Append(seq, x)

Take(said, c) == [texts   |-> Add(said.texts, c.text, NoText),
                  reasons |-> Add(said.reasons, c.reason, NoReason)]

Silence == [texts |-> <<>>, reasons |-> <<>>]

Hear(said, e) == IF e.kind = "chunk" THEN Take(said, e.chunk) ELSE said

\* What a caller makes of the events: the texts, and the reasons it is given.
Received(events) == FoldLeft(Hear, Silence, events)

Entire == got = Units

\* Why an answer ended, as the caller of an entire stream is told: the reason
\* of complete(), twice where Gemini sends it along with a text; then the word
\* the adapters of Anthropic and of Google end with whatever came before.  An
\* answer of the Responses API cut before its first text ends without one.
Told ==
    LET reason == Complete(type, answer).reason
    IN  CASE type = "anthropic" /\ answer.texts # <<>> -> <<reason, "end_turn">>
          [] type = "google" -> IF answer.texts = <<>> THEN <<reason, "stop">>
                                ELSE <<reason, reason, "stop">>
          [] type = "responses" /\ answer.texts = <<>> /\ answer.reason # "completed" -> <<>>
          [] OTHER -> <<reason>>

(***************************************************************************)
(* However the bytes are cut, a stream never shows the caller a text out   *)
(* of place.  One whose bytes all came and that closed without an error    *)
(* shows every text of the answer, and tells the reason complete() would   *)
(* give before anything an adapter adds to it (Told): what the parsers of  *)
(* the six adapters and the forwarding loop are for.  The exception is an  *)
(* answer with CRLF line ends: find_sse_boundary never splits one, so that *)
(* its stream closes as if it had ended well and has shown nothing.  The   *)
(* "end_turn" behind Anthropic's own reason is the code's, too, although   *)
(* anthropic.rs:314 means it for answers without a message_delta.          *)
(***************************************************************************)
StreamMatchesComplete ==
    phase # "none" =>
        LET whole == Complete(type, answer)
            said  == Received(sent)
        IN  /\ IsPrefix(said.texts, whole.texts)
            /\ phase = "closed" /\ Error \notin ToSet(sent) /\ Entire =>
                   IF Delimited THEN said = [texts |-> whole.texts, reasons |-> Told] ELSE said = Silence

(***************************************************************************)
(* A stream that was opened is closed with its terminator unless the       *)
(* caller leaves: the loop of chat_completions has no other end.           *)
(***************************************************************************)
StreamEnds == (phase = "reading") ~> (phase \in {"closed", "gone"})

PromisedStatus == CASE phase = "none" -> "none"
                    [] phase \in {"closed", "gone"} -> phase
                    [] OTHER -> "open"
=============================================================================
