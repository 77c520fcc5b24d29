---------------------------- MODULE Translation ----------------------------
(***************************************************************************)
(* What becomes of a prompt on its way to a provider: into_canonical of    *)
(* src/src/schema/inbound.rs and build_body of the six adapters.  A body   *)
(* is written the same way for all of them: the texts of its system part,  *)
(* its messages in order, and the options it carries.  Texts that the code *)
(* concatenates are kept as a sequence.                                    *)
(*                                                                         *)
(* A message is [role, form, parts, calls]: parts are content blocks, form *)
(* says whether the JSON content was a string (one text), an array or      *)
(* null.  A block is [kind, text], [kind, image] or [kind, content].       *)
(***************************************************************************)
EXTENDS Integers, SequencesExt

Concat(seqs) == FoldLeft(LAMBDA a, s : a \o s, <<>>, seqs)

Each(Op(_), seq) == [i \in DOMAIN seq |-> Op(seq[i])]

\* The members of a sequence that are in S, in their order.
Keep(seq, S) == FoldLeft(LAMBDA a, x : IF x \in S THEN Append(a, x) ELSE a, <<>>, seq)

OfKind(blocks, kinds) == Keep(blocks, {b \in ToSet(blocks) : b.kind \in kinds})

Texts(blocks) == Each(LAMBDA b : b.text, OfKind(blocks, {"text"}))

-----------------------------------------------------------------------------
(* The canonical request *)

\* Content that is null becomes the text of its JSON.
NullText == [words |-> {"null"}, tokens |-> 1]

KnownBlocks == {"text", "image_url", "image_data", "audio", "tool_use", "tool_result"}

ContentToBlocks(m) ==
    IF m.form = "null" THEN <<[kind |-> "text", text |-> NullText]>>
    ELSE OfKind(m.parts, KnownBlocks)

\* A role nobody knows is the user's.
RoleOf(m) == IF m.role \in {"user", "assistant", "tool"} THEN m.role ELSE "user"

ParseToolChoice(c) == IF c \in {"auto", "none", "required", "specific"} THEN c ELSE "absent"

IsSystem(m) == m.role = "system"

MessageToCanonical(m) ==
    [role |-> RoleOf(m), content |-> ContentToBlocks(m), calls |-> m.calls]

Systems(ms) == Keep(ms, {m \in ToSet(ms) : IsSystem(m)})

Others(ms) == Keep(ms, {m \in ToSet(ms) : ~ IsSystem(m)})

\* into_canonical with extract_system: all system messages, wherever they are.
Canonical(r) ==
    [system   |-> Concat(Each(LAMBDA m : Texts(m.parts), Systems(r.messages))),
     messages |-> Each(MessageToCanonical, Others(r.messages)),
     tools    |-> r.tools,
     choice   |-> ParseToolChoice(r.choice),
     stop     |-> r.stop]

-----------------------------------------------------------------------------
(* The adapters *)

Entry(role, content, kept, calls) ==
    [role |-> role, content |-> OfKind(content, kept), calls |-> calls]

OpenAIBody(c) ==
    [system   |-> c.system,
     messages |-> Each(LAMBDA m : Entry(m.role, m.content, {"text", "image_url", "image_data"}, m.calls),
                       c.messages),
     tools |-> c.tools, choice |-> c.choice, stop |-> c.stop]

\* A tool message keeps its tool_result blocks only, so a result that came as
\* a plain string is gone.
AnthropicBody(c) ==
    LET message(m) == CASE m.role = "user" ->
                               Entry("user", m.content, {"text", "image_url", "image_data"}, <<>>)
                        [] m.role = "assistant" -> Entry("assistant", m.content, {"text"}, m.calls)
                        [] OTHER -> Entry("user", m.content, {"tool_result"}, <<>>)
    IN  [system |-> c.system, messages |-> Each(message, c.messages),
         tools |-> c.tools, choice |-> c.choice, stop |-> c.stop]

GoogleBody(c) ==
    LET role(m) == IF m.role = "assistant" THEN "model" ELSE "user"
    IN  [system   |-> c.system,
         messages |-> Each(LAMBDA m : Entry(role(m), m.content, {"text", "image_data"}, <<>>), c.messages),
         tools |-> <<>>, choice |-> "absent", stop |-> c.stop]

TextOnly(c) == Each(LAMBDA m : Entry(m.role, m.content, {"text"}, <<>>), c.messages)

GenericBody(c) ==
    [system |-> c.system, messages |-> TextOnly(c), tools |-> <<>>, choice |-> "absent", stop |-> <<>>]

ResponsesBody(c) ==
    [system |-> c.system, messages |-> TextOnly(c), tools |-> c.tools, choice |-> "absent", stop |-> <<>>]

ByUser(ms) == Keep(ms, {m \in ToSet(ms) : m.role = "user"})

NotByUser(ms) == Keep(ms, {m \in ToSet(ms) : m.role # "user"})

UserTexts(ms) == Concat(Each(LAMBDA m : OfKind(m.content, {"text"}), ByUser(ms)))

\* Mutation of KiroBody: only what the user said last.
BugKiroLastOnly(c) ==
    [system |-> c.system, messages |-> <<[role |-> "user", calls |-> <<>>,
                                          content |-> LET u == UserTexts(c.messages) IN IF u = <<>> THEN <<>> ELSE <<Last(u)>>]>>,
     tools |-> <<>>, choice |-> "absent", stop |-> <<>>]

Greeting == [kind |-> "text", text |-> [words |-> {"hello"}, tokens |-> 1]]

\* All the user ever said goes into the current message, behind the system
\* texts; the rest is history in front of it.  A message of the user without a
\* text leaves its heading there, so that nobody is greeted.
KiroBody(c) ==
    LET system  == Each(LAMBDA t : [kind |-> "text", text |-> t], c.system)
        current == system \o UserTexts(c.messages)
        history == Each(LAMBDA m : Entry(IF m.role = "tool" THEN "user" ELSE m.role, m.content, {"text"}, <<>>),
                        NotByUser(c.messages))
    IN  [system   |-> <<>>,
         messages |-> Append(history,
                             [role |-> "user", calls |-> <<>>,
                              content |-> IF system = <<>> /\ ByUser(c.messages) = <<>>
                                          THEN <<Greeting>> ELSE current]),
         tools |-> <<>>, choice |-> "absent", stop |-> <<>>]

\* The body of a request for an adapter of the given type.
Body(type, c) == CASE type = "openai"    -> OpenAIBody(c)
                   [] type = "anthropic" -> AnthropicBody(c)
                   [] type = "google"    -> GoogleBody(c)
                   [] type = "responses" -> ResponsesBody(c)
                   [] type = "kiro"      -> KiroBody(c)
                   [] OTHER              -> GenericBody(c)

-----------------------------------------------------------------------------
(* What a prompt says, for the properties *)

SystemSaid(r) == Concat(Each(LAMBDA m : Texts(m.parts), Systems(r.messages)))

FromUser(m) == m.role \notin {"system", "assistant", "tool"}

\* Content that is null is heard as the text of its JSON.
Said(m) == IF m.form = "null" THEN <<NullText>> ELSE Texts(m.parts)

FromUsers(ms) == Keep(ms, {m \in ToSet(ms) : FromUser(m)})

Answering(ms) == Keep(ms, {m \in ToSet(ms) : m.role \in {"assistant", "tool"}})

UserSaid(ms) == Concat(Each(Said, FromUsers(ms)))

\* The images an adapter of a type can send.
Seen(type) == CASE type \in {"openai", "anthropic"} -> {"image_url", "image_data"}
                [] type = "google" -> {"image_data"}
                [] OTHER -> {}

\* An entry of a body is what was said by its author, the user or not.
Conveys(entry, m, type) ==
    /\ FromUser(m) => /\ entry.role = "user"
                      /\ OfKind(entry.content, Seen(type)) = OfKind(m.parts, Seen(type))
    /\ m.role = "assistant" => entry.role \in {"assistant", "model"}
    /\ m.role # "tool" => Texts(entry.content) = Said(m)

\* The conversation, message by message.
TellsTalk(body, r, type) ==
    LET talk == Others(r.messages)
    IN  /\ body.system = SystemSaid(r)
        /\ Len(body.messages) = Len(talk)
        /\ \A i \in DOMAIN talk : Conveys(body.messages[i], talk[i], type)

\* What all but the user said, and at the end all that system and user said.
TellsLast(body, r) ==
    LET history == Answering(r.messages)
        said    == SystemSaid(r) \o UserSaid(r.messages)
    IN  /\ Len(body.messages) = Len(history) + 1
        /\ \A i \in DOMAIN history :
               /\ Texts(body.messages[i].content) = Said(history[i])
               /\ history[i].role = "assistant" => body.messages[i].role = "assistant"
        /\ said # <<>> => Texts(Last(body.messages).content) = said
=============================================================================
