------------------------------ MODULE Gateway ------------------------------
(***************************************************************************)
(* One chat request from its arrival to the last event of its answer:      *)
(* chat_completions and the parts of the pipeline it calls, with the tier, *)
(* key and body of Routing and Translation, the stream of Streaming, and   *)
(* the log of RequestLog.  The handler looks at the live configuration     *)
(* four times and at the registry twice, and administrators change both    *)
(* between any two of its steps.                                           *)
(*                                                                         *)
(* Retries, waits and the circuit breaker are the matter of Fallback, the  *)
(* budget of Budget: here a provider may be skipped as unavailable, and an *)
(* entry of the chain is asked once.                                       *)
(***************************************************************************)
EXTENDS Routing, Translation, Streaming, RequestLog

CONSTANTS
    Requests,      \* chat requests
    Config0,       \* the configuration at start
    Reloads,       \* files an administrator reloads
    TierEdits,     \* bodies of POST /admin/tiers: [tier, set]
    Removals,      \* providers an administrator may delete
    Additions,     \* providers one may add: [id, set]
    DefaultModel,  \* the adapter's model, by provider
    Answers,       \* what a provider may answer, by type
    WireCalls,     \* pass-through calls: [endpoint, ref]
    MaxEdits,      \* bound on the changes of the configuration
    Chat, Media    \* ids of the log for a chat and for a multimodal call

\* The primary of a tier and its fallbacks make no longer a chain than
\* MaxAttempts.
IsTier(t) == t.fallbacks \in Seq(ToSet(t.fallbacks)) /\ Len(t.fallbacks) < MaxAttempts

IsProvider(p) == p.type \in DOMAIN Answers

\* What requests read of a configuration.
IsConfig(c) ==
    /\ c = [providers |-> c.providers, tiers |-> c.tiers, rules |-> c.rules, default |-> c.default,
            tierKeys |-> c.tierKeys, detect |-> c.detect, specificity |-> c.specificity]
    /\ DOMAIN c.providers \subseteq Providers
    /\ \A p \in DOMAIN c.providers : IsProvider(c.providers[p])
    /\ \A t \in DOMAIN c.tiers : IsTier(c.tiers[t])
    /\ c.rules \in Seq(ToSet(c.rules))

\* A list of messages, and lists of parts in them.
IsConversation(ms) ==
    /\ ms \in Seq(ToSet(ms))
    /\ \A m \in ToSet(ms) : m.parts \in Seq(ToSet(m.parts)) /\ (m.form = "null" => m.parts = <<>>)

ASSUME GatewayAssumption ==
    /\ \A r \in Requests : IsConversation(r.messages)
    /\ \A c \in {Config0} \cup Reloads : IsConfig(c)
    /\ \A e \in TierEdits : IsTier(e.set)
    /\ \A a \in Additions : a.id \in Providers /\ IsProvider(a.set)
    /\ \A y \in DOMAIN Answers : \A a \in Answers[y] :
           a.texts \in Seq(ToSet(a.texts) \ {NoText}) /\ a.reason # NoReason
    /\ NoReason \notin {"stop", "length", "content_filter", "completed", "end_turn"}
    /\ {Chat, Media} \subseteq Ids /\ MaxAttempts > 0
    /\ MaxEdits \in Nat

VARIABLES
    cfg,        \* the live configuration
    registry,   \* the type of each registered adapter
    half,       \* the provider whose adapter is still to follow an edit
    edits,      \* edits made
    taken,      \* requests taken: at most a chat or a pass-through call, and a multimodal call
    pc,         \* where the handler is
    req,        \* the request it serves
    tier, ref,  \* the tier, and the model asked for instead of its primary
    category,   \* what the detector found
    snap,       \* the snapshot route() works from
    route,      \* the provider and model chosen
    key,        \* the key chosen
    chain,      \* providers still to be asked
    asked,      \* entries of the chain done with
    upstream    \* the request a provider is answering

handlerVars == <<pc, req, tier, ref, category, snap, route, key, chain, asked, upstream>>
configVars == <<cfg, registry, half, edits>>
gatewayVars == <<configVars, taken, handlerVars, streamVars, logVars>>

None == [provider |-> NoName]

\* A handler that is done keeps nothing.
HandlerDone ==
    /\ pc' = "idle" /\ req' = None /\ tier' = NoName /\ ref' = <<>> /\ category' = NoName
    /\ snap' = None /\ route' = None /\ key' = NoKey /\ chain' = <<>> /\ asked' = 0 /\ upstream' = None

Types(c) == [p \in DOMAIN c.providers |-> c.providers[p].type]

\* A map with another entry, or another value for it.
Put(f, x, v) == [y \in DOMAIN f \cup {x} |-> IF y = x THEN v ELSE f[y]]

GatewayInit ==
    /\ cfg = Config0 /\ registry = Types(Config0) /\ half = NoName /\ edits = 0
    /\ taken = {}
    /\ pc = "idle" /\ req = None /\ tier = NoName /\ ref = <<>> /\ category = NoName
    /\ snap = None /\ route = None /\ key = NoKey /\ chain = <<>> /\ asked = 0 /\ upstream = None
    /\ StreamIdle /\ LogInit

-----------------------------------------------------------------------------
(* Administrators *)

Editable == edits < MaxEdits /\ half = NoName /\ pc # "streaming" /\ (pc # "idle" \/ taken = {})

Edit(c) ==
    /\ Editable
    /\ cfg' = c /\ edits' = edits + 1
    /\ UNCHANGED <<taken, handlerVars, streamVars, logVars>>

\* A reload validates, and leaves the registry as it is.
Reload == \E c \in Reloads : Valid(c) /\ Edit(c) /\ UNCHANGED <<registry, half>>

UpdateTier ==
    \E e \in TierEdits :
        /\ Edit([cfg EXCEPT !.tiers = Put(cfg.tiers, e.tier, e.set)])
        /\ UNCHANGED <<registry, half>>

RemoveProvider ==
    \E p \in Removals \cap DOMAIN cfg.providers :
        /\ Edit([cfg EXCEPT !.providers = [q \in DOMAIN cfg.providers \ {p} |-> cfg.providers[q]]])
        /\ half' = p /\ UNCHANGED registry

AddProvider ==
    \E a \in Additions :
        /\ Edit([cfg EXCEPT !.providers = Put(cfg.providers, a.id, a.set)])
        /\ half' = a.id /\ UNCHANGED registry

\* The registry follows the configuration in a step of its own.
FollowEdit ==
    /\ half # NoName
    /\ registry' = IF half \in DOMAIN cfg.providers
                   THEN Put(registry, half, cfg.providers[half].type)
                   ELSE [p \in DOMAIN registry \ {half} |-> registry[p]]
    /\ half' = NoName
    /\ UNCHANGED <<cfg, edits, taken, handlerVars, streamVars, logVars>>

-----------------------------------------------------------------------------
(* chat_completions *)

Handler == UNCHANGED <<configVars, streamVars, logVars>>

Arrive(r) ==
    /\ pc = "idle" /\ taken = {}
    /\ taken' = taken \cup {"chat"}
    /\ Handler
    /\ IF DOMAIN registry = {} THEN UNCHANGED handlerVars   \* 503
       ELSE /\ pc' = "parsed" /\ req' = r
            /\ UNCHANGED <<tier, ref, category, snap, route, key, chain, asked, upstream>>

ScoreTier ==
    /\ pc = "parsed"
    /\ tier' = Choice(req, cfg).tier /\ ref' = Choice(req, cfg).ref
    /\ pc' = "scored"
    /\ UNCHANGED <<taken, req, category, snap, route, key, chain, asked, upstream>> /\ Handler

Detect ==
    /\ pc = "scored" /\ ~ DetectorPanics(req, cfg)
    /\ category' \in Detections(req, cfg)
    /\ ref' = IF category' = NoName \/ RulesFor(cfg, category')[1].primary = <<>> THEN ref
              ELSE RulesFor(cfg, category')[1].primary
    /\ pc' = "detected"
    /\ UNCHANGED <<taken, req, tier, snap, route, key, chain, asked, upstream>> /\ Handler

\* The task is lost and the connection with it.
Panic == pc = "scored" /\ DetectorPanics(req, cfg) /\ HandlerDone /\ UNCHANGED taken /\ Handler

TakeSnapshot ==
    /\ pc = "detected"
    /\ snap' = cfg /\ pc' = "snapped"
    /\ UNCHANGED <<taken, req, tier, ref, category, route, key, chain, asked, upstream>> /\ Handler

\* The model the request named, or the primary of its tier.
Wanted == IF ref # <<>> THEN ref ELSE Primary(snap, tier)

Routable == Registered(Wanted, registry) /\ RouteKey(snap, Route(Wanted).provider, tier) # NoKey

\* X-Router-Key replaces the key that was found; without one there is nothing
\* to replace.
ChooseRoute ==
    /\ pc = "snapped" /\ Routable
    /\ route' = Route(Wanted)
    /\ key' = IF req.key # NoKey THEN req.key ELSE RouteKey(snap, route'.provider, tier)
    /\ snap' = None /\ pc' = "routed"
    /\ UNCHANGED <<taken, req, tier, ref, category, chain, asked, upstream>> /\ Handler

Refuse == pc = "snapped" /\ ~ Routable /\ HandlerDone /\ UNCHANGED taken /\ Handler

\* What is posted to a provider.
Post(p, m, k) ==
    [provider |-> p, model |-> m, key |-> k, stream |-> req.stream,
     type |-> registry[p], body |-> Body(registry[p], Canonical(req))]

-----------------------------------------------------------------------------
(* Pipeline::stream *)

StartStream ==
    /\ pc = "routed" /\ req.stream
    /\ route.provider \in DOMAIN registry
    /\ upstream' = Post(route.provider, route.model, key)
    /\ pc' = "posted"
    /\ UNCHANGED <<taken, req, tier, ref, category, snap, route, key, chain, asked>> /\ Handler

Disappeared ==
    /\ pc = "routed" /\ req.stream /\ route.provider \notin DOMAIN registry
    /\ HandlerDone /\ UNCHANGED taken /\ Handler

Connected ==
    /\ pc = "posted"
    /\ \E a \in Answers[upstream.type] : Open(upstream.type, a)
    /\ pc' = "streaming"
    /\ req' = None /\ tier' = NoName /\ ref' = <<>> /\ category' = NoName /\ snap' = None
    /\ route' = None /\ key' = NoKey /\ chain' = <<>> /\ asked' = 0 /\ upstream' = None
    /\ UNCHANGED <<taken, configVars, logVars>>

\* No fallback: the error is the answer.
NotConnected == pc = "posted" /\ HandlerDone /\ UNCHANGED taken /\ Handler

Streamed == pc = "streaming" /\ StreamNext /\ UNCHANGED <<configVars, taken, handlerVars, logVars>>

StreamOver ==
    /\ pc = "streaming" /\ Close /\ pc' = "idle"
    /\ UNCHANGED <<configVars, taken, req, tier, ref, category, snap, route, key, chain, asked, upstream, logVars>>

-----------------------------------------------------------------------------
(* Pipeline::complete *)

\* Mutation of StartChain: the primary once more before the fallbacks.
BugPrimaryTwice ==
    /\ pc = "routed" /\ ~ req.stream
    /\ chain' = <<route.provider, route.provider>>
                \o (IF tier \in DOMAIN cfg.tiers
                    THEN Each(LAMBDA f : f[1], cfg.tiers[tier].fallbacks) ELSE <<>>)
    /\ pc' = "chain"
    /\ UNCHANGED <<taken, req, tier, ref, category, snap, route, key, asked, upstream>> /\ Handler

StartChain ==
    /\ pc = "routed" /\ ~ req.stream
    /\ chain' = <<route.provider>>
                \o (IF tier \in DOMAIN cfg.tiers
                    THEN Each(LAMBDA f : f[1], cfg.tiers[tier].fallbacks) ELSE <<>>)
    /\ pc' = "chain"
    /\ UNCHANGED <<taken, req, tier, ref, category, snap, route, key, asked, upstream>> /\ Handler

\* No adapter, or in cooldown.
Skip ==
    /\ pc = "chain" /\ chain # <<>>
    /\ chain' = Tail(chain) /\ asked' = asked + 1
    /\ UNCHANGED <<pc, taken, req, tier, ref, category, snap, route, key, upstream>> /\ Handler

\* Mutation of Call: the key of the route for whoever is asked.
BugRouteKey ==
    /\ pc = "chain" /\ chain # <<>> /\ Head(chain) \in DOMAIN registry
    /\ upstream' = Post(Head(chain), DefaultModel[Head(chain)], key)
    /\ pc' = "waiting"
    /\ UNCHANGED <<taken, req, tier, ref, category, snap, route, key, chain, asked>> /\ Handler

\* The resolver makes a handle of its own: the adapter's model, and the key
\* found again.
Call ==
    /\ pc = "chain" /\ chain # <<>> /\ Head(chain) \in DOMAIN registry
    /\ upstream' = Post(Head(chain), DefaultModel[Head(chain)], ChainKey(cfg, Head(chain)))
    /\ pc' = "waiting"
    /\ UNCHANGED <<taken, req, tier, ref, category, snap, route, key, chain, asked>> /\ Handler

\* The response goes out when log_completion has returned.
Succeed ==
    /\ pc = "waiting"
    /\ \E metered \in BOOLEAN : LogRequest(Chat, asked + 1, metered)
    /\ HandlerDone
    /\ UNCHANGED <<taken, configVars, streamVars>>

FallBack ==
    /\ pc = "waiting"
    /\ chain' = Tail(chain) /\ asked' = asked + 1 /\ upstream' = None /\ pc' = "chain"
    /\ UNCHANGED <<taken, req, tier, ref, category, snap, route, key>> /\ Handler

\* A fatal error, the budget, the end of the chain, or a caller that is gone.
Abandon ==
    /\ pc \in {"chain", "waiting"}
    /\ HandlerDone /\ UNCHANGED taken /\ Handler

-----------------------------------------------------------------------------
(* The pass-through endpoints *)

PassThrough ==
    /\ pc = "idle" /\ taken = {}
    /\ \E w \in WireCalls :
           /\ WireAccepts(w.endpoint, w.ref, cfg, registry)
           /\ upstream' = [provider |-> w.ref[1], model |-> Tail(w.ref), stream |-> FALSE,
                           key |-> ChainKey(cfg, w.ref[1])]
    /\ pc' = "passed" /\ taken' = {"wire"}
    /\ UNCHANGED <<req, tier, ref, category, snap, route, key, chain, asked>> /\ Handler

\* Images, speech and video want any registered provider with a key, and have
\* a row in the log.
PassMedia ==
    /\ pc = "idle" /\ "media" \notin taken
    /\ \E w \in WireCalls :
           /\ Registered(w.ref, registry) /\ ChainKey(cfg, w.ref[1]) # NoKey
           /\ upstream' = [provider |-> w.ref[1], model |-> Tail(w.ref), stream |-> FALSE,
                           key |-> ChainKey(cfg, w.ref[1])]
    /\ pc' = "media" /\ taken' = taken \cup {"media"}
    /\ UNCHANGED <<req, tier, ref, category, snap, route, key, chain, asked>> /\ Handler

Passed ==
    /\ pc \in {"passed", "media"}
    /\ HandlerDone
    /\ UNCHANGED logVars \/ (pc = "media" /\ LogRequest(Media, 0, FALSE))
    /\ UNCHANGED <<taken, configVars, streamVars>>

-----------------------------------------------------------------------------
\* The clock and the tasks of the log stand still while a chat is served.
LogMoves == pc \in {"idle", "media"}

Logged == LogMoves /\ taken # {} /\ LogNext /\ UNCHANGED <<configVars, taken, handlerVars, streamVars>>

Admin == Reload \/ UpdateTier \/ RemoveProvider \/ AddProvider \/ FollowEdit

Serve ==
    \/ \E r \in Requests : Arrive(r)
    \/ ScoreTier \/ Detect \/ Panic \/ TakeSnapshot \/ ChooseRoute \/ Refuse
    \/ StartStream \/ Disappeared \/ Connected \/ NotConnected
    \/ StartChain \/ Skip \/ Call \/ Succeed \/ FallBack \/ Abandon
    \/ PassThrough \/ PassMedia \/ Passed

GatewayNext == Admin \/ Serve \/ Streamed \/ StreamOver \/ Logged

GatewaySpec ==
    /\ GatewayInit /\ [][GatewayNext]_gatewayVars
    /\ WF_gatewayVars(pc = "streaming" /\ Relay /\ UNCHANGED <<configVars, taken, handlerVars, logVars>>)
    /\ WF_gatewayVars(pc = "streaming" /\ Upstream /\ UNCHANGED <<configVars, taken, handlerVars, logVars>>)
    /\ WF_gatewayVars(LogMoves /\ Prune /\ UNCHANGED <<configVars, taken, handlerVars, streamVars>>)

-----------------------------------------------------------------------------
Phases == {"idle", "parsed", "scored", "detected", "snapped", "routed", "posted", "streaming",
           "chain", "waiting", "passed", "media"}

GatewayTypeOK ==
    /\ DOMAIN cfg.providers \subseteq Providers /\ DOMAIN registry \subseteq Providers
    /\ half \in Providers \cup {NoName} /\ edits \in 0..MaxEdits
    /\ pc \in Phases /\ req \in Requests \cup {None} /\ tier \in TierNames \cup {NoName}
    /\ category \in Categories \cup {NoName}
    /\ route # None => route.provider \in Providers
    /\ asked \in 0..MaxAttempts
    /\ (pc = "streaming") <=> (phase # "none")
    /\ LogTypeOK

Plain(r) == r.header \notin TierNames /\ ~ TierHint(r)
            /\ ~ (Len(r.model) = 2 /\ r.model[1] \in DOMAIN ResolveAlias)

(***************************************************************************)
(* Unless the caller names a tier or a model, no rule and no default takes *)
(* a request below what its content asks for: an image, reasoning, code,   *)
(* or more than 50000 tokens.  scorer.rs applies four layers in a row.     *)
(***************************************************************************)
FloorsHold ==
    (tier # NoName /\ Plain(req)) =>
        /\ HasImage(req) => Rank[tier] >= Rank["multimodal"]
        /\ HasReasoning(req) => Rank[tier] >= Rank["reasoning"]
        /\ HasFence(req) => Rank[tier] >= Rank["complex"]
        /\ TokenCount(req) > HighContextTokens => tier \notin {"simple", "standard"}

AllConfigs == {Config0} \cup Reloads

OwnKeys(p) ==
    ({ProviderKey(c, p) : c \in AllConfigs} \cup {a.set.key : a \in {b \in Additions : b.id = p}}
       \cup {Stored[p], Access[p]}) \ {NoKey}

TierKeys == UNION {{c.tierKeys[t] : t \in DOMAIN c.tierKeys} : c \in AllConfigs}

(***************************************************************************)
(* A provider is never sent the key of another one, whichever entry of a   *)
(* chain it is and whatever is edited meanwhile.  Only a streamed request  *)
(* may carry the caller's X-Router-Key, or the key of its tier.            *)
(***************************************************************************)
KeysStayHome ==
    upstream # None =>
        \/ upstream.key \in OwnKeys(upstream.provider) \cup {NoKey}
        \/ upstream.stream /\ (upstream.key = req.key \/ upstream.key \in TierKeys)

(***************************************************************************)
(* Whatever adapter is asked, the body it posts says what the system       *)
(* messages, the user and the assistant said, all of it, in that order and *)
(* in the name of its author, and an adapter that sees keeps the user's    *)
(* images: inbound.rs and the build_body of each adapter.  Kiro's is asked *)
(* at the end all that the user ever said, behind what the others said.    *)
(***************************************************************************)
PromptReaches ==
    pc \in {"posted", "waiting"} =>
        IF upstream.type = "kiro" THEN TellsLast(upstream.body, req)
        ELSE TellsTalk(upstream.body, req, upstream.type)

(***************************************************************************)
(* "The canonical request in `routed.canonical` is treated as the request  *)
(* to send to the primary" (pipeline.rs): the first provider asked gets    *)
(* the model and the key that route() chose for it.                        *)
(***************************************************************************)
SentAsRouted ==
    (pc = "waiting" /\ asked = 0) =>
        upstream.provider = route.provider /\ upstream.model = route.model /\ upstream.key = key

\* A chunk has a text of an answer or none, and for a reason what complete()
\* would say, or what an adapter adds when the bytes end.
AllAnswers == UNION {{[type |-> y, answer |-> a] : a \in Answers[y]} : y \in DOMAIN Answers}

PromisedChunks ==
    [text : {NoText} \cup UNION {ToSet(x.answer.texts) : x \in AllAnswers},
     reason : {NoReason, "stop", "end_turn"} \cup {Complete(x.type, x.answer).reason : x \in AllAnswers}]

Promise == INSTANCE StreamPromise WITH status <- PromisedStatus, Chunks <- PromisedChunks

(***************************************************************************)
(* What the caller of a stream is sent is what StreamPromise allows: the   *)
(* loop of chat_completions over every adapter's chunks.                   *)
(***************************************************************************)
ImplementsStreamPromise == Promise!PromiseSpec
=============================================================================
