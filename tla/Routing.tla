------------------------------ MODULE Routing ------------------------------
(***************************************************************************)
(* How a chat request gets its tier, its category, its provider and its    *)
(* upstream key: the scorer, the specificity detector and the selector of  *)
(* src/src/routing, Pipeline::route, and the checks the configuration has  *)
(* passed when it was loaded.  Everything here is a function of a request, *)
(* a configuration and the registry; when each of them is read is the      *)
(* matter of module Gateway.                                               *)
(*                                                                         *)
(* A text is a record of the words it contains that some rule looks for    *)
(* and its length in tokens.  A model reference is the sequence of its     *)
(* segments between slashes.                                               *)
(***************************************************************************)
EXTENDS Integers, FiniteSets, FiniteSetsExt, SequencesExt

CONSTANTS
    NoName,      \* no tier, no category, no header
    NoKey,       \* no credential, or an empty one
    Providers,   \* provider ids
    Stored,      \* the key of each provider in the environment or the key store
    Access       \* its OAuth access token, for types whose manifest has OAuth

ASSUME RoutingAssumption ==
    /\ DOMAIN Stored = Providers
    /\ DOMAIN Access = Providers
    /\ NoName \notin Providers

-----------------------------------------------------------------------------
(* Tiers *)

Rank == [simple |-> 1, standard |-> 2, complex |-> 3, reasoning |-> 4,
         multimodal |-> 5, high_context |-> 6]

TierNames == DOMAIN Rank

TextsOf(m) == SelectSeq(m.parts, LAMBDA b : b.kind = "text")

Says(m, w) == \E b \in ToSet(TextsOf(m)) : w \in b.text.words

HasImage(r) ==
    \E m \in ToSet(r.messages) :
        /\ m.form = "parts"
        /\ \E b \in ToSet(m.parts) : b.kind \in {"image_url", "image_data"}

HasFence(r) == \E m \in ToSet(r.messages) : Says(m, "fence")

ReasoningKeywords == {"prove", "theorem", "derive", "step by step"}

HasReasoning(r) ==
    \E m \in ToSet(r.messages), w \in ReasoningKeywords : m.role = "user" /\ Says(m, w)

TokenCount(r) ==
    FoldLeft(LAMBDA n, m : FoldLeft(LAMBDA k, b : k + b.text.tokens, n, TextsOf(m)), 0, r.messages)

HighContextTokens == 50000

Heuristic(r) == CASE HasImage(r)     -> "multimodal"
                  [] HasReasoning(r) /\ ~ HasImage(r) -> "reasoning"
                  [] HasFence(r) /\ ~ HasReasoning(r) /\ ~ HasImage(r) -> "complex"
                  [] OTHER -> "standard"

ContextFloor(t, r) ==
    IF TokenCount(r) > HighContextTokens /\ t \in {"simple", "standard"}
    THEN "high_context" ELSE t

\* rule_matches: a condition that is absent is BOOLEAN, -1 or {}.  Only
\* contents that are a plain string are searched.
RuleMatches(rule, r) ==
    /\ (r.tools # <<>>) \in rule.tools
    /\ TokenCount(r) > rule.above
    /\ \A w \in rule.contains : \E m \in ToSet(r.messages) : m.form = "string" /\ Says(m, w)

\* Mutation of UserRules: the last rule that matches decides.
BugLastRule(t, r, c) ==
    FoldLeft(LAMBDA a, rule : IF RuleMatches(rule, r) /\ rule.tier \in TierNames THEN rule.tier ELSE a,
             t, c.rules)

\* All matching rules, each only upwards; a tier that is not one of the six
\* names is passed over.
UserRules(t, r, c) ==
    FoldLeft(LAMBDA a, rule :
                 IF /\ RuleMatches(rule, r)
                    /\ rule.tier \in TierNames
                    /\ Rank[rule.tier] > Rank[a]
                 THEN rule.tier ELSE a,
             t, c.rules)

\* default_tier replaces what is still standard, downwards too.
Defaulted(t, c) == IF t = "standard" /\ c.default \in TierNames THEN c.default ELSE t

Scored(r, c) == Defaulted(UserRules(ContextFloor(Heuristic(r), r), r, c), c)

-----------------------------------------------------------------------------
(* Explicit choices *)

\* Provider ids resolve_alias knows, with the type they stand for.
ResolveAlias == [anthropic |-> "anthropic", openai |-> "openai", google |-> "google",
                 gemini |-> "google", kiro |-> "kiro", codex |-> "responses"]

\* tier/provider/model; further slashes belong to the model (splitn).  A tier
\* stands for every way Tier::parse lets a caller spell it: high-context is
\* high_context, and mm is multimodal.
TierHint(r) == Len(r.model) >= 3 /\ r.model[1] \in TierNames

\* Scorer::score: header, then tier/provider/model, then alias/model, then
\* what the request looks like.
Score(r, c) ==
    CASE r.header \in TierNames -> [tier |-> r.header, ref |-> <<>>]
      [] r.header \notin TierNames /\ TierHint(r) -> [tier |-> r.model[1], ref |-> r.model]
      [] r.header \notin TierNames /\ Len(r.model) = 2 /\ r.model[1] \in DOMAIN ResolveAlias ->
             [tier |-> "standard", ref |-> r.model]
      [] OTHER -> [tier |-> Scored(r, c), ref |-> <<>>]

\* The handler's own reading of tier/provider/model comes before the score.
Choice(r, c) == IF TierHint(r) THEN [tier |-> r.model[1], ref |-> r.model] ELSE Score(r, c)

-----------------------------------------------------------------------------
(* Specificity *)

DefaultThreshold == [coding |-> 2, web_browsing |-> 3, data_analysis |-> 3, image_generation |-> 4,
                     video_generation |-> 4, social_media |-> 3, email_management |-> 3,
                     calendar_management |-> 3, trading |-> 3]

Categories == DOMAIN DefaultThreshold

\* Two words of each category's dictionary, with their weights.
DefaultKeywords == [coding |-> [function |-> 1, refactor |-> 2],
                    web_browsing |-> [url |-> 1, browse |-> 2],
                    data_analysis |-> [sql |-> 1, histogram |-> 2],
                    image_generation |-> [draw |-> 2, midjourney |-> 3],
                    video_generation |-> [video |-> 1, sora |-> 3],
                    social_media |-> [tweet |-> 2, hashtag |-> 2],
                    email_management |-> [email |-> 1, gmail |-> 3],
                    calendar_management |-> [calendar |-> 2, reschedule |-> 2],
                    trading |-> [stock |-> 1, portfolio |-> 2]]

\* Tools are named here by their prefix; any other name has no category.
ToolPrefix == [browser_ |-> "web_browsing", code_ |-> "coding", git_ |-> "coding",
               image_ |-> "image_generation", video_ |-> "video_generation",
               social_ |-> "social_media", email_ |-> "email_management",
               calendar_ |-> "calendar_management", trade_ |-> "trading"]

ToolMatchWeight == 3

RulesFor(c, k) == SelectSeq(c.specificity, LAMBDA s : s.category = k)

\* What a rule holds that sets no threshold; zero is one, and always reached.
NoThreshold == -1

\* threshold_for: the category's first rule, or the default of the category.
Threshold(c, k) ==
    IF RulesFor(c, k) # <<>> /\ RulesFor(c, k)[1].threshold # NoThreshold
    THEN RulesFor(c, k)[1].threshold ELSE DefaultThreshold[k]

\* The last message of the user, or the first of all if there is none.
LastUserMessage(r) ==
    LET users == {i \in DOMAIN r.messages : r.messages[i].role = "user"}
    IN  r.messages[IF users = {} THEN 1 ELSE Max(users)]

CategoryScore(k, r) ==
    LET words == DefaultKeywords[k]
    IN  ToolMatchWeight * Cardinality({i \in DOMAIN r.tools :
                              r.tools[i] \in DOMAIN ToolPrefix /\ ToolPrefix[r.tools[i]] = k})
        + MapThenSumSet(LAMBDA w : words[w], {w \in DOMAIN words : Says(LastUserMessage(r), w)})

Eligible(r, c) ==
    {k \in Categories : RulesFor(c, k) # <<>> /\ CategoryScore(k, r) >= Threshold(c, k)}

Better(j, k, r, c) ==
    \/ CategoryScore(j, r) > CategoryScore(k, r)
    \/ CategoryScore(j, r) = CategoryScore(k, r) /\ Threshold(c, j) > Threshold(c, k)

HeaderCategory(r, c) == c.detect /\ r.category \in Categories /\ RulesFor(c, r.category) # <<>>

\* The detector indexes the first message of a request that has none.
DetectorPanics(r, c) == c.detect /\ ~ HeaderCategory(r, c) /\ r.messages = <<>>

\* What the detector may answer.  The scores are kept in a HashMap, so which
\* of two equal categories wins is not determined.
Detections(r, c) ==
    IF ~ c.detect THEN {NoName}
    ELSE IF HeaderCategory(r, c) THEN {r.category}
    ELSE IF Eligible(r, c) = {} THEN {NoName}
    ELSE {k \in Eligible(r, c) : \A j \in Eligible(r, c) : ~ Better(j, k, r, c)}

-----------------------------------------------------------------------------
(* Provider, model and key *)

\* route_explicit: everything behind the first slash is the model.
Registered(ref, reg) == Len(ref) >= 2 /\ ref[1] \in DOMAIN reg

Route(ref) == [provider |-> ref[1], model |-> Tail(ref)]

Primary(c, t) == IF t \in DOMAIN c.tiers THEN c.tiers[t].primary ELSE <<>>

ProviderKey(c, p) == IF p \in DOMAIN c.providers THEN c.providers[p].key ELSE NoKey

\* auth::resolve: what the configuration says, else environment or store.
Resolved(k, p) == IF k # NoKey THEN k ELSE Stored[p]

HasOAuth(p) == p \in DOMAIN ResolveAlias /\ Access[p] # NoKey

\* Pipeline::route: the key of the tier stands in for a provider that has none.
RouteKey(c, p, t) ==
    LET own  == ProviderKey(c, p)
        tier == IF t \in DOMAIN c.tierKeys THEN c.tierKeys[t] ELSE NoKey
    IN  IF HasOAuth(p) THEN Access[p] ELSE Resolved(IF own # NoKey THEN own ELSE tier, p)

\* The resolver of Pipeline::complete.
ChainKey(c, p) == Resolved(ProviderKey(c, p), p)

\* check_semantic, as far as routing reads the configuration.
Valid(c) ==
    /\ \A t \in DOMAIN c.tiers :
           /\ c.tiers[t].primary # <<>> /\ c.tiers[t].primary[1] \in DOMAIN c.providers
           /\ \A f \in ToSet(c.tiers[t].fallbacks) : f[1] \in DOMAIN c.providers
    /\ \A rule \in ToSet(c.rules) : rule.tier \in DOMAIN c.tiers
    /\ \A s \in ToSet(c.specificity) : s.primary[1] \in DOMAIN c.providers

-----------------------------------------------------------------------------
(* The pass-through endpoints *)

\* /v1/messages and /v1/responses by the wire format of the provider's type.
Accepts == [messages  |-> {"anthropic", "kiro"}, responses |-> {"openai", "responses"}]

\* passthrough_wire refuses a model without slash, a provider of another
\* format, one that is not registered and one without key.
WireAccepts(endpoint, ref, c, reg) ==
    /\ Len(ref) >= 2
    /\ ref[1] \in DOMAIN c.providers
    /\ c.providers[ref[1]].type \in Accepts[endpoint]
    /\ ref[1] \in DOMAIN reg
    /\ ChainKey(c, ref[1]) # NoKey
=============================================================================
