----------------------------- MODULE MCGateway -----------------------------
(***************************************************************************)
(* The gateway on six providers, one for each adapter, of which one is not *)
(* there at the start.                                                     *)
(***************************************************************************)
EXTENDS Gateway

MCIds == {"chat", "media"}
Ps == {"openai", "anthropic", "google", "kiro", "codex", "local"}

Only(p, k) == [q \in Ps |-> IF q = p THEN k ELSE "none"]
MCStored == Only("anthropic", "stored-anthropic")
MCAccess == Only("kiro", "token-kiro")
MCDefaultModel == [p \in Ps |-> <<"default">>]

Provider(t, k) == [type |-> t, key |-> k]
Set(p, fs) == [primary |-> p, fallbacks |-> fs]

MCConfig0 ==
    [providers |-> [openai |-> Provider("openai", "key-openai"), anthropic |-> Provider("anthropic", "none"),
                    google |-> Provider("google", "none"), kiro |-> Provider("kiro", "none"),
                    local |-> Provider("generic", "key-local")],
     tiers |-> [simple     |-> Set(<<"local", "small">>, <<>>),
                complex    |-> Set(<<"anthropic", "big">>, << <<"openai", "big">> >>),
                reasoning  |-> Set(<<"kiro", "deep">>, << <<"google", "pro">> >>),
                multimodal |-> Set(<<"google", "vision">>, << <<"anthropic", "big">> >>),
                turbo      |-> Set(<<"local", "fast">>, <<>>)],
     rules |-> <<[tools |-> {TRUE}, above |-> -1, contains |-> {}, tier |-> "complex"],
                 [tools |-> BOOLEAN, above |-> 100, contains |-> {"deploy"}, tier |-> "turbo"],
                 [tools |-> BOOLEAN, above |-> -1, contains |-> {"deploy"}, tier |-> "simple"]>>,
     default |-> "simple",
     tierKeys |-> [multimodal |-> "key-multimodal"],
     detect |-> TRUE,
     specificity |-> <<[category |-> "coding", primary |-> <<"local", "coder">>, threshold |-> NoThreshold]>>]

MCReloads == {[MCConfig0 EXCEPT !.default = "complex", !.detect = FALSE, !.tierKeys = <<>>,
                                !.providers.openai.key = "key-new"],
              [MCConfig0 EXCEPT !.providers = [local |-> Provider("generic", "key-local")]]}
MCTierEdits == {[tier |-> "complex", set |-> Set(<<"gone", "x">>, <<>>)],
                [tier |-> "simple", set |-> Set(<<"openai", "tiny">>, << <<"gone", "x">> >>)]}
MCRemovals == {"openai"}
MCAdditions == {[id |-> "codex", set |-> Provider("responses", "key-codex")]}

-----------------------------------------------------------------------------
T(w) == [words |-> {w}, tokens |-> 10]
Text(w) == [kind |-> "text", text |-> T(w)]
Says1(role, w) == [role |-> role, form |-> "string", parts |-> <<Text(w)>>, calls |-> <<>>]

Talk == <<Says1("user", "hello"), Says1("system", "be brief"),
          [role |-> "assistant", form |-> "null", parts |-> <<>>, calls |-> <<"call">>],
          [role |-> "tool", form |-> "string", parts |-> <<Text("sunny")>>, calls |-> <<>>],
          Says1("system", "be kind"), Says1("developer", "and slow"), Says1("user", "thanks")>>

Picture == <<[role |-> "user", form |-> "parts", calls |-> <<>>,
              parts |-> <<Text("prove"), [kind |-> "image_url", image |-> "a"],
                          [kind |-> "image_data", image |-> "b"], [kind |-> "video", video |-> "c"]>>]>>

Long == <<[role |-> "user", form |-> "string", calls |-> <<>>,
           parts |-> <<[kind |-> "text", text |-> [words |-> {"deploy"}, tokens |-> 50001]]>>]>>

Request(model, messages, stream) ==
    [model |-> model, header |-> "none", category |-> "none", messages |-> messages, tools |-> <<>>,
     choice |-> "auto", stop |-> <<"stop">>, stream |-> stream, key |-> "none"]

Talks == {Request(m, Talk, s) : m \in {<<p, "model">> : p \in Ps \ {"local"}} \cup {<<"auto">>}, s \in BOOLEAN}

MCRequests ==
    Talks \cup
    {Request(<<"auto">>, Picture, FALSE),
     [Request(<<"openai", "vision">>, Picture, TRUE) EXCEPT !.key = "key-caller"],
     [Request(<<"auto">>, Picture, TRUE) EXCEPT !.header = "multimodal"],
     Request(<<"auto">>, Long, FALSE),
     Request(<<"auto">>, <<>>, FALSE),
     [Request(<<"auto">>, <<Says1("user", "refactor")>>, FALSE) EXCEPT !.tools = <<"code_">>],
     [Request(<<"auto">>, <<Says1("user", "derive")>>, FALSE) EXCEPT !.tools = <<"code_">>, !.key = "key-caller"],
     [Request(<<"auto">>, <<Says1("user", "fence")>>, FALSE) EXCEPT !.category = "coding"],
     Request(<<"complex", "openai", "large">>, <<Says1("user", "hello")>>, FALSE)}

-----------------------------------------------------------------------------
Empty(r) == [texts |-> <<>>, reason |-> r, newline |-> "lf"]
Answer(r, n) == [texts |-> <<"one", "two">>, reason |-> r, newline |-> n]

MCAnswers == [openai    |-> {Answer("length", "lf"), Answer("stop", "crlf")},
              anthropic |-> {Answer("max_tokens", "lf"), Answer("end_turn", "crlf"), Empty("refusal")},
              google    |-> {Answer("MAX_TOKENS", "lf"), Empty("SAFETY")},
              kiro      |-> {Answer("stop", "lf")},
              responses |-> {Answer("completed", "lf"), Answer("incomplete", "lf"), Empty("incomplete")},
              generic   |-> {Answer("stop", "lf")}]

MCWireCalls == {[endpoint |-> "messages", ref |-> <<"anthropic", "m">>],
                [endpoint |-> "messages", ref |-> <<"google", "m">>],
                [endpoint |-> "responses", ref |-> <<"openai", "m">>]}
=============================================================================
