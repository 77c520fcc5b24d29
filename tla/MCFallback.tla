----------------------------- MODULE MCFallback -----------------------------
(* Small instances of Fallback for TLC. *)
EXTENDS FallbackRefinement, TLC

CONSTANTS a, b,        \* providers
          m1, m2,      \* models
          r1, r2       \* request slots

MCProviders == {a, b}
MCModels    == {m1, m2}
MCDefaultModel == [p \in {a, b} |-> IF p = a THEN m1 ELSE m2]

\* A primary with one fallback; the tier asks provider b for a model that is
\* not the adapter's default.
MCChains == {<<[provider |-> a, model |-> m1], [provider |-> b, model |-> m1]>>}
\* The same provider twice, once per model.
MCTwiceChain == {<<[provider |-> a, model |-> m1], [provider |-> a, model |-> m2]>>}

MCOneProvider == {a}
MCDefaultModelOne == [p \in {a} |-> m1]

\* A reload between two requests raises or lowers the threshold; the stricter
\* setting does not wait out a rate limit.
MCSettings == {[threshold |-> 1, budget |-> 1, maxWait |-> 0],
               [threshold |-> 2, budget |-> 1, maxWait |-> 2]}

MCOneSetting == {[threshold |-> 1, budget |-> 1, maxWait |-> 2]}

MCRequests == {r1, r2}
RequestSymmetry == Permutations({r1, r2})

=============================================================================
