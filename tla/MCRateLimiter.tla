---------------------------- MODULE MCRateLimiter ----------------------------
(* Small instances of RateLimiter for TLC. *)
EXTENDS RateLimiter, TLC

CONSTANTS r1, r2, k1, k2

MCRequests == {r1, r2}
MCKeys == {k1, k2}

\* Half a token per tick for a key, one token per tick globally.
Tight == [keyRate |-> 1, keyBurst |-> 3, globalRate |-> 3, globalBurst |-> 6]
Generous == [keyRate |-> 3, keyBurst |-> 4, globalRate |-> 3, globalBurst |-> 4]

\* Keys that are admitted nothing, and a global bucket that is never refilled.
Closed == [keyRate |-> 1, keyBurst |-> 0, globalRate |-> 0, globalBurst |-> 4]

Symmetric == Permutations(MCRequests) \cup Permutations(MCKeys)

MCConfigs == {[enabled |-> TRUE, limits |-> Tight], [enabled |-> FALSE, limits |-> Tight],
              [enabled |-> TRUE, limits |-> Closed]}
=============================================================================
