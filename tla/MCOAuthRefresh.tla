--------------------------- MODULE MCOAuthRefresh ---------------------------
(* A small instance of OAuthRefresh for TLC. *)
EXTENDS OAuthRefresh, TLC

CONSTANTS w1, w2, p, g, h, k, l

MCWorkers   == {w1, w2}
MCProviders == {p}
MCGrants    == {g, h}
MCMasters   == {k, l}
MCTokens    == [grant : MCGrants, serial : 0..MaxSerial]

Symmetry == Permutations(MCWorkers) \cup Permutations(MCGrants)
                \cup Permutations(MCMasters)
=============================================================================
