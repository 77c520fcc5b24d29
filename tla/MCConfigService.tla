--------------------------- MODULE MCConfigService ---------------------------
(* Small instances of ConfigService for TLC. *)
EXTENDS ConfigService, TLC

CONSTANTS w1, w2, p, q

MCWorkers      == {w1, w2}
MCTwoIds       == {p, q}
MCBuildable    == {p}

Symmetry == Permutations(MCWorkers)
=============================================================================
