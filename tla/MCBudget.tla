------------------------------ MODULE MCBudget ------------------------------
(* Small instances of Budget for TLC. *)
EXTENDS Budget, TLC

CONSTANTS s1, s2, alice, guest

MCTwoSlots == {s1, s2}
MCAlice    == {alice}
MCMixed    == {alice, guest}
MCCosts    == {2, NoPrice}
MCEither   == BOOLEAN

\* A reload takes the caps away, brings them back or loosens them.
MCCaps == {NoCaps, [daily |-> 1, perRequest |-> 1], [daily |-> 2, perRequest |-> 0]}

Symmetry == Permutations(MCTwoSlots)
=============================================================================
