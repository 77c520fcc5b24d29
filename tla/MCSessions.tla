----------------------------- MODULE MCSessions -----------------------------
(* A small instance of Sessions for TLC. *)
EXTENDS Sessions, TLC

CONSTANTS s1, s2, i1, i2, e1, e2, p1, k1, k2, t1

MCSlots     == {s1, s2}
MCIds       == {i1, i2}
MCEmails    == {e1, e2}
MCPasswords == {p1}
MCKeyIds    == {k1, k2}
MCTokens    == {t1}
MCMasters   == {"legacy"}

Symmetry == Permutations(MCSlots) \cup Permutations(MCIds)
                \cup Permutations(MCKeyIds)
=============================================================================
