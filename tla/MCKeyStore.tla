----------------------------- MODULE MCKeyStore -----------------------------
(* Small instances of KeyStore for TLC. *)
EXTENDS KeyStore, TLC

CONSTANTS w1, w2, p, q, s, t, k1, k2

MCWorkers == {w1, w2}
MCIds     == {p, q}
MCSecrets == {s, t}
MCMasters == {k1, k2}

Symmetry ==
    Permutations(MCWorkers) \cup Permutations({p, q}) \cup Permutations({s, t})
        \cup Permutations({k1, k2})

\* At most two statements of dropped handlers wait for the blocking pool.
FewDetached == Cardinality(detached) <= 2
=============================================================================
