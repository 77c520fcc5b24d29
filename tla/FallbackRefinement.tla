------------------------- MODULE FallbackRefinement -------------------------
(***************************************************************************)
(* The fallback executor implements DispatchPromise: the mapping from the  *)
(* executor's state to the promise's.                                      *)
(***************************************************************************)
EXTENDS Fallback

MaxCallsPerEntry == 2

PhaseOf(r) == CASE pc[r] = "idle" -> "idle"
                [] pc[r] = "done" -> IF answer[r] = "Ok" THEN "ok" ELSE "failed"
                [] OTHER -> "running"

CallsOf(r) == CASE pc[r] \in {"record", "sleep", "recall"} -> 1
                [] pc[r] = "rerecord" -> 2
                [] OTHER -> 0

Promise == INSTANCE DispatchPromise WITH
    MaxCalls <- MaxCallsPerEntry,
    Lengths <- {Len(c) : c \in Chains},
    phase  <- [r \in Requests |-> PhaseOf(r)],
    length <- [r \in Requests |-> Len(chain[r])],
    entry  <- pos,
    calls  <- [r \in Requests |-> CallsOf(r)]

\* The executor keeps the promise: in-order walk, at most two calls per entry,
\* one answer, success only from an entry that was called.
ImplementsPromise == Promise!Init /\ [][Promise!Next]_(Promise!dvars)
=============================================================================
