--------------------------- MODULE DispatchPromise ---------------------------
(***************************************************************************)
(* What the fallback executor promises its caller, without health, time,   *)
(* registry or classification: a request walks a list of alternatives from *)
(* the first to the last, asks each at most twice, answers at most once,   *)
(* and answers with success only from an alternative it has asked.         *)
(***************************************************************************)
EXTENDS Naturals

CONSTANTS
    Requests,   \* the requests that may be under way together
    Lengths,    \* how many alternatives a request may have
    MaxCalls    \* calls one alternative may be asked to answer

VARIABLES
    phase,     \* "idle", "running", "ok" or "failed"
    length,    \* number of alternatives of the accepted request
    entry,     \* the alternative under way
    calls      \* calls answered by that alternative

dvars == <<phase, length, entry, calls>>

Init ==
    /\ phase  = [r \in Requests |-> "idle"]
    /\ length = [r \in Requests |-> 0]
    /\ entry  = [r \in Requests |-> 1]
    /\ calls  = [r \in Requests |-> 0]

\* A request arrives with n alternatives.
Accept(r, n) ==
    /\ phase[r] # "running"
    /\ phase'  = [phase EXCEPT ![r] = "running"]
    /\ length' = [length EXCEPT ![r] = n]
    /\ entry'  = [entry EXCEPT ![r] = 1]
    /\ calls'  = [calls EXCEPT ![r] = 0]

\* The current alternative answers a call.
Ask(r) ==
    /\ phase[r] = "running"
    /\ entry[r] <= length[r]
    /\ calls[r] < MaxCalls
    /\ calls' = [calls EXCEPT ![r] = @ + 1]
    /\ UNCHANGED <<phase, length, entry>>

\* The current alternative is given up.
Advance(r) ==
    /\ phase[r] = "running"
    /\ entry[r] <= length[r]
    /\ entry' = [entry EXCEPT ![r] = @ + 1]
    /\ calls' = [calls EXCEPT ![r] = 0]
    /\ UNCHANGED <<phase, length>>

\* The request succeeds with the answer of the current alternative.
Succeed(r) ==
    /\ phase[r] = "running"
    /\ calls[r] > 0
    /\ phase' = [phase EXCEPT ![r] = "ok"]
    /\ calls' = [calls EXCEPT ![r] = 0]
    /\ UNCHANGED <<length, entry>>

\* The request fails, with alternatives left or without.
Fail(r) ==
    /\ phase[r] = "running"
    /\ phase' = [phase EXCEPT ![r] = "failed"]
    /\ calls' = [calls EXCEPT ![r] = 0]
    /\ UNCHANGED <<length, entry>>

\* The request is withdrawn.
Withdraw(r) ==
    /\ phase[r] = "running"
    /\ phase'  = [phase EXCEPT ![r] = "idle"]
    /\ length' = [length EXCEPT ![r] = 0]
    /\ entry'  = [entry EXCEPT ![r] = 1]
    /\ calls'  = [calls EXCEPT ![r] = 0]

Next ==
    \E r \in Requests :
        \/ \E n \in Lengths : Accept(r, n)
        \/ Ask(r) \/ Advance(r) \/ Succeed(r) \/ Fail(r) \/ Withdraw(r)

Spec == Init /\ [][Next]_dvars
=============================================================================
