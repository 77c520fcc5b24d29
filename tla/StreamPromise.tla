--------------------------- MODULE StreamPromise ---------------------------
(***************************************************************************)
(* What the caller of a streamed chat may count on: chunks in order, at    *)
(* most one error, behind which there is nothing but the terminator, and   *)
(* the terminator once and last.  A caller that leaves gets no more.       *)
(***************************************************************************)
EXTENDS Sequences

CONSTANTS Chunks   \* the chunks an adapter can yield

VARIABLES sent,    \* the events of the answer so far
          status   \* "none", "open", "closed" or "gone"

promiseVars == <<sent, status>>

Error == [kind |-> "error"]
Terminator == [kind |-> "done"]

PromiseInit == sent = <<>> /\ status = "none"

PromiseOpen == status = "none" /\ status' = "open" /\ sent' = <<>>

PromiseChunk ==
    /\ status = "open"
    /\ Error \notin {sent[i] : i \in DOMAIN sent}
    /\ \E c \in Chunks : sent' = Append(sent, [kind |-> "chunk", chunk |-> c])
    /\ UNCHANGED status

PromiseError ==
    /\ status = "open"
    /\ Error \notin {sent[i] : i \in DOMAIN sent}
    /\ sent' = Append(sent, Error)
    /\ UNCHANGED status

PromiseEnd == status = "open" /\ status' = "closed" /\ sent' = Append(sent, Terminator)

PromiseLeave == status = "open" /\ status' = "gone" /\ UNCHANGED sent

\* An answer that is over makes room for the next.
PromiseForget == status \in {"closed", "gone"} /\ status' = "none" /\ sent' = <<>>

PromiseNext == PromiseForget \/ PromiseOpen \/ PromiseChunk \/ PromiseError \/ PromiseEnd \/ PromiseLeave

PromiseSpec == PromiseInit /\ [][PromiseNext]_promiseVars
=============================================================================
