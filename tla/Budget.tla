------------------------------- MODULE Budget -------------------------------
(***************************************************************************)
(* Daily and per-request spending caps (src/src/cost/limits.rs, the chat   *)
(* handler's check in src/src/server/handlers.rs, and log_completion in    *)
(* src/src/proxy/pipeline.rs).  A request is checked against what its user *)
(* has spent, runs upstream at a cost nobody knows beforehand, and is      *)
(* charged when it has answered; requests of one user run side by side,    *)
(* midnight (UTC) may pass at any point, and so may a reload that changes  *)
(* the caps: every request is held to those it found when it came.         *)
(***************************************************************************)
EXTENDS Integers, FiniteSets

CONSTANTS
    Slots,         \* requests that may run at the same time
    Users,         \* whom requests are made for
    Known,         \* those with a row in the users table
    Costs,         \* what a request may cost; NoPrice: no price for its model
    NoPrice,
    Streams,       \* whether requests may ask for a stream
    Caps,          \* what [budgets] may say, in a whole unit; 0 is no cap
    MaxCost,       \* no request costs more
    MaxDay,        \* bound: the days that pass
    MaxRequests    \* bound: the requests that are made

\* daily_cost_usd and per_request_cost_usd
BudgetConfig == [daily : Nat, perRequest : Nat]
NoCaps == [daily |-> 0, perRequest |-> 0]

ASSUME BudgetAssumption ==
    /\ IsFiniteSet(Slots)
    /\ Known \subseteq Users
    /\ Costs \subseteq (0..MaxCost) \cup {NoPrice} /\ NoPrice \notin Int
    /\ Streams \subseteq BOOLEAN
    /\ Caps \subseteq BudgetConfig
    /\ {MaxCost, MaxDay, MaxRequests} \subseteq Nat

Days == 0..MaxDay

VARIABLES
    day,        \* today (UTC)
    caps,       \* the [budgets] section of the live configuration
    spend,      \* token_usage.cost_usd, by user and day
    pc,         \* where each request stands
    user,       \* whom each request is for
    stream,     \* whether each request streams its answer
    limit,      \* the caps each request found in its snapshot
    stamp,      \* the day each request's pending statement is about
    cost,       \* what each request is charged
    requests,   \* how many requests were made
    billed,     \* history: what the providers charge, by user and day
    loosest,    \* history: the largest daily cap a request of the day was held to
    unmetered   \* history: requests let through on no check, or on a stale one

budgetVars ==
    <<day, caps, spend, pc, user, stream, limit, stamp, cost, requests, billed,
      loosest, unmetered>>

\* What a request's steps after the check leave alone.
checkVars == <<caps, loosest, unmetered>>

Init ==
    /\ day = 0
    /\ caps \in Caps
    /\ spend = [u \in Users |-> [d \in Days |-> 0]]
    /\ pc = [s \in Slots |-> "idle"]
    /\ user \in [Slots -> Users]
    /\ stream = [s \in Slots |-> FALSE]
    /\ limit = [s \in Slots |-> NoCaps]
    /\ stamp = [s \in Slots |-> 0]
    /\ cost = [s \in Slots |-> 0]
    /\ requests = 0
    /\ billed = [u \in Users |-> [d \in Days |-> 0]]
    /\ loosest = [d \in Days |-> 0]
    /\ unmetered = 0

Goto(s, label) == pc' = [pc EXCEPT ![s] = label]

\* The request is over; its local variables are gone.
Done(s) ==
    /\ Goto(s, "idle")
    /\ stream' = [stream EXCEPT ![s] = FALSE]
    /\ limit' = [limit EXCEPT ![s] = NoCaps]
    /\ stamp' = [stamp EXCEPT ![s] = 0]
    /\ cost' = [cost EXCEPT ![s] = 0]

-----------------------------------------------------------------------------
(* Before dispatch *)

\* A request arrives: the handler takes a snapshot of the caps, daily_spend
\* notes the day and asks the database.
Arrive(s, u, b) ==
    /\ pc[s] = "idle"
    /\ requests < MaxRequests
    /\ requests' = requests + 1
    /\ Goto(s, "check")
    /\ user' = [user EXCEPT ![s] = u]
    /\ stream' = [stream EXCEPT ![s] = b]
    /\ limit' = [limit EXCEPT ![s] = caps]
    /\ stamp' = [stamp EXCEPT ![s] = day]
    /\ UNCHANGED <<day, spend, cost, billed, checkVars>>

\* The request is priced as if it had no tokens.
Projected == 0

OverCap(s) ==
    \/ limit[s].perRequest > 0 /\ Projected > limit[s].perRequest
    \/ limit[s].daily > 0 /\ spend[user[s]][stamp[s]] + Projected > limit[s].daily

\* The request was held to a cap, and for the day it is now.
Metered(s) == limit[s].daily > 0 /\ stamp[s] = day

Larger(m, n) == IF m < n THEN n ELSE m

\* The histories of what a request was let through on.
LetThrough(s, metered) ==
    IF metered
      THEN /\ loosest' = [loosest EXCEPT ![day] = Larger(@, limit[s].daily)]
           /\ UNCHANGED unmetered
      ELSE /\ unmetered' = unmetered + 1
           /\ UNCHANGED loosest

Deny(s) ==
    /\ pc[s] = "check"
    /\ OverCap(s)
    /\ Done(s)
    /\ UNCHANGED <<day, spend, user, requests, billed, checkVars>>

\* Mutation of Admit: nobody looks at what was spent.
BugAdmitAll(s) ==
    /\ pc[s] = "check"
    /\ Goto(s, "upstream")
    /\ LetThrough(s, Metered(s))
    /\ UNCHANGED <<day, caps, spend, user, stream, limit, stamp, cost, requests, billed>>

Admit(s) ==
    /\ pc[s] = "check"
    /\ ~OverCap(s)
    /\ Goto(s, "upstream")
    /\ LetThrough(s, Metered(s))
    /\ UNCHANGED <<day, caps, spend, user, stream, limit, stamp, cost, requests, billed>>

\* Only the daily cap asks the database, and if that fails the request is let
\* through.
CheckFails(s) ==
    /\ pc[s] = "check"
    /\ limit[s].daily > 0
    /\ Goto(s, "upstream")
    /\ LetThrough(s, FALSE)
    /\ UNCHANGED <<day, caps, spend, user, stream, limit, stamp, cost, requests, billed>>

-----------------------------------------------------------------------------
(* The answer and its charge *)

\* What the provider charges for the answer.
Charged(s, c) ==
    /\ billed' = [billed EXCEPT ![user[s]][day] = @ + (IF c = NoPrice THEN 0 ELSE c)]

\* A stream is passed on and forgotten.
StreamEnds(s, c) ==
    /\ pc[s] = "upstream"
    /\ stream[s]
    /\ Charged(s, c)
    /\ Done(s)
    /\ UNCHANGED <<day, spend, user, requests, checkVars>>

\* Mutation of Answer: an answer without a price is recorded all the same.
BugRecordsUnpriced(s, c) ==
    /\ pc[s] = "upstream"
    /\ ~stream[s]
    /\ Charged(s, c)
    /\ Goto(s, "record")
    /\ stamp' = [stamp EXCEPT ![s] = day]
    /\ cost' = [cost EXCEPT ![s] = c]
    /\ UNCHANGED <<day, spend, user, stream, limit, requests, checkVars>>

\* log_completion: record_usage notes the day and hands over the statement,
\* if there is a user and a price.
Answer(s, c) ==
    /\ pc[s] = "upstream"
    /\ ~stream[s]
    /\ Charged(s, c)
    /\ IF c = NoPrice
         THEN Done(s)
         ELSE /\ Goto(s, "record")
              /\ stamp' = [stamp EXCEPT ![s] = day]
              /\ cost' = [cost EXCEPT ![s] = c]
              /\ UNCHANGED <<stream, limit>>
    /\ UNCHANGED <<day, spend, user, requests, checkVars>>

\* No provider answers: nothing is charged or recorded.
UpstreamFails(s) ==
    /\ pc[s] = "upstream"
    /\ Done(s)
    /\ UNCHANGED <<day, spend, user, requests, billed, checkVars>>

\* Mutation of Record: the charge goes into the row twice.
BugRecordTwice(s) ==
    /\ pc[s] = "record"
    /\ spend' = [spend EXCEPT ![user[s]][stamp[s]] = @ + 2 * cost[s]]
    /\ Done(s)
    /\ UNCHANGED <<day, user, requests, billed, checkVars>>

\* The row grows by the cost, or the statement fails and nobody hears of it:
\* it does for users without a row (no user id, or one that token_usage cannot
\* refer to).
Record(s) ==
    /\ pc[s] = "record"
    /\ \/ /\ user[s] \in Known
          /\ spend' = [spend EXCEPT ![user[s]][stamp[s]] = @ + cost[s]]
       \/ UNCHANGED spend
    /\ Done(s)
    /\ UNCHANGED <<day, user, requests, billed, checkVars>>

\* The administrator changes [budgets]; requests under way keep theirs.
Reload(c) ==
    /\ c # caps
    /\ caps' = c
    /\ UNCHANGED <<day, spend, pc, user, stream, limit, stamp, cost, requests, billed,
                   loosest, unmetered>>

\* Midnight.
NextDay ==
    /\ day < MaxDay
    /\ day' = day + 1
    /\ UNCHANGED <<spend, pc, user, stream, limit, stamp, cost, requests, billed,
                   checkVars>>

Next ==
    \/ \E s \in Slots :
          \/ \E u \in Users, b \in Streams : Arrive(s, u, b)
          \/ Deny(s) \/ Admit(s) \/ CheckFails(s)
          \/ \E c \in Costs : StreamEnds(s, c) \/ Answer(s, c)
          \/ UpstreamFails(s) \/ Record(s)
    \/ \E c \in Caps : Reload(c)
    \/ NextDay

Spec == Init /\ [][Next]_budgetVars

-----------------------------------------------------------------------------
\* Every variable has its type (token_usage and the locals of the chat
\* handler), and what is recorded was charged.
TypeOK ==
    /\ day \in Days
    /\ caps \in Caps
    /\ spend \in [Users -> [Days -> Nat]]
    /\ pc \in [Slots -> {"idle", "check", "upstream", "record"}]
    /\ user \in [Slots -> Users]
    /\ stream \in [Slots -> BOOLEAN]
    /\ limit \in [Slots -> BudgetConfig]
    /\ stamp \in [Slots -> 0..day]
    /\ cost \in [Slots -> 0..MaxCost]
    /\ requests \in 0..MaxRequests
    /\ billed \in [Users -> [Days -> Nat]]
    /\ loosest \in [Days -> Nat]
    /\ unmetered \in Nat

\* Though a request is checked long before it is charged, a user's recorded
\* spend of a day passes the largest daily cap that any request of that day
\* was held to by no more than one request for every slot, and one for every
\* request that was let through unchecked, because its snapshot had no daily
\* cap or the check failed, or was checked against a day that was over (check
\* and record_usage, with the upstream call between them).  The cap in force
\* now bounds nothing: a reload that lowers it, or introduces it, finds a day
\* that may be past it already.
SpendBounded ==
    \A u \in Users, d \in Days :
        spend[u][d] <= loosest[d] + MaxCost * (Cardinality(Slots) + unmetered)

\* However charges overlap, and on whichever side of midnight they fall, no
\* user's day is charged more than providers billed for it, so nobody is denied
\* for money that was not spent (log_completion, record_usage).
NeverOvercharged ==
    \A u \in Users, d \in Days : spend[u][d] <= billed[u][d]
=============================================================================
