---------------------------- MODULE RateLimiter ----------------------------
(***************************************************************************)
(* The token-bucket rate limiter (src/src/ratelimit.rs): one global bucket *)
(* and one bucket per key, refilled lazily from the time since the last    *)
(* access.  `try_acquire` takes the global token under one lock and the    *)
(* key's token under another, so the requests of different threads         *)
(* interleave between the two.  Tokens are counted in units: one request   *)
(* costs Unit of them, so a refill rate may be a fraction of a token.      *)
(***************************************************************************)
EXTENDS Integers

CONSTANTS
    Requests,        \* worker threads handling a limited path
    Keys,            \* key prefixes, session ids, "anonymous"
    Global,          \* the name of the global bucket
    Unit,            \* units in one token
    Configs,         \* the [ratelimit] sections a configuration may hold
    DisabledLimits,  \* RateLimiter::disabled()
    Window           \* length of the longest interval admissions are counted over

Limits  == [keyRate : Nat, keyBurst : Nat, globalRate : Nat, globalBurst : Nat]
Buckets == Keys \cup {Global}

\* The code accepts a rate or a burst of zero as well.
ASSUME LimiterAssumption ==
    /\ Global \notin Keys
    /\ Unit \in Nat \ {0}
    /\ Configs \subseteq [enabled : BOOLEAN, limits : Limits]
    /\ DisabledLimits \in Limits
    /\ Window \in Nat \ {0}

VARIABLES
    active,   \* the [ratelimit] section of the configuration snapshot
    limits,   \* the parameters the limiter was built with at startup
    tokens,   \* Bucket.tokens, in units; a key without an entry has a full one
    age,      \* ticks since Bucket.last_refill, up to the time to fill up
    pc,       \* where each request stands in the middleware
    key,      \* the key of each request; Global before it has one
    spent,    \* history: admissions of a bucket in the last 1..Window ticks
    refusal   \* history: the bucket that refused a request and the ticks it
              \* was told to wait; forgotten once anyone takes a token there

history == <<spent, refusal>>
vars == <<active, limits, tokens, age, pc, key, spent, refusal>>

-----------------------------------------------------------------------------
RateOf(b)  == IF b = Global THEN limits.globalRate ELSE limits.keyRate
BurstOf(b) == IF b = Global THEN limits.globalBurst ELSE limits.keyBurst

Smaller(m, n) == IF m < n THEN m ELSE n

\* The tokens `try_consume` finds after its lazy refill.
Level(b) == Smaller(tokens[b] + age[b] * RateOf(b), BurstOf(b))

\* No wait, or one nobody lives to see the end of.
Never == -1

\* Mutation of RetryAfter: rounded down.
BugRetryTooSoon(b) ==
    IF RateOf(b) = 0 THEN Never ELSE (Unit - Level(b)) \div RateOf(b)

\* (need / refill_per_sec).ceil().max(1), at a level below one token; at a rate
\* of zero the quotient is infinite, and the client is told u64::MAX seconds.
RetryAfter(b) ==
    IF RateOf(b) = 0 THEN Never
    ELSE (Unit - Level(b) + RateOf(b) - 1) \div RateOf(b)

NoRefusal == [bucket |-> Global, wait |-> Never]

Init ==
    /\ active \in Configs
    /\ limits = IF active.enabled THEN active.limits ELSE DisabledLimits
    /\ tokens = [b \in Buckets |-> BurstOf(b)]
    /\ age    = [b \in Buckets |-> 0]
    /\ pc     = [r \in Requests |-> "idle"]
    /\ key    = [r \in Requests |-> Global]
    /\ spent  = [b \in Buckets |-> [w \in 1..Window |-> 0]]
    /\ refusal = [r \in Requests |-> NoRefusal]

\* The middleware reads `enabled` of the snapshot, and nothing else.
Arrive(r, k) ==
    /\ pc[r] \in {"idle", "passed", "refused"}
    /\ key' = [key EXCEPT ![r] = k]
    /\ pc'  = [pc EXCEPT ![r] = IF active.enabled THEN "global" ELSE "passed"]
    /\ refusal' = [refusal EXCEPT ![r] = NoRefusal]
    /\ UNCHANGED <<active, limits, tokens, age, spent>>

\* Mutation of Access: last_refill is not advanced.
BugRefillTwice(b, level) ==
    /\ tokens' = [tokens EXCEPT ![b] = level]
    /\ UNCHANGED age

\* What an access leaves in the bucket.
Access(b, level) ==
    /\ tokens' = [tokens EXCEPT ![b] = level]
    /\ age'    = [age EXCEPT ![b] = 0]

\* Mutation of TryConsume: any fraction of a token will do.
BugFractionEnough(r, b, next) ==
    \/ /\ Level(b) > 0
       /\ Access(b, Level(b) - Unit)
       /\ pc' = [pc EXCEPT ![r] = next]
       /\ UNCHANGED history
    \/ /\ Level(b) = 0
       /\ Access(b, Level(b))
       /\ pc' = [pc EXCEPT ![r] = "refused"]
       /\ UNCHANGED history

\* Bucket::try_consume under the bucket's lock: on to `next`, or a 429.
TryConsume(r, b, next) ==
    \/ /\ Level(b) >= Unit
       /\ Access(b, Level(b) - Unit)
       /\ pc' = [pc EXCEPT ![r] = next]
       /\ spent' = [spent EXCEPT ![b] = [w \in 1..Window |-> @[w] + 1]]
       /\ refusal' = [q \in Requests |-> IF refusal[q].bucket = b THEN NoRefusal
                                         ELSE refusal[q]]
    \/ /\ Level(b) < Unit
       /\ Access(b, Level(b))
       /\ pc' = [pc EXCEPT ![r] = "refused"]
       /\ refusal' = [refusal EXCEPT ![r] = [bucket |-> b, wait |-> RetryAfter(b)]]
       /\ UNCHANGED spent

AcquireGlobal(r) ==
    /\ pc[r] = "global"
    /\ TryConsume(r, Global, "key")
    /\ UNCHANGED <<active, limits, key>>

\* The global token is not given back when the key's bucket refuses.
AcquireKey(r) ==
    /\ pc[r] = "key"
    /\ TryConsume(r, key[r], "passed")
    /\ UNCHANGED <<active, limits, key>>

\* ConfigService::reload or update: the limiter keeps its parameters.
Reload(c) ==
    /\ c # active
    /\ active' = c
    /\ UNCHANGED <<limits, tokens, age, pc, key, spent, refusal>>

\* Ages beyond the time a bucket needs to fill up are not told apart.
Tick ==
    /\ age' = [b \in Buckets |->
                 IF RateOf(b) = 0 \/ tokens[b] + age[b] * RateOf(b) >= BurstOf(b)
                 THEN age[b] ELSE age[b] + 1]
    /\ spent' = [b \in Buckets |-> [w \in 1..Window |-> IF w = 1 THEN 0
                                                         ELSE spent[b][w - 1]]]
    /\ refusal' = [r \in Requests |-> IF refusal[r].wait > 0
                                      THEN [refusal[r] EXCEPT !.wait = @ - 1]
                                      ELSE refusal[r]]
    /\ UNCHANGED <<active, limits, tokens, pc, key>>

Next ==
    \/ \E r \in Requests : \E k \in Keys : Arrive(r, k)
    \/ \E r \in Requests : AcquireGlobal(r) \/ AcquireKey(r)
    \/ \E c \in Configs : Reload(c)
    \/ Tick

Spec == Init /\ [][Next]_vars

-----------------------------------------------------------------------------
\* Every variable has its type (Bucket and RateLimiter, ratelimit.rs); a bucket
\* never holds more than its burst.
TypeOK ==
    /\ active \in Configs
    /\ limits \in Limits
    /\ tokens \in [Buckets -> Nat]
    /\ \A b \in Buckets : tokens[b] <= BurstOf(b)
    /\ age \in [Buckets -> Nat]
    /\ pc \in [Requests -> {"idle", "global", "key", "passed", "refused"}]
    /\ key \in [Requests -> Buckets]
    /\ spent \in [Buckets -> [1..Window -> Nat]]
    /\ refusal \in [Requests -> [bucket : Buckets, wait : Nat \cup {Never}]]

\* Whatever the interleaving of the two lock acquisitions and whenever the
\* lazy refill happens, no bucket admits more in any w ticks than its burst
\* and the refill of those ticks (try_consume, ratelimit.rs).
WindowBound ==
    \A b \in Buckets : \A w \in 1..Window :
        spent[b][w] * Unit <= BurstOf(b) + (w - 1) * RateOf(b)

\* A client that was refused and waited for Retry-After finds a token in the
\* bucket that refused it, unless another request took one there meanwhile, or
\* the bucket's burst is less than a token: then it never admits anyone, and
\* what its 429 says is true of nothing (the middleware, ratelimit.rs).
RetryAfterSuffices ==
    \A r \in Requests :
        refusal[r].wait = 0 /\ BurstOf(refusal[r].bucket) >= Unit =>
            Level(refusal[r].bucket) >= Unit
=============================================================================
