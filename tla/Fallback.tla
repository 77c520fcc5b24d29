------------------------------ MODULE Fallback ------------------------------
(***************************************************************************)
(* The fallback executor of the router (src/src/proxy/fallback.rs) running *)
(* against the shared per-provider health registry                         *)
(* (src/src/providers/health.rs), as `Pipeline::complete` drives it        *)
(* (src/src/proxy/pipeline.rs).                                            *)
(*                                                                         *)
(* Every element of Requests is one in-flight slot of the tokio server: it *)
(* executes `execute` for one request after another.  Steps of different   *)
(* slots interleave at the `.await` points of the code, which is where the *)
(* program counter `pc` stops.  Time is a Tick that ages the budgets,      *)
(* sleeps and cooldowns together; nothing forces a slot to move before the *)
(* next Tick, because the code puts no upper bound on any of its steps.    *)
(***************************************************************************)
EXTENDS Integers, Sequences

CONSTANTS
    Providers,         \* provider ids
    Models,            \* model ids
    DefaultModel,      \* adapter.default_model() of each provider
    Requests,          \* concurrent request slots
    Chains,            \* primary + fallbacks of the tiers a snapshot may hold
    Removable,         \* the providers an administrator may remove and re-add
    Settings,          \* the [retry] settings a snapshot may hold
    MaxThreshold,      \* no threshold of Settings is greater
    Cooldown,          \* cooldown_secs, in ticks
    RateLimitWait      \* the 1500 ms wait of a 429, in ticks

Entry == [provider : Providers, model : Models]

\* What a request takes from the [retry] section of its own snapshot:
\* max_same_provider_retries.max(1), the failures that open a circuit, and
\* request_budget_ms and max_retry_after_ms in ticks.
RetrySettings == [threshold : 1..MaxThreshold, budget : Nat, maxWait : Nat]

ASSUME FallbackAssumption ==
    /\ DefaultModel \in [Providers -> Models]
    /\ Chains \subseteq Seq(Entry) \ {<<>>}
    /\ Removable \subseteq Providers
    /\ MaxThreshold \in Nat
    /\ Settings \subseteq RetrySettings
    /\ Settings # {}
    /\ Cooldown \in Nat
    /\ RateLimitWait \in Nat

VARIABLES
    registered,     \* ids in the ProviderRegistry map
    failures,       \* ProviderHealth.consecutive_failures, up to MaxThreshold
    status,         \* ProviderHealth.status
    cooling,        \* ticks left until ProviderHealth.cooldown_until, 0 if none
    pc,             \* where each slot stands in `execute`
    chain,          \* the plan: primary followed by fallbacks
    settings,       \* the [retry] settings of the request's snapshot
    pos,            \* index of the current chain entry
    elapsed,        \* started.elapsed(), up to the budget
    sleeping,       \* ticks left of the sleep before the retry
    outcome,        \* outcome of the first call to the current entry
    retryOutcome,   \* outcome of the retry of the current entry
    attempts,       \* Vec<AttemptRecord>
    fallbackCount,  \* fallback_count
    answer          \* what `execute` returned

healthVars == <<failures, status, cooling>>
planVars   == <<settings, elapsed>>
walkVars   == <<chain, settings, elapsed, attempts, fallbackCount, pos>>
callVars   == <<outcome, retryOutcome, sleeping>>
vars == <<registered, failures, status, cooling, pc, chain, settings, pos,
          elapsed, sleeping, outcome, retryOutcome, attempts, fallbackCount, answer>>

\* What a slot without a request holds in place of settings; nobody reads it.
NoSettings == CHOOSE s \in Settings : TRUE

-----------------------------------------------------------------------------
(* Classification of what an upstream may answer *)

\* Ok, the HTTP statuses `classify_status` tells apart (a 400 whose text
\* mentions the context window is "400ctx"), and transport errors.
Replies == {"Ok", "401", "403", "408", "429", "400ctx", "400", "5xx",
            "Timeout", "Internal"}

\* classify / classify_status
Classify(reply) ==
    CASE reply = "Ok"               -> "Success"
      [] reply \in {"401", "403"}   -> "Fatal"
      [] reply \in {"408", "429"}   -> "Retry"
      [] reply = "400ctx"           -> "ContextTooLong"
      [] OTHER                      -> "Skip"

\* wait_ms.min(plan.max_retry_after_ms)
RetryWait(reply, maxWait) ==
    CASE reply # "429"           -> 0
      [] RateLimitWait < maxWait -> RateLimitWait
      [] OTHER                   -> maxWait

CallOutcomes == {"Success", "Retry", "Skip", "Fatal", "ContextTooLong"}

\* The outcomes recorded without a call: Skip { "in cooldown" } and
\* Skip { "no adapter" }.
SkippedOutcomes == {"InCooldown", "NoAdapter"}

AttemptRecord == [entry : Nat, model : Models,
                  outcome : CallOutcomes \cup SkippedOutcomes]

-----------------------------------------------------------------------------
(* The health registry: one write lock around each operation *)

\* Mutation of IsAvailable: the breaker is never consulted.
BugAlwaysAvailable(p) == TRUE

\* HealthRegistry::is_available; a provider without a record has cooling = 0
IsAvailable(p) == cooling[p] = 0

\* Mutation of RecordSuccess: cooldown_until is not cleared.
BugSuccessKeepsCooldown(p) ==
    /\ status'   = [status EXCEPT ![p] = "Healthy"]
    /\ failures' = [failures EXCEPT ![p] = 0]
    /\ UNCHANGED cooling

RecordSuccess(p) ==
    /\ status'   = [status EXCEPT ![p] = "Healthy"]
    /\ failures' = [failures EXCEPT ![p] = 0]
    /\ cooling'  = [cooling EXCEPT ![p] = 0]

\* The caller brings the threshold of its own snapshot.  A count is compared
\* with no threshold above MaxThreshold, so it stops there.
RecordFailure(p, threshold) ==
    LET count == failures[p] + 1
        opens == count >= threshold IN
    /\ failures' = [failures EXCEPT ![p] = IF count > MaxThreshold THEN MaxThreshold
                                           ELSE count]
    /\ status'   = [status EXCEPT ![p] = IF opens THEN "Down" ELSE @]
    /\ cooling'  = [cooling EXCEPT ![p] = IF opens THEN Cooldown ELSE @]

\* A rate limit or request timeout counts as a healthy answer.
RecordHealth(p, o, threshold) ==
    \/ o \in {"Success", "Retry"} /\ RecordSuccess(p)
    \/ o \notin {"Success", "Retry"} /\ RecordFailure(p, threshold)

-----------------------------------------------------------------------------
Init ==
    /\ registered = Providers
    /\ failures = [p \in Providers |-> 0]
    /\ status   = [p \in Providers |-> "Healthy"]
    /\ cooling  = [p \in Providers |-> 0]
    /\ pc       = [r \in Requests |-> "idle"]
    /\ chain    = [r \in Requests |-> <<>>]
    /\ settings = [r \in Requests |-> NoSettings]
    /\ pos      = [r \in Requests |-> 1]
    /\ elapsed  = [r \in Requests |-> 0]
    /\ sleeping = [r \in Requests |-> 0]
    /\ outcome  = [r \in Requests |-> "None"]
    /\ retryOutcome  = [r \in Requests |-> "None"]
    /\ attempts      = [r \in Requests |-> <<>>]
    /\ fallbackCount = [r \in Requests |-> 0]
    /\ answer        = [r \in Requests |-> "None"]

CurrentEntry(r)    == chain[r][pos[r]]
CurrentProvider(r) == CurrentEntry(r).provider

Running(r) == pc[r] \notin {"idle", "done"}

Goto(r, label) == pc' = [pc EXCEPT ![r] = label]

Record(r, model, o) ==
    attempts' = [attempts EXCEPT ![r] =
                   Append(@, [entry |-> pos[r], model |-> model, outcome |-> o])]

\* Mutation of NextEntry: the entry is given up without being counted.
BugUncountedFallback(r) ==
    /\ Goto(r, "entry")
    /\ pos' = [pos EXCEPT ![r] = @ + 1]
    /\ UNCHANGED <<fallbackCount, answer, planVars>>

\* Mutation of NextEntry: the chain is not advanced.
BugSameEntryAgain(r) ==
    /\ Goto(r, "entry")
    /\ fallbackCount' = [fallbackCount EXCEPT ![r] = @ + 1]
    /\ UNCHANGED <<pos, answer, planVars>>

\* `continue`, or the end of the loop body: on to the next chain entry
NextEntry(r) ==
    /\ Goto(r, "entry")
    /\ pos' = [pos EXCEPT ![r] = @ + 1]
    /\ fallbackCount' = [fallbackCount EXCEPT ![r] = @ + 1]
    /\ UNCHANGED <<answer, planVars>>

\* `execute` returns, and its plan and clock are gone.
Return(r, a) ==
    /\ Goto(r, "done")
    /\ answer' = [answer EXCEPT ![r] = a]
    /\ settings' = [settings EXCEPT ![r] = NoSettings]
    /\ elapsed' = [elapsed EXCEPT ![r] = 0]
    /\ UNCHANGED <<pos, fallbackCount>>

\* Pipeline::complete takes a configuration snapshot and builds the plan.  A
\* reload between two requests gives them different chains and settings.
Dispatch(r, c, s) ==
    /\ pc[r] \in {"idle", "done"}
    /\ Goto(r, "entry")
    /\ chain'    = [chain EXCEPT ![r] = c]
    /\ settings' = [settings EXCEPT ![r] = s]
    /\ pos'      = [pos EXCEPT ![r] = 1]
    /\ elapsed'  = [elapsed EXCEPT ![r] = 0]
    /\ attempts' = [attempts EXCEPT ![r] = <<>>]
    /\ fallbackCount' = [fallbackCount EXCEPT ![r] = 0]
    /\ outcome'  = [outcome EXCEPT ![r] = "None"]
    /\ retryOutcome' = [retryOutcome EXCEPT ![r] = "None"]
    /\ answer'   = [answer EXCEPT ![r] = "None"]
    /\ UNCHANGED <<registered, healthVars, sleeping>>

\* The loop is over: "all fallbacks exhausted".
Exhaust(r) ==
    /\ pc[r] = "entry"
    /\ pos[r] > Len(chain[r])
    /\ Return(r, "Exhausted")
    /\ UNCHANGED <<registered, healthVars, chain, attempts, callVars>>

\* Head of the loop body: the wall-clock budget is tested once per entry.
CheckBudget(r) ==
    /\ pc[r] = "entry"
    /\ pos[r] <= Len(chain[r])
    /\ \/ elapsed[r] >= settings[r].budget /\ Return(r, "OutOfBudget")
       \/ elapsed[r] < settings[r].budget /\ Goto(r, "health")
                                          /\ UNCHANGED <<pos, fallbackCount, answer, planVars>>
    /\ outcome' = [outcome EXCEPT ![r] = "None"]
    /\ retryOutcome' = [retryOutcome EXCEPT ![r] = "None"]
    /\ UNCHANGED <<registered, healthVars, chain, attempts, sleeping>>

\* Mutation of CheckHealth: the `continue` of the skip is missing.
BugSkipWithoutContinue(r) ==
    /\ pc[r] = "health"
    /\ Goto(r, "resolve")
    /\ \/ IsAvailable(CurrentProvider(r)) /\ UNCHANGED attempts
       \/ /\ ~IsAvailable(CurrentProvider(r))
          /\ Record(r, CurrentEntry(r).model, "InCooldown")
    /\ UNCHANGED <<registered, healthVars, chain, settings, elapsed, callVars, pos,
                   fallbackCount, answer>>

\* The circuit breaker: a provider in cooldown is skipped.
CheckHealth(r) ==
    /\ pc[r] = "health"
    /\ \/ /\ IsAvailable(CurrentProvider(r))
          /\ Goto(r, "resolve")
          /\ UNCHANGED <<pos, fallbackCount, answer, planVars, attempts>>
       \/ /\ ~IsAvailable(CurrentProvider(r))
          /\ Record(r, CurrentEntry(r).model, "InCooldown")
          /\ NextEntry(r)
    /\ UNCHANGED <<registered, healthVars, chain, callVars>>

\* The resolver clones the adapter out of the registry; a provider removed
\* after this step is still called.
Resolve(r) ==
    /\ pc[r] = "resolve"
    /\ \/ /\ CurrentProvider(r) \in registered
          /\ Goto(r, "call")
          /\ UNCHANGED <<pos, fallbackCount, answer, planVars, attempts>>
       \/ /\ CurrentProvider(r) \notin registered
          /\ Record(r, CurrentEntry(r).model, "NoAdapter")
          /\ NextEntry(r)
    /\ UNCHANGED <<registered, healthVars, chain, callVars>>

\* The upstream answers the first call.
Reply(r) ==
    /\ pc[r] = "call"
    /\ Goto(r, "record")
    /\ \E reply \in Replies :
          /\ outcome'  = [outcome EXCEPT ![r] = Classify(reply)]
          /\ sleeping' = [sleeping EXCEPT ![r] = RetryWait(reply, settings[r].maxWait)]
    /\ UNCHANGED <<registered, healthVars, walkVars, retryOutcome, answer>>

\* Mutation of RecordFirst: a failed provider ends the chain.
BugSkipEndsChain(r) ==
    /\ pc[r] = "record"
    /\ RecordHealth(CurrentProvider(r), outcome[r], settings[r].threshold)
    /\ Record(r, DefaultModel[CurrentProvider(r)], outcome[r])
    /\ \/ outcome[r] = "Success" /\ Return(r, "Ok")
       \/ outcome[r] = "Retry" /\ Goto(r, "sleep")
                               /\ UNCHANGED <<pos, fallbackCount, answer, planVars>>
       \/ outcome[r] = "Fatal" /\ Return(r, "Fatal")
       \/ outcome[r] = "ContextTooLong" /\ Return(r, "ContextTooLong")
       \/ outcome[r] = "Skip" /\ Return(r, "Exhausted")
    /\ UNCHANGED <<registered, chain, callVars>>

\* Health is recorded, the attempt is logged, and the outcome decides.  The
\* model sent is the resolver's, the default model of the adapter.
RecordFirst(r) ==
    /\ pc[r] = "record"
    /\ RecordHealth(CurrentProvider(r), outcome[r], settings[r].threshold)
    /\ Record(r, DefaultModel[CurrentProvider(r)], outcome[r])
    /\ \/ outcome[r] = "Success" /\ Return(r, "Ok")
       \/ outcome[r] = "Retry" /\ Goto(r, "sleep")
                               /\ UNCHANGED <<pos, fallbackCount, answer, planVars>>
       \/ outcome[r] = "Fatal" /\ Return(r, "Fatal")
       \/ outcome[r] = "ContextTooLong" /\ Return(r, "ContextTooLong")
       \/ outcome[r] = "Skip" /\ NextEntry(r)
    /\ UNCHANGED <<registered, chain, callVars>>

\* The sleep ends and the same provider is called again; neither the budget
\* nor the circuit breaker is consulted.
Retry(r) ==
    /\ pc[r] = "sleep"
    /\ sleeping[r] = 0
    /\ Goto(r, "recall")
    /\ UNCHANGED <<registered, healthVars, walkVars, callVars, answer>>

\* The upstream answers the retry.
ReplyAgain(r) ==
    /\ pc[r] = "recall"
    /\ Goto(r, "rerecord")
    /\ \E reply \in Replies :
          retryOutcome' = [retryOutcome EXCEPT ![r] = Classify(reply)]
    /\ UNCHANGED <<registered, healthVars, walkVars, outcome, sleeping, answer>>

\* Mutation of RecordRetry: a second rate limit is waited out again.
BugRetryForever(r) ==
    /\ pc[r] = "rerecord"
    /\ RecordHealth(CurrentProvider(r), retryOutcome[r], settings[r].threshold)
    /\ UNCHANGED attempts
    /\ \/ retryOutcome[r] = "Success" /\ Return(r, "Ok")
       \/ retryOutcome[r] = "Retry" /\ Goto(r, "sleep")
                                    /\ UNCHANGED <<pos, fallbackCount, answer, planVars>>
       \/ retryOutcome[r] \notin {"Success", "Retry"} /\ NextEntry(r)
    /\ UNCHANGED <<registered, chain, callVars>>

\* After the retry, `outcome` (the first call's) decides, not retryOutcome.
RecordRetry(r) ==
    /\ pc[r] = "rerecord"
    /\ RecordHealth(CurrentProvider(r), retryOutcome[r], settings[r].threshold)
    /\ Record(r, DefaultModel[CurrentProvider(r)], retryOutcome[r])
    /\ \/ retryOutcome[r] = "Success" /\ Return(r, "Ok")
       \/ /\ retryOutcome[r] # "Success"
          /\ outcome[r] \in {"Fatal", "ContextTooLong"}
          /\ Return(r, outcome[r])
       \/ /\ retryOutcome[r] # "Success"
          /\ outcome[r] \notin {"Fatal", "ContextTooLong"}
          /\ NextEntry(r)
    /\ UNCHANGED <<registered, chain, callVars>>

\* The client goes away: the server drops the handler's future, and with it
\* `execute`, at whatever await it stands.  No outcome is recorded.
Disconnect(r) ==
    /\ Running(r)
    /\ Goto(r, "idle")
    /\ chain'    = [chain EXCEPT ![r] = <<>>]
    /\ settings' = [settings EXCEPT ![r] = NoSettings]
    /\ pos'      = [pos EXCEPT ![r] = 1]
    /\ elapsed'  = [elapsed EXCEPT ![r] = 0]
    /\ sleeping' = [sleeping EXCEPT ![r] = 0]
    /\ attempts' = [attempts EXCEPT ![r] = <<>>]
    /\ fallbackCount' = [fallbackCount EXCEPT ![r] = 0]
    /\ outcome'  = [outcome EXCEPT ![r] = "None"]
    /\ retryOutcome' = [retryOutcome EXCEPT ![r] = "None"]
    /\ UNCHANGED <<registered, healthVars, answer>>

\* ProviderRegistry::add and ::remove, called by the admin handlers
Register(p) ==
    /\ p \in Removable \ registered
    /\ registered' = registered \cup {p}
    /\ UNCHANGED <<healthVars, pc, walkVars, callVars, answer>>

Deregister(p) ==
    /\ p \in Removable \cap registered
    /\ registered' = registered \ {p}
    /\ UNCHANGED <<healthVars, pc, walkVars, callVars, answer>>

\* Mutation of CountDown: a deadline in the past is counted on.
BugPastDeadline(n) == n - 1

CountDown(n) == IF n = 0 THEN 0 ELSE n - 1

\* Time passes for every timer at once.
Tick ==
    /\ cooling'  = [p \in Providers |-> CountDown(cooling[p])]
    /\ sleeping' = [r \in Requests |-> IF pc[r] = "sleep"
                                       THEN CountDown(sleeping[r]) ELSE sleeping[r]]
    /\ elapsed'  = [r \in Requests |-> IF Running(r) /\ elapsed[r] < settings[r].budget
                                       THEN elapsed[r] + 1 ELSE elapsed[r]]
    /\ UNCHANGED <<registered, failures, status, pc, chain, settings, pos,
                   outcome, retryOutcome, attempts, fallbackCount, answer>>

\* The steps the executor itself takes once it is polled.
Execute(r) ==
    \/ Exhaust(r) \/ CheckBudget(r) \/ CheckHealth(r) \/ Resolve(r)
    \/ RecordFirst(r) \/ Retry(r) \/ RecordRetry(r)

\* The steps an upstream takes.
Upstream(r) == Reply(r) \/ ReplyAgain(r)

Next ==
    \/ \E r \in Requests, c \in Chains, s \in Settings : Dispatch(r, c, s)
    \/ \E r \in Requests : Execute(r) \/ Upstream(r) \/ Disconnect(r)
    \/ \E p \in Providers : Register(p) \/ Deregister(p)
    \/ Tick

Spec == Init /\ [][Next]_vars

\* tokio polls every ready task and the clock does not stop.  No client of
\* this crate is built with a timeout, so that an upstream does not stay silent
\* for ever is an assumption of its own, UpstreamFairness.
ExecutorFairness == WF_vars(Tick) /\ \A r \in Requests : WF_vars(Execute(r))

\* In addition every upstream call ends: with an answer, or an error.
UpstreamFairness == \A r \in Requests : WF_vars(Upstream(r))

AnsweringSpec == Spec /\ ExecutorFairness /\ UpstreamFairness

-----------------------------------------------------------------------------
(* Safety *)

\* Every variable has its type (the structs of fallback.rs and health.rs).
TypeOK ==
    /\ registered \subseteq Providers
    /\ failures \in [Providers -> 0..MaxThreshold]
    /\ status \in [Providers -> {"Healthy", "Down"}]
    /\ cooling \in [Providers -> 0..Cooldown]
    /\ pc \in [Requests -> {"idle", "entry", "health", "resolve", "call", "record",
                            "sleep", "recall", "rerecord", "done"}]
    /\ chain \in [Requests -> Seq(Entry)]
    /\ pos \in [Requests -> Nat \ {0}]
    /\ settings \in [Requests -> Settings]
    /\ elapsed \in [Requests -> Nat]
    /\ sleeping \in [Requests -> Nat]
    /\ outcome \in [Requests -> CallOutcomes \cup {"None"}]
    /\ retryOutcome \in [Requests -> CallOutcomes \cup {"None"}]
    /\ attempts \in [Requests -> Seq(AttemptRecord)]
    /\ fallbackCount \in [Requests -> Nat]
    /\ answer \in [Requests -> {"None", "Ok", "Fatal", "ContextTooLong",
                                "OutOfBudget", "Exhausted"}]

\* The breaker's three fields agree whatever calls of concurrent requests are
\* recorded in whatever order, each compared with the threshold of the
\* snapshot its own request took: a provider is Down only with failures that
\* reach one of the thresholds, Healthy only with failures below one of them,
\* and only a provider that is Down is ever in cooldown (record_success and
\* record_failure, health.rs).  Where no reload changes the threshold this says
\* that a provider is Down exactly from the threshold on; between a lower and
\* a higher one it may be either.
BreakerConsistent ==
    \A p \in Providers :
        /\ status[p] = "Down" => \E s \in Settings : failures[p] >= s.threshold
        /\ status[p] = "Healthy" => \E s \in Settings : failures[p] < s.threshold
        /\ cooling[p] > 0 => status[p] = "Down"

\* Parts of an attempt log: the entries it visits, the last one, and where it
\* holds a success.
EntriesOf(log) == {log[i].entry : i \in DOMAIN log}
LastEntry(log) == IF log = <<>> THEN 0 ELSE log[Len(log)].entry
SuccessesOf(log) == {i \in DOMAIN log : log[i].outcome = "Success"}

\* From one record to the next, the walk goes to the next entry or retries.
FollowsChain(log) ==
    \A i \in DOMAIN log :
        \/ i = 1 /\ log[i].entry = 1
        \/ i > 1 /\ log[i].entry = log[i - 1].entry + 1
        \/ /\ i > 1
           /\ log[i].entry = log[i - 1].entry
           /\ log[i - 1].outcome = "Retry"
           /\ log[i].outcome \in CallOutcomes
           /\ i > 2 => log[i - 2].entry < log[i - 1].entry

\* The attempt log of a request is a walk of its chain: it visits the entries
\* in the plan's order without omitting one, and visits an entry twice only
\* as the single retry of a call that was told to retry, so an entry skipped
\* by the breaker or for want of an adapter is never called (execute,
\* fallback.rs, which pushes a record at four places).
AttemptsFollowChain == \A r \in Requests : FollowsChain(attempts[r])

\* What `execute` returns is what the attempts say: Ok exactly when the last
\* attempt, and no other, succeeded; a fatal or context error only when the
\* last attempt failed that way; "all fallbacks exhausted" only when every
\* entry was visited; "budget exhausted" only before an unvisited entry.
AnswerMatchesAttempts ==
    \A r \in Requests :
        LET last == Len(attempts[r]) IN
        pc[r] = "done" =>
            /\ answer[r] # "None"
            /\ answer[r] = "Ok" => last > 0 /\ SuccessesOf(attempts[r]) = {last}
            /\ answer[r] # "Ok" => SuccessesOf(attempts[r]) = {}
            /\ answer[r] \in {"Fatal", "ContextTooLong"} =>
                   last > 0 /\ attempts[r][last].outcome = answer[r]
            /\ answer[r] = "Exhausted" =>
                   EntriesOf(attempts[r]) = 1..Len(chain[r])
            /\ answer[r] = "OutOfBudget" =>
                   EntriesOf(attempts[r]) = 1..(pos[r] - 1) /\ pos[r] <= Len(chain[r])

\* The fallback_count of a successful result, which is what the request log
\* reports, is the number of chain entries that were given up before the one
\* that answered.
FallbackCountIsEntriesGivenUp ==
    \A r \in Requests :
        answer[r] = "Ok" => fallbackCount[r] = LastEntry(attempts[r]) - 1

-----------------------------------------------------------------------------
(* Liveness *)

\* A provider whose circuit opened becomes available again: calls that were in
\* flight when it opened may prolong the cooldown, but none is admitted while
\* it is open, so it runs out (is_available and record_failure, health.rs).
CircuitReopens == \A p \in Providers : cooling[p] > 0 ~> cooling[p] = 0

\* Every dispatched request gets an answer from `execute`, unless its client
\* goes away first.
EveryRequestAnswered == \A r \in Requests : Running(r) ~> ~Running(r)
=============================================================================
