# token-dealer: a verification development

token-dealer is an LLM router: one HTTP server (axum on tokio) that accepts chat
requests, picks a provider and a model for each, walks a chain of fallbacks, keeps the
credentials of the providers, limits and accounts for what its users spend, and is
administered over HTTP while it runs. This directory models the parts of it that decide
things under concurrency, failure and time: TLA+ modules, TLC configurations that check
them on small instances, and TLAPS proofs for every value of the constants.

Paths below are relative to the repository (`src/src/...` is the crate's own source; the
short names leave that prefix out). `PROJECT.json` maps every definition that models code to
the lines it stands for, lists the runs, the hazards the properties were written for, and,
for every property, a mutation of the code that it catches.

    tlasany M.tla                          parse
    tlc -workers 2 -config X.cfg MCM.tla   check
    tlapm MProofs.tla                      prove

## 1. The system: components, state, operations

| component (source) | state | operations that change it | talks to |
|---|---|---|---|
| fallback executor (`proxy/fallback.rs`) | locals of one `execute`: attempts, fallback count, clock | `execute`: budget check, health check, call, one retry, record | health registry, provider registry, upstream |
| circuit breaker (`providers/health.rs`) | per provider: consecutive failures, status, cooldown | `is_available` (reads), `record_success`, `record_failure` | all executors share it |
| pipeline (`proxy/pipeline.rs`) | none of its own; spawns log and usage writes | `route`, `complete`, `stream`, `log_completion` | executor, key store, OAuth, log, users |
| provider registry (`providers/registry.rs`) | map of adapters | `from_configs`, `add`, `remove` | admin handlers, pipeline |
| configuration (`config/*.rs`) | TOML file, `Arc<RwLock<Arc<RouterConfig>>>` | `load`, first-run file, migration, `reload`, `update_with`, `save_to_disk` | admin handlers, every reader of a snapshot |
| key store (`auth/keystore.rs`) | table of sealed rows, cache of plaintext keys, master subkey | `set`, `get`, `delete`, `resolve` | admin, OAuth, pipeline |
| OAuth manager (`oauth/mod.rs`) | access token cache; states, verifiers, device codes, device clients | `access_token`, `refresh`, `set_refresh_token`, popup, pasted-code and device flows | vendor, key store |
| rate limiter (`ratelimit.rs`) | one global and many per-key token buckets | `try_acquire` in the middleware | configuration (`enabled`) |
| budget and usage (`cost/limits.rs`, `auth/users.rs`, `server/handlers.rs`) | `token_usage` rows | check before dispatch, `record_usage` after the answer | pipeline, users |
| users, keys, sessions (`auth/users.rs`, `server/auth*.rs`, `server/ui_login.rs`) | users, api keys, sessions | setup, login, logout, rotate, create and delete users and keys | authentication middleware |
| request log (`log/mod.rs`, `db/*.rs`, `main.rs`) | requests, attempts, retention | spawned inserts, hourly prune | pipeline, UI |
| routing (`routing/*.rs`) | none (pure) | tier, scorer, aliases, specificity detector | handlers |
| schema and adapters (`schema/*.rs`, `providers/*.rs`) | none; a parser per stream | `into_canonical`, `build_body`, stream parsers | pipeline, upstream |
| handlers (`server/handlers.rs`, `passthrough.rs`, `multimodal.rs`) | locals of one request | chat completions, SSE loop, pass-through, images and speech | everything above |
| prices, discovery, metadata (`cost/`, `discovery/`, `metadata/`) | tables filled from the network | sync, one-shot fill | pipeline |
| event bus, telemetry, UI pages, login CLI | none that a request depends on | - | - |

How they interact: a request passes authentication and the limiter, reads one snapshot of
the configuration after another, is scored, routed, checked against the budget, resolved
through the registry and the credentials at the moment its chain reaches a provider, and
leaves usage and log rows behind in tasks nobody waits for. Administration changes
configuration, file, registry and credentials underneath it. The components share state
through `RwLock`ed maps and one mutexed SQLite connection that is only reached through
`spawn_blocking`.

What is hard about it, and so what the properties aim at:

* an operation is several critical sections (table, then cache; global bucket, then key
  bucket; memory, then file, then registry; state, then verifier; password, then sessions)
  and other handlers run in between;
* a value is read, an await follows, and the value is used (availability before the call,
  the day's spend before dispatch, a refresh token before the vendor answers, a password
  hash before the session is made, a tier before the snapshot it is looked up in);
* a handler is dropped when its client disconnects, at any await, while a statement it
  handed to the blocking pool is executed all the same;
* the process stops between two steps and starts again from the file and the database;
* cooldowns, retries, `Retry-After`, midnight and log retention are timing;
* the vendor of an OAuth token changes state before the answer is stored;
* the bytes of a stream are cut anywhere, and break off anywhere.

## 2. Modules, and the plan

| # | module | models | extends / composes | proofs |
|---|---|---|---|---|
| 1 | `Fallback` | executor, breaker, registry membership, as `Pipeline::complete` drives them | - | `FallbackProofs` |
|   | `DispatchPromise` | abstract: what the executor promises its caller | - | |
|   | `FallbackRefinement` | the mapping from 1 to the promise | `Fallback`, INSTANCE `DispatchPromise` | in `FallbackProofs` |
| 2 | `RateLimiter` | the two-lock token buckets | - | `RateLimiterProofs` |
| 3 | `KeyStore` | table, cache, dropped handlers, restarts | - | in `OAuthRefreshProofs` |
| 4 | `ConfigService` | file, memory, registry, admin handlers, boot | - | `ConfigServiceProofs` |
| 5 | `Budget` | check, dispatch, charge, midnight | - | `BudgetProofs` |
| 6 | `OAuthRefresh` | refresh and logins over the key store, and the vendor | composes `KeyStore` | `OAuthRefreshProofs` |
| 7 | `Sessions` | users, keys, sessions, the middleware, first run, bootstrap | - | `SessionsProofs` |
| 8 | `RequestLog` | spawned inserts, foreign key, retention | - | in `GatewayProofs` |
| 9 | `Routing` | scorer, model references, aliases, detector, keys (operators) | - | in `GatewayProofs` |
| 10 | `Translation` | canonical request and the bodies of the six adapters (operators) | - | in `GatewayProofs` |
| 11 | `Streaming` | the bytes of a streamed answer, the parsers, the SSE loop, the budget | - | in `GatewayProofs` |
|    | `StreamPromise` | abstract: what the caller of a stream may count on | - | |
| 12 | `Gateway` | one chat from arrival to the last event, pass-through and multimodal calls, admin edits | composes 8-11, INSTANCE `StreamPromise` | `GatewayProofs` |
| 13 | `OAuthFlows` | popup, pasted-code and device flows in memory, and the vendors | ends where the logins of 6 begin | `OAuthFlowsProofs` |

`MC<module>` instantiates a module for TLC. The order is by what a user of the router would
lose first: an answer, then a credential, then the configuration, then money, then access.

What the plan has left: the configuration's migration (backup file, re-encryption of
plaintext keys), the handlers for detection rules (they change the configuration as the tier
handlers do), model discovery and price synchronisation (single writers of tables the models
hold constant). Every safety property of the passing runs is proved; what needs fairness is not.

## 3. What is modelled, and how it corresponds to the code

### Fallback (`proxy/fallback.rs`, `providers/health.rs`, `proxy/pipeline.rs:164-226`)

A request slot stands at one of the awaits of `execute`: `entry` (loop head), `health`,
`resolve`, `call`, `record`, `sleep`, `recall`, `rerecord`. `CheckBudget`, `CheckHealth`,
`Resolve`, `Reply`, `RecordFirst`, `Retry`, `ReplyAgain`, `RecordRetry` and `Exhaust` are the
code between two of them; `Dispatch` and `Disconnect` are the caller. The health registry is
`failures` (up to the greatest threshold; the code counts on, which no comparison sees),
`status` and `cooling` (ticks until `cooldown_until`). An upstream call answers with any of the
outcomes `classify` tells apart. `Register` and `Deregister` are the admin handlers removing
and adding an adapter while requests walk. `Tick` ages budgets, sleeps and cooldowns together.
`Dispatch` takes the `[retry]` settings of the request's snapshot (`settings`: threshold,
budget, longest wait), any of `Settings`, for a reload may come between two requests, or while
one is walking with the old ones. Calls of one provider are therefore held to different
thresholds (`RecordFailure(p, threshold)`).

Properties: `BreakerConsistent` (whatever calls are recorded in whatever order, Down means that
the failures reach one of the thresholds, Healthy that they are below one, and only a provider
that is Down is in cooldown; where no reload changes the threshold, Down is exactly from the
threshold on, and across one it is not: a provider may stay Healthy with more failures than the
new, lower threshold, or Down with fewer than the new, higher one), `AttemptsFollowChain` (the
log is an in-order walk with at most one retry per entry, and nothing is called that the
breaker skipped), `AnswerMatchesAttempts` (what is returned is what was recorded),
`FallbackCountIsEntriesGivenUp`, and under fairness `CircuitReopens` and
`EveryRequestAnswered`. `ImplementsPromise` is the refinement.

### RateLimiter (`ratelimit.rs`)

A request goes through `AcquireGlobal` and `AcquireKey`, each one critical section with its
lazy refill; `Tick` lets time pass. Tokens are integers in units of `1/Unit` of a request, so
that refill rates may be fractions; `age` is the time since `last_refill`, kept up to the time
it takes to fill the bucket. `Reload` changes the snapshot, of which the middleware reads only
`enabled`. Rates and bursts may be zero, as the code accepts them: a bucket that is never
refilled answers with a wait of u64::MAX seconds (`Never`). `WindowBound` counts the admissions
of every bucket over every window up to `Window`; `RetryAfterSuffices` says that a refused
client that waits as told finds a token unless somebody took one meanwhile, or the bucket's
burst is less than a token, so that no wait is long enough.

### KeyStore (`auth/keystore.rs`, `db/mod.rs:45-57`)

`set` is `StartSet`, `WriteRow`, `Publish`; `delete` is `StartDelete`, `EraseRow`, `Forget`;
`get` is `StartGet` (cache), `ReadRow`, `Fill`. `Drop` is a handler dropped at an await: a
statement already handed over goes to `detached` and `RunDetached` executes it later. `Restart`
empties the cache and may bring another master key. A sealed row opens under the master key
that sealed it and under no other: HKDF and AES-GCM are no more than that here. `clean` and
`alone` are history: an id is clean until a write on it is overlapped or cut short, and again
after a write that was not. `CoherentUnlessDisturbed` is what the code achieves;
`AnswersWereStored` says a key returned for an id was stored for that id, by a write that took
place.

### ConfigService (`config/service.rs`, `server/admin.rs`, `providers/registry.rs`)

`file`, `mem` and `registry` are the three copies. An admin handler is `Update` (under the
lock), `Truncate`, `WriteOut` (the two visible halves of `tokio::fs::write`), `Register`; a
reload is `ReadFile`, `Swap`; starting is `Start`, `FirstRun`, `Migrate`, `Load`. Saves fail,
handlers are dropped, the operator edits the file, the process exits at any point. One tier
stands for the tier table, for validity is per tier. A provider has an adapter or not
(`Buildable`): `from_configs` gives an empty registry if one has none.
`DiskAgreesUnlessDisturbed` and `RegistryAgreesUnlessDisturbed` are relative to the histories
`tidy` and `aligned`, which one undisturbed operation restores.

### Budget (`cost/limits.rs`, `server/handlers.rs:181-233`, `proxy/pipeline.rs:250-305`)

`Arrive` takes the caps of the request's snapshot (`limit`), which `Reload` may replace in the
live configuration at any time, and notes the day; `Deny` / `Admit` / `CheckFails` are the
match on the check, which reads the day's spend; `Answer` and `StreamEnds` the two ways a
request ends, `Record` the write of its cost to the row of the day on which it is recorded.
`Known` users have a row in `users`, for which alone the foreign key lets a cost be recorded.
`SpendBounded` says how far past the largest cap that one of its requests was held to
(`loosest`) a day can go: one request for every slot, and one for every request that was let
through without a daily cap, on a failed check or on a day that was over (`unmetered`). The cap
in force bounds nothing by itself, for a reload that lowers or introduces it finds a day that
may be past it already, and so do the requests admitted before it; `NeverOvercharged` that
nobody's day is charged more than was billed.

### OAuthRefresh (`oauth/mod.rs`, `server/admin.rs:215-232, 425-519`) over KeyStore

Extends `KeyStore` with the manager's own state, so a worker's steps in the store are those of
module 3. `access_token` is `StartRefresh` (nothing cached, or expiring; a fresh token is
returned without a change of state), then `LoadToken`, the vendor (`Accept`, `Refuse`),
`Respond` or `LoseAnswer`, and `FinishRefresh`. A refresh token is the n-th of its grant; a
`Rotating` vendor honours only the newest and replaces it as it accepts it. `StartLogin` is the
point where a flow has a new token to store, and ends as its handler does: `Invalidate`
(`set_refresh_token`, popup, pasted code), `DeviceDone`, `CliRefresh`. Every login brings a new
grant; pasting a token that was already used elsewhere is not modelled.

Properties: `RotationNotLost` (the stored token is honoured, or somebody holds its successor,
unless the successor was lost), `NextRefreshIsHonoured` (which joins it to the cache of the
store), `NewestLoginKept` and `AccessIsOfNewestLogin` (an undisturbed login is not undone).

### Sessions (`auth/users.rs`, `server/auth.rs`, `server/auth_endpoints.rs`, `server/ui_login.rs`, `main.rs`)

The three tables are `users`, `keys` and `sessions`; every statement is a critical section, so
a handler is a sequence of steps. `Arrive` is the middleware (`Resolve`: API key, master
credentials, cookie, refused, anonymous) and the role check (`Entry`). Login is `FindUser`,
`OpenSession`; `Logout`; password rotation is `CheckPassword`, `UpdatePassword`, `Purge`;
users and keys are `CreateUser`, `DeleteUser` (four statements of which it may get through
only some), `CreateOwnKey`, `CreateKeyFor`, `FindOwnKey` / `DropKey`; the first-run page is
`CheckEmpty`, `CreateFirstAdmin`, `OpenSession`. `GiveUp` is a failed statement or a client that
went away, `Restart` ends every handler and runs `Bootstrap`. `get_session` and the function
that decodes its row are `GetSession`, column by column, for that is where they disagree.

Properties: `NoOrphans` (no key and no session outlives its user, although a login or a key
request overlaps the deletion), `SessionsFollowPassword` (who may still hold a session of the
old password, and only they; the session that asked for the rotation is not among them,
although the comment at auth_endpoints.rs:260 says so, see section 6), `KeyRemoval` (an action
property: deleting by id what was found by owner some statements before never removes another's
key). `CookieAuthenticates` is violated; see section 6.

### Gateway (`server/handlers.rs`, `proxy/pipeline.rs`, `passthrough.rs`, `multimodal.rs`, `server/admin.rs`)

One chat request goes through `Arrive`, `ScoreTier`, `Detect` (or `Panic`), `TakeSnapshot`,
`ChooseRoute` (or `Refuse`), and then `StartStream`, `Connected`, the steps of `Streaming`,
`StreamOver`; or `StartChain`, `Skip`, `Call`, `Succeed` / `FallBack` / `Abandon`. These are the
points at which the handler reads the live configuration or the registry, and `Reload`,
`UpdateTier`, `RemoveProvider`, `AddProvider` and `FollowEdit` (the registry, in a step of its
own) come in between any two of them. `PassThrough` and `PassMedia` are the endpoints that
forward a body. `Routing` and `Translation` say what each step computes: the four layers of the
scorer, model references and aliases, the detector with its weights and thresholds, which key
a provider is given on which path, and what each adapter's body keeps of the messages. Words
are tokens with a length, images are values, tools and options are names.

`Streaming` cuts an answer into units as its adapter's wire format frames them (SSE lines,
kiro's binary frames), delivers them in chunks of any size (`ReadChunk`), parses what is
complete (`ParseEvent`), and forwards to the caller (`Forward`, `Overdue`, `ForwardError`,
`Terminate`); the upstream may end or break off, the caller may leave, the budget may run out.
`RequestLog` holds what `log_completion` spawns: writers that run in any order, the foreign key
between them, callers that leave while the handler waits for the usage row, restarts, the
retention task.

Properties: `FloorsHold` (no rule or default takes a request below what its content needs
unless the caller asked), `KeysStayHome` (no provider is sent another's key, on either path,
whatever is edited meanwhile), `PromptReaches` (every adapter posts all that system, user and
assistant said, in order and under its author, and the images it can send; kiro's puts the
user's last, as one message), `StreamMatchesComplete` (what is shown is a beginning of the
answer, wherever the bytes were cut; a stream whose bytes all came and that closed without an
error shows all of it and tells exactly the reasons of `Told`: the one `complete()` gives, then
what anthropic's and google's adapters add behind it, and none for an answer the Responses API
cut before its first text. The exception is written into the property: an answer whose lines
end in CRLF is never split into events except by kiro's binary frames, so it closes as if all
were well and shows nothing), `LogFollowsAnswers` (an answered request and its attempts are
logged, unless one of the losses the property names happened; an attempt in the log has its
request). `ImplementsStreamPromise` is the refinement: chunks, at most one error and nothing
behind it but the terminator, the terminator once and last. Under fairness `StreamEnds` and
`RetentionProgress`.

### OAuthFlows (`oauth/mod.rs`, `server/ui_oauth.rs`, `server/admin.rs`)

A flow is known by its state or its device code. `states`, `verifiers`, `devices` and
`clients` are the four maps of the manager, each behind its own lock. `StartPopup`,
`StartPaste` and `StartDevice` are the start handlers; `Callback`, `TakeVerifier`,
`Grant` / `Refuse` (the vendor), `Keep` complete a popup flow, `PasteCode` one that was pasted;
`Poll`, `LoadClient`, the vendor, then `Pending`, `Rejected`, or `KeepDevice`, `ForgetDevice`,
`ForgetClient` are a poll. `Decide` is the user at the vendor, `Reload` another redirect URI,
`GiveUp` a handler cut short, `Restart` a new process. The five providers stand for the classes
of the manifest: a popup with the caller's redirect, one with a fixed redirect, pasted codes,
device flows that register a client, and device flows with a verifier.

Properties: `FlowsYieldTheirOwn` (a code is posted once, the token goes to the provider the flow
was started for, and the client goes with it), and under fairness `ApprovedDeviceIsStored`.

## 4. The runs

| run | checks | distinct states | what it shows |
|---|---|---|---|
| `fallback_safety` | `TypeOK` and the four safety properties | 4.0 M | two requests, one breaker, two thresholds, a provider coming and going, disconnects |
| `fallback_live` | `EveryRequestAnswered`, `CircuitReopens`, `ImplementsPromise` | 0.23 M | no starvation given fair polling and upstreams that end |
| `ratelimit_safety` | `TypeOK`, `WindowBound`, `RetryAfterSuffices` | 1.1 M | two threads between the two locks, rates and bursts down to zero |
| `keystore_coherence` | `TypeOK`, `AnswersWereStored`, `CoherentUnlessDisturbed` | 0.85 M | sets, gets, deletes, drops, failures, restarts |
| `config_agreement` | `TypeOK` and the two agreements | 0.85 M | admin handlers, saves, crashes, edits, boots |
| `budget_bound` | `TypeOK`, `SpendBounded`, `NeverOvercharged` | 2.7 M | concurrent requests, streams, midnight, reloads of the caps |
| `oauth_rotation` | the five OAuth properties | 0.27 M | refreshes and logins over the key store |
| `sessions` | `TypeOK`, `NoOrphans`, `SessionsFollowPassword`, `KeyRemoval` | 0.83 M | logins, rotations, deletions and first runs between each other's statements |
| `session_cookie` | violation of `CookieAuthenticates` | - | no session cookie authenticates a request |
| `gateway` | the nine gateway properties | 0.12 M | a chat of any of 22 shapes over six adapters, with admin edits between any two steps |
| `sent_as_routed` | violation of `SentAsRouted` | - | the path that does not stream drops the model and the key that were routed |
| `oauth_flows` | `FlowsYieldTheirOwn`, `ApprovedDeviceIsStored` | 0.26 M | two flows, overlapping callbacks, pastes and polls, a fault |

Each violation run checks one sentence of the repository's own documentation, quoted in the
finding that goes with it.

### Bounds, and why they are enough

* Fallback: 2 slots, 2 providers of which one may be removed, a chain of two entries, cooldown
  1, budget 1, a 429's wait 1, and two retry settings: threshold 1 with no waiting, threshold 2
  with waits up to 2. Two slots give every pair of interleaved records; a threshold of 2 tells
  counting from setting, two thresholds what a reload changes; the chain of two has a first and
  a last entry. The live run uses a chain that names one provider twice (so the breaker
  interferes with the chain's own second entry), one setting with threshold 1, and a cooldown
  of 2.
* RateLimiter: 2 requests, 2 keys, half-token rates (`Unit` 2), window 3, tight limits of one
  and a half and three requests, generous ones for the limiter built disabled, and a
  configuration whose keys have a burst, and whose global bucket a rate, of zero.
* KeyStore: 2 workers, 2 ids, 2 keys, 2 master keys, at most two detached statements
  (`FewDetached`). Two writers and one reader of one id need at most a dropped writer's
  statement and two workers.
* ConfigService: 2 handlers, 2 providers, one without an adapter.
* Budget: 2 slots, a known user and a guest, a cost of 2 and no price, no cap, a daily cap of 1
  with a per-request cap, or a daily cap of 2, four requests (`MaxRequests`), two days
  (`MaxDay`); every check and every record may fail. Four requests on two slots overrun a cap
  twice, which is what tells one request per slot from one per request. Once both slots and the
  days are used up only reloads are left, so this run does not check deadlock.
* OAuthRefresh: 2 workers, 2 grants, at most two rotations each (`MaxSerial`), 2 master keys. A
  third worker (2.3 M states) was tried and shows nothing else.
* Sessions: 2 handlers, 2 user ids, 2 addresses, 1 password, 2 keys, 1 session, 1 master
  credential, one rotation per user (`MaxRotations`). A deletion or a rotation against a login
  needs two handlers, a key of another user needs two users and two keys. Ids run out, so
  deadlock is not checked.
* Gateway: one chat or pass-through call and one multimodal call at a time, for concurrent
  requests share nothing here but the log. 22 requests: every model reference, header, content
  class and path; six providers, one per adapter type; one edit of the configuration
  (`MaxEdits`) while the request is served (an edit while a stream runs changes nothing it
  reads); chains of at most two entries (`MaxAttempts`), days 0 to 2 and a retention of none or
  one day. The clock and the tasks of the log move when no chat is being served: what a chat
  leaves there is one step of it, so nothing is lost by that but states.
* Streaming: answers of two texts, with a reason that says the answer was cut or was not, in
  lines that end in LF or CRLF (openai, anthropic), and answers of none from the two adapters
  that treat those differently (anthropic, google, responses). Tool calls and usage in streams
  are left out.
* OAuthFlows: 2 workers, 2 flows, five providers, 2 redirect URIs, one fault (`MaxFaults`).

The proofs lift each of these bounds for the properties they cover.

### Fairness

`fallback_live`. `ExecutorFairness`: weak fairness of each request's own steps, since tokio
polls every ready task, and of the clock. `UpstreamFairness`: every upstream call ends, with an
answer or an error. The second is an assumption about the providers, not about this code: the
client is built without a timeout and the request's budget is only read between entries
(fallback.rs:176, 222), so without it a silent upstream holds a request for ever, and TLC shows
just that when the assumption is dropped.

`gateway`. Weak fairness of `Relay` (the task that serves the body is polled), of `Upstream`
(again an assumption about the provider: the budget of a stream is only looked at when an item
comes), and of `Prune` (a tokio interval that fires every hour).

`oauth_flows`. Weak fairness of what a handler does by itself once it is called, the vendor's
answer included, and strong fairness of the polls of each flow: whoever shows the user a
device code keeps polling, and gets a turn although the model's two workers may be busy at any
given moment (in the code a poll never waits for another). Nothing is assumed of users, faults
or reloads.

## 5. The proofs

For all values of the constants that satisfy the named assumption of the module.

| module | theorems | by |
|---|---|---|
| `FallbackProofs` | `TypeCorrect`, `BreakerAgreement`, `WalkCorrect`, `AnswerCorrect`, `FallbackCountCorrect`, `ExecutorKeepsPromise` | the log's shape is tied to `pos` and `pc` (how many records the current entry already has), from which the walk, the answer and the count follow; the refinement is a step-by-step simulation that uses the same invariant |
| `RateLimiterProofs` | `LimiterTypeCorrect`, `AdmissionsBounded`, `RetryAfterCorrect` | `Budgeted`: admissions in a window, in units, plus the bucket's present level never exceed the burst plus the window's refill. `WindowBound` alone is not inductive, for it forgets the level. For Retry-After, `RefillsInTime`: a refusal still standing, with the bucket's level and the refill of the ticks left to wait, amounts to a token, unless the bucket cannot hold one |
| `ConfigServiceProofs` | `ConfigTypeCorrect`, `DiskAgreementCorrect`, `RegistryAgreementCorrect` | what a handler alone in the server finds at each of its steps (`AloneHolds`) |
| `BudgetProofs` | `BudgetTypeCorrect`, `SpendIsBounded`, `NobodyIsOvercharged` | `Committed`: a day's recorded spend plus what the requests already admitted may still add is within the largest cap any of them was held to plus one request for each of them; requests admitted unchecked, without a daily cap or against yesterday's row are counted in `unmetered`. A reload changes none of this, for no request looks at the caps again. `NeverOvercharged` by itself forgets the requests in flight: what is billed and not yet recorded is a sum over the slots that are about to record it, and the lemmas on sums over finite sets say how one slot changes it |
| `OAuthRefreshProofs` (the key store) | `StoreTypeCorrect`, `KeysHaveProvenance`, `CoherenceCorrect` | what an undisturbed operation may rely on at each of its awaits (`AloneFindsItsRow`, `CleanReadIsFresh`), and that a disturbed one is known to be (`CleanMeansQuiet`); provenance follows every copy of a key |
| `OAuthRefreshProofs` (the credential manager) | `OAuthTypeCorrect`, `StoreUnderneath`, `LoginStays`, `AccessFollowsLogin`, `RotationIsKept`, `NextRefreshWorks` | every step is a step of `KeyStore` or leaves it alone, so module 3's theorems hold here; `LoginInv` says where the newest login's grant is at each step of a login, and that in a calm system every other copy of a token, in the table, the cache, a worker's hands or a detached statement, is of that grant. `TokenInv` is about serials: a token its bearer has not stored yet is honoured, has one bearer, and every copy of its grant is older; so whatever reaches the table was honoured when it got there, and `RotationNotLost`, which says nothing of the other copies, becomes inductive. `NextRefreshWorks` joins it to `CoherenceCorrect` |
| `SessionsProofs` | `SessionsTypeCorrect`, `RowsHaveUsers`, `SessionsFollow`, `KeysAreTheirOwners` | `NoOrphans` and `SessionsFollowPassword` are inductive with the types; `KeyRemoval` needs `KeyInv`: whoever deletes users is an administrator (`AdminsOnly`), and a handler about to drop a key holds one that was its caller's when it looked and can only have vanished since, for ids are never used again (`KeysAccounted`) |
| `OAuthFlowsProofs` | `FlowsTypeCorrect`, `FlowsAreYieldedRight` | `FlowsYieldTheirOwn` by itself knows only what is stored. That a code is posted once rests on `StateInOnePlace` (the state of a popup flow is in the map, or with the one callback that took it out, or its code was posted), and that a token is stored with what belongs to it on `GrantsChecked` (what the vendor grants, it grants to the provider the flow was started with and to the client it registered) |
| `GatewayProofs` (the log) | `LogTypeCorrect`, `LogIsComplete` | of `LogSpec`, the log with any requests rather than those of one gateway; `LogInv` adds that every writer belongs to an answered request and to one of its attempts, and that only what was spawned is waited for |
| `GatewayProofs` (the handler) | `GatewayTypeCorrect`, `FloorsAreKept`, `KeysAreKeptHome`, `GatewayLogIsComplete` | `GatewayInv` is four parts: the live configuration is made of parts of those an administrator may bring (`ConfigInv`, hence every key in it is its provider's own, `KeysAreOwn`), what the handler holds at each of its steps (`HandlerInv`), the chain and what was asked of it (`ChainInv`), and what a provider is being asked (`ServeInv`). That the user's rules only raise a tier is proved of the fold that applies them (`RulesRaise`) |
| `GatewayProofs` (streams) | `StreamKeepsItsPromise`, `StreamsTellTheAnswer` | `StreamInv`: what the parsers and the end of the bytes put in the queue is promised, and an error ends the loop; the refinement is a simulation from it. `MatchInv`: what the caller has received, extended by the chunks that wait, is what the events taken out of the buffer say (`EventAt` for the six wire formats, `ParseAdds` and `TailAdds` for the six parsers), which is a beginning of the answer at every cut; when the bytes have all come the events are all parsed and the reasons are `Told`, or, without a delimiter the adapter knows, none was parsed |
| `GatewayProofs` (prompts) | `PromptsAreTold` | what is posted is the translation of the request being served (`PromptInv`), and a translation is told by induction over its messages: a selection of a selection is the selection of both (`KeepTwice`), so no adapter drops a text `content_to_blocks` kept; selecting by author commutes with the translation of messages (`SpeakersStay`), and the texts of messages joined are the joined texts (`SpokenSays`), which is what kiro's single message needs |

Assumptions: thresholds, units and windows are positive (`FallbackAssumption`, where the code
takes the larger of the setting and 1, and `LimiterAssumption`; rates and bursts may be zero),
the thresholds of all snapshots have a bound (`MaxThreshold`; they are `u32`), sets of slots
are finite where they are counted (`BudgetAssumption`), "no key" is not a key
(`KeyStoreAssumption`), ids, keys and names are told apart (`SessionsAssumption`,
`FlowsAssumption`), bounds and retentions are natural numbers (`LogAssumption`).
`GatewayAssumption` says what deserialisation gives the code for nothing: rules and fallbacks
are lists, as are messages and their parts, `null` content has no parts, an adapter has one of
the known types, the texts and the reason of an answer are not the value that stands for their
absence; and that no chain is longer than `MaxAttempts`, the bound up to which the log counts.
It does not assume that a configuration is valid: tiers may name providers that are not there,
and a rule a tier that is none.

No module declares a recursive operator. Where a definition folds over a sequence (the user's
rules, the events a caller received, the blocks an adapter keeps) or a proof sums over a set,
the induction is made without an operator for a parameter: `SetInduction` says that a set of
numbers with 0 and all successors contains every number, `FoldExists` that the recursion behind
a fold has a solution over any number of indices, and the fold is then walked index by index.

Model-checked only:

* everything under fairness: `CircuitReopens`, `EveryRequestAnswered`, `StreamEnds`,
  `RetentionProgress`, `ApprovedDeviceIsStored`.

## 6. Findings

Each contradicts a sentence of the repository, quoted in `PROJECT.json`. The first two are
violation runs: the property states the sentence, and TLC finds the counterexample. The last two
were met in passing runs: the property states what the code does instead.

1. No session cookie authenticates a request. `get_session` selects 16 columns (users.rs:473),
   `row_to_user_from_session` (users.rs:667) reads the user from columns 9 to 16 of them; the
   last does not exist, and the middleware takes the error for no session (auth.rs:5 documents
   the cookie). Run `session_cookie`.
2. `complete()` does not send what was routed: its resolver gives every entry of the chain, the
   primary too, the adapter's default model and a key found again (pipeline.rs:214), so the
   model asked for, an OAuth access token, the tier's key and `X-Router-Key` are lost
   (pipeline.rs:161 says otherwise). Run `sent_as_routed`.
3. Rotating a password deletes every session of the user, the caller's own too (users.rs:505),
   where auth_endpoints.rs:260-262 says that one stays valid. Run `sessions`:
   `SessionsFollowPassword` makes no exception for it.
4. A streamed answer of anthropic that has text ends with a second reason, "end_turn", whatever
   the first was; anthropic.rs:314 means that chunk for answers without a message_delta. Run
   `gateway`: `Told`, in `StreamMatchesComplete`.

### Divergences met while modelling, which the models contain but no run singles out

Fallback: the classification of the first call, not of the retry, decides whether the chain
stops: a 401 that answers a retry does not (fallback.rs:311, against fallback.rs:6), and no
property counts that as wrong. After a reload of `[retry]` requests with different thresholds
count on one breaker (pipeline.rs:191): its status is that of whichever call came last. A silent
upstream holds its request for ever (fallback.rs:222). The headers x-router-provider and
x-router-model name the routed primary even if a fallback answered.

Rate limiter: rates and bursts are fixed at start (ratelimit.rs:136) though main.rs:149 says a
reload takes effect; a rate or burst of 0 is accepted, and a bucket with a burst below one
token promises a `Retry-After` that never comes true; legacy and environment keys share the
"anonymous" bucket, and keys with one prefix share one; a global token is not given back when
the key refuses; authentication is the outer layer (router.rs:147-150), so failed logins never
reach the limiter, though ratelimit.rs:123-124 says otherwise; a partly given `per_key` section
takes the global default refill (types.rs:561-566).

Key store: there is no order between table and cache: after a set overlapped a delete or another
set, the cache hands out a key the table does not hold (keystore.rs:253, against
keystore.rs:225). `CoherentUnlessDisturbed` says when it does not.

Configuration: the first-run file contains an empty `[[auth.keys]]` table, which no load accepts
(service.rs:98, against service.rs:74); `update_with` saves outside the lock, so the file may end
older than memory, or mixed (service.rs:261, against service.rs:247); updates are saved without
validation, so removing a provider a tier names leaves a file the next start refuses; a reload
leaves the registry as it was at start (README.md:159 says the file is re-read into effect); a
provider whose adapter cannot be built empties the whole registry at the next start
(main.rs:56-61), though `validate` passes it; `update_with` returns the new snapshot where its
comment says the previous one (service.rs:248); a reload during a save may read the emptied
file, which parses to the defaults.

Budget: streamed answers are neither logged nor charged (handlers.rs:286, against
limits.rs:49); legacy, environment and anonymous callers are never capped (the foreign key
rejects their usage row); the daily cap is per user where types.rs:340 says across all
requests; the per-request cap is compared with a projection of zero tokens (handlers.rs:192); a
soft warning is logged and its event never sent; errors of the check admit (handlers.rs:231); a
reload that lowers or introduces the daily cap neither stops the requests under way nor is
reflected in what the day may already hold (handlers.rs:185); pass-through and multimodal
requests are not checked.

OAuth, refreshing: a refresh in flight when the operator logs in again writes the previous
account's token over the new one, and nothing detects it (`NewestLoginKept` holds only of a
login that nothing overlapped); a handler dropped between the row and the cache leaves an old
refresh token in the key store cache, which a rotating vendor refuses at every refresh until a
restart or a new login (`NextRefreshIsHonoured` holds only of an undisturbed store);
`poll_device_flow` does not drop the cached access token of the previous account; the background
refresher walks the map that only `setup` fills, and `setup` has no caller.

OAuth, flows: the first poll of a MiniMax flow removes the verifier (oauth/mod.rs:825), so one
that is answered "pending" makes every later poll fail, although the comment at :913 says to
keep polling; dropping the exception for such providers from `ApprovedDeviceIsStored` gives the
counterexample. Nothing expires a state or a device; a callback for another provider consumes
the state and leaves its verifier. The start handler accepts an explicit redirect URI while the
callback always posts the configuration's, so the vendor refuses when they differ or a reload
came between. xai's redirect is fixed to 127.0.0.1:1455, where the server does not listen. The
web page starts device flows and never polls them, and its paste page carries no authorize
parameters; spaces in scopes become "%2B". `setup_oauth_via_cli` ignores a refresh that failed.

Users and sessions: a login that verified the old password creates its session after the purge
(`late`); two first-run submissions may both create an administrator (ui_login.rs:164), and one
is let through when the users cannot be read (ui_login.rs:169); with auth enabled and no legacy
or environment credential the bootstrap administrator cannot get in, since nothing but the
broken cookie follows its login; `expires_at` is RFC 3339 text compared with
`CURRENT_TIMESTAMP` text (users.rs:477).

Routing: a tier key can reach a provider the tier does not name, and loses to the provider's
own key where types.rs says it overrides; `X-Router-Key` is refused for a provider with no key
of its own; a provider with only a tier key gets an empty one on the path that does not stream;
ids that are no alias (`local/x`), ids of three segments and unknown aliases are silently
routed by tier; the model `"complex"` is not looked up, and `tier/provider/model` is passed on
whole, so that the tier is taken for the provider and refused (README.md:121-125); a tier in
the model name beats `X-Router-Tier` (said to win in all cases), and the header with
`provider/model` drops the model; the highest tier of all matching rules wins where the
scorer's comment says the first; `default_tier` can lower a scored tier, and with it the floor
the scorer's comment gives requests with tools (scorer.rs:111), which `FloorsHold` does not
cover; the detector then replaces the tier's primary altogether; rules for custom tiers are
ignored; an empty `messages` with the detector on panics (`Panic`).

Translation: an assistant message with `content: null` becomes the text "null"; tool results
given as strings are lost for anthropic; google, generic, responses and kiro drop tools, tool
calls or images, each its own selection (`Translation` says which).

Streaming: the terminator README.md:10 promises as `data: [DONE]` is sent quoted; a stream with
CRLF line ends loses the whole answer and ends as if nothing were wrong; a last event without
its blank line is lost; google's end carries a second chunk with the reason "stop"; arguments
of streamed tool calls are null; a silent upstream hangs a stream, whose budget is read only
when an item comes.

Log: an attempt that reaches the database before its request is refused and lost
(pipeline.rs:280); the retention task deletes requests and not their attempts, so one old row
with an attempt stops every deletion (main.rs:84); the task is started only if the retention is
positive at start. Both are in `RequestLog`, and `LogFollowsAnswers` and `RetentionProgress` say
what remains true.

Login command line (read, not modelled): it calls a POST-only endpoint with GET (405), nests
`Runtime::block_on`, compares the state of a loopback callback against a request line it parsed
wrongly (login.rs:592-596), sends no credentials when it pushes the refresh token, and polls
for ever on errors.

Not called by anything: `supports()`, `proxy/stream.rs`, several log queries, the event bus's
`emit`, the multimodal branch for `tier/provider/model`.

## 7. What is not modelled, and why

* Configuration: schema migration with its backup file and the re-encryption of plaintext keys,
  and the handlers for detection rules; `ConfigService` has one tier table, whose edits are
  made and saved in the same way. The master-key check at start is left out.
* Model discovery, metadata and price synchronisation: one writer each, filling tables the
  models hold constant from the network.
* Pages, telemetry, token estimates and agent detection: output and numbers that no modelled
  decision reads; the scorer's token count is a number in the messages.
* The event bus has no emitter. The login command line is another process, whose loop-back
  flows cannot complete (section 6); the server side of what it calls is in `OAuthFlows`.
* Vendors' JSON, HTML, log lines: data the properties do not tell apart. Malformed kiro frames,
  tool calls and usage in streams.
* Cryptography: a sealed row is modelled by which master key opens it, a password hash by the
  password.
* The clock of sessions: they never expire in the model, which only adds behaviours for its
  properties.
* The poisoned database mutex: a component's operations may fail at any time in the models, but
  the failure of all of them for ever is not modelled. Nor is graceful shutdown: a restart is a
  crash.
* `delete_key` on an `oauth:` id is left out of `OAuthRefresh`.
