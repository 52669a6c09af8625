# Verification of the vivurouter-go gateway

vivurouter-go is a local AI gateway: clients speak the OpenAI, Anthropic or Codex protocol to
it, and it serves each request from one of several configured upstream providers. This
directory holds TLA+ models of it, the TLC configurations that check them on small instances,
and TLAPS proofs of what holds for every size. Paths below are relative to `src/`.

    tlc -config GatewayFallback.cfg GatewayFallbackMC      # check a run
    tlapm ApiKeyAdmissionProofs.tla                        # check the proofs of a module

## 1. The system

| Component | State it keeps | Operations | Where it is hard |
|---|---|---|---|
| Fallback engine (`internal/gateway/fallback.go`, `failure.go`, `observe/cooldown.go`) | provider cooldowns in memory, account streaks and cooldowns in the store; per request: deadline, candidates, attempts | expand candidates, attempt, retry, penalise, fall back, commit, answer | concurrent requests share cooldowns; deadline, attempt timer, client and upstream race; stale reads |
| Codex quota gate (`codex_quota_gate.go`) | usage snapshots and flights by account | `allows`, `refresh` | single flight, failing leader, departing follower, cache stamps that go back |
| API-key admission (`api_key_limiter.go`, `auth/apikey.go`, `Handler.logRequest`) | limiter entries in memory; policies and usage in the settings | resolve, quota, acquire, record usage, release; dashboard load and save | policy copies, window change with requests in flight, whole-settings saves |
| Asynchronous request log (`store/async_log.go`, `cmd/vivurouter-go/main.go`) | bounded channel, batch, failure counters | add, batch, write, flush, close | shutdown against late handlers, full channel, one failing log of a batch |
| Key retry and key pools (`gateway/key_retry.go`, `provider/key_pool.go`, `dashboard/forms.go`) | key cooldowns, rotation | select, peek, mark, clear, retry loop, key forms | counter over a changing list, cooldown overwritten, calls that cool keys for each other |
| Stores (`store/store.go`, `file.go`, `sqlite.go`) | settings, providers, accounts, proxies, invoices, logs, debug payloads | whole-row and whole-document reads and writes, trimming, reset, start | memory ahead of file, several statements of which one fails, two backends that must agree |
| OAuth sessions (`codexoauth`, `antigravityoauth`) | one session, its callback server and timer | start, callback, pasted callback, exchange, save, time out | late goroutines that act on a newer session, unlocked exchange |
| Credential rows (`provider/codex.go`, `provider/antigravity.go`, dashboard account actions) | tokens in provider and account rows | refresh in a call, persist, edit, import, delete | read-modify-write of a row that others write |
| Orchestration (`prompt_router.go`, `combo.go`, `fusion.go`, `guardrail.go`, `plan.go`, `router.go`) | combo rotation; per request its stages | resolve, classify, run experts, synthesise, review, validate | concurrent experts, quorum, stages that fail open or closed, usage of failed stages |
| Streams (`sse.go`, `anthropic_sse.go`, `usage.go`) | per stream | translate events, collect usage | event order, interleaved tool calls, truncation |
| Dashboard (`internal/dashboard`) | signed session cookie | forms, JSON API, backup, quota actions | non-atomic load and save of settings and rows |
| Start, shutdown, middleware, translators, optimisers, codecs, load test | none worth modelling | | |

How they meet: a handler (`handler.go`) copies the key's policy and the providers out of the
store, is admitted by the key's quota and limiter, and resolves the model. A guardrail, fusion,
router or combo becomes a sequence of stages, each a call of its own; a plain or routed model
becomes candidates for the fallback engine. The engine expands providers into accounts (asking
the quota gate for Codex accounts), calls executors through the key-retry loop, reports failures
to the cooldown table or to the account row, and logs each attempt: `logRequest` adds a request
log (to the asynchronous log) and a unit of usage (to the key's policy). Executors refresh
tokens in the middle of a call and write them into the rows which sign-ins and the dashboard
write as well. Answers are streamed back through one of four stream functions, or copied or converted whole. The dashboard
edits the same settings and rows; shutdown drains the log and closes the store. All of this runs
in one process, in goroutines, over mutexes, a channel and SQL statements.

What makes each part correct, and what the models say of it:

- engine: every accepted request ends with a fitting answer; attempts are bounded, within the
  budget and logged once; cooldowns only grow; a failing account does not take its siblings
  away; a healthy provider is tried before the request is failed;
- quota gate: one fetch per account at a time; no decision on stale data; never blocks a request;
- admission: the in-flight count is exact; concurrency, rate and quota bounds; usage survives
  concurrent edits;
- log: every log in one place, decided once, no loss uncounted, the store closed last;
- key pools: "all keys exhausted" is true when it is said; turns are shared fairly;
- stores: either backend answers the same; a restart loses nothing that was written; only old
  logs are trimmed; no call leaves an account without its provider;
- credentials: no row gets another row's tokens; a sign-in shown as done was saved; a pending
  one is timed and ends; a call refreshes and repeats a bounded number of times;
- orchestration: every token of every stage is charged once; nothing passes a closed validator
  that failed; combos rotate fairly under concurrency;
- streams: blocks open and close in order, tool calls get their own arguments, usage is billed.

`PROJECT.json` lists every component with what is left out of it, and every hazard found in the
code at its line, with the properties that would catch it.

## 2. Modules

| Module | Role |
|---|---|
| `GatewayFallback` | the fallback engine, provider cooldowns and account outcomes |
| `GatewayPromise` | abstract: what the engine promises one client |
| `GatewayFallbackPromise` | the refinement mapping from the engine to `GatewayPromise` |
| `GatewayFallbackMC` | instances of the engine |
| `CodexQuotaGate`, `CodexQuotaGateMC` | the quota gate |
| `ApiKeyAdmission`, `ApiKeyAdmissionMC` | admission by API key, against the dashboard |
| `AsyncLog`, `AsyncLogMC` | the asynchronous log over both stores, with shutdown |
| `LogSink` | abstract: what handlers may rely on when they hand over a log |
| `StoreRows` | the types of settings and rows and their normalisers, as operators; tables, and lists in an order |
| `FileStore`, `SqliteStore` | the two backends, call by call |
| `StoreBackends`, `StoreBackendsMC` | both of them under the same calls, faults and restarts |
| `CredentialRows` | who rewrites rows with tokens: executors and dashboard |
| `OAuthSession`, `OAuthSessionMC` | both sign-in managers, composed with `CredentialRows` |
| `KeyPool` | key selection, the retry loop, the key forms |
| `Orchestration` | model names to candidates, and the stages of virtual models |
| `Streams` | the four stream routes, from upstream events to client events, and answers that are not streamed |
| `GatewayRequestsMC` | one run for `KeyPool`, `Orchestration` and `Streams` |
| `GatewayFallbackProofs`, `ApiKeyAdmissionProofs`, `AsyncLogProofs`, `CodexQuotaGateProofs`, `StoreBackendsProofs`, `CredentialsProofs`, `OrchestrationProofs`, `GatewayRequestsProofs` | theorems and proofs |

**State and steps.** A step reads or writes shared state at most once, under the mutex or in
the SQL statement that makes it atomic in the code; what lies between two such points can
interleave with everything else. The `pc` field of a record is the place of a goroutine in its
function. Code read and thrown away (wording, metrics, the in-process trace) is left out.

*GatewayFallback.* `req[r]` holds the locals of `runWithFallback`: `deadline` (`requestCtx`),
`todo` and `cands` (candidates before and after `expandAccountCandidates`), `idx` (the loop),
`tried` and `logged` (attempted and logged candidates), `calls` (attempts started), `class`
and `retryAfter` (the `failureDecision`), `streak` and `at` (the streak `recordAccountOutcome` read,
and the time it was given before, from which the account's cooldown counts).
`Arrive`, `ExpandProvider` (one store read, one provider), `ExpandDone` (strict truncation)
are the prologue; `SkipCandidate`, `CallCandidate`, `LeaveLoop` the head of the loop;
`AttemptErrors/TimesOut/Cut/Rejected/Empty/Accepted` what `executeCandidate` can come back
with, its own retry included; `CheckContext`, `PenalizeProvider`, `ReadStreak`,
`RecordFailure`, `LogAndDecide` the failure path in the order of the code; `StreamEnds`,
`StreamCut`, `RecordSuccess` the commit. Executors, key pools and the quota gate appear as the
results they may give (`ResponseClasses`, `refused`). Time is a bounded clock of abstract ticks;
durations are constants. `account[a].until = 0` stands for an empty `cooldown_until`.

*CodexQuotaGate.* A call looks at the cache (`Look`), and later at the flight table, where it
joins or leads (`JoinFlight`, `LeadFlight`) with the snapshot it read there; `FetchSucceeds`
and `FetchFails` are the critical section in which a flight lands; what a fetch may find
(`Usages`) comes from the windows of the usage API's answer by way of `FormatCodexQuota` and
`RoutingUsage`. `begun` is the instant
`allows` is given, which is when the request began, not when the gate was reached.

*ApiKeyAdmission.* `policy` is `Settings.APIKeys`, `limiter` the entries, `handler` a goroutine
with the policy copy it resolved. `AdminLoad` and `AdminSave` are two store calls with anything
in between; a save is either the key form (which brings any list of keys and zero usage) or
another form (which writes back what it loaded). `admitted` and `recreated` are history.

*AsyncLog.* `queue` is the channel, `worker` and `batch` the goroutine, `caller[l]` the handler
that adds log `l`, `closer` the deferred close function of `main`. A SQLite batch is one step
(it holds `logMu`); a file batch is one step for each log. What a write comes to and whether it
returns an error are two things (`WriteResults`): SQLite returns an error of the retention that
follows the insert although the log is stored (`sqlite.go:936`), and a file store prepends the log in
memory before it saves the file (`file.go:489-497`), so that one it could not save is "unsaved"
until the next write that succeeds saves all it has (`Written`).

*StoreRows, FileStore, SqliteStore, StoreBackends.* `StoreRows` has the Go structs as sets of
records and translates the normalisers: defaults, range checks, dropped and deduplicated entries,
usage kept over a save. Rows keep the fields a branch looks at; a table is a function from ids. `FileStore` holds memory (`db`, `logs`) and the two files beside it,
each replaced whole by a rename; a method holds the mutex throughout and is one step, whose
argument says whether its write succeeded: memory keeps the change either way. `SqliteStore` is
told which of a method's statements fails; those before it have taken effect unless they share a
transaction. `StoreBackends` sends each call to both, with the same input and at most one
failure, and compares what a caller reads back (`FileView`, `SqlView`): settings, and the lists of
providers, accounts of a provider and proxies in the order in which they come. A restart reads the files
or opens the database and seeds what is empty.

*CredentialRows, OAuthSession.* A token is abstracted to the row whose sign-in it stems from, so
that a row with another row's token can be seen. `exec[r]` is a call of an executor: it works on
a copy of the provider or account, may be repeated (Antigravity), refreshes once after a 401
(and once before it, for the reset-credit action), reads the row again and writes it whole;
`Told` is the account the refresh is told about. `edit` is a dashboard session. In
`OAuthSession`, `session`, `verifier`, `server` and `timer` are the fields of `Manager`, each
with the number of the sign-in it belongs to; `callback[c]` copies the session under the mutex
(`Arrive`), exchanges and saves without it, and finishes under it; `StopAfter` is the goroutine
that closes the server 250 ms later, and like the code it closes whatever server there is.
`firing[s]` is a timer that went off, between the two critical sections of `markTimeout`.

*KeyPool.* `cooldown` and `rotation` are the maps of `KeyPool` for one provider; a call selects
(`Send`), is answered, fails or blames its key (`KeyBlamed`), and peeks before it retries
(`Peek`, a selection like any other, which takes a turn). Forms load the row, save it and then
clear the cooldowns. Only calls that report exhaustion keep their data after they ended.

*Orchestration.* `ResolveCandidates`, `CodexCandidates`, `ResolveRoutableTarget` and
`PlanCandidates` go from a name to candidates. `task[t]` is a request: `pc` names the stage under
way, `left` the candidates it may still fall back to, `waiting`, `running` and `good` the experts
of a fusion, `usage` the tokens not yet charged, `verdict` what the validator said, `content`
which stage the answer comes from. `AfterError`, `AfterMain`, `AfterValidator` and so on are the
switches that fail open or closed. A request for a combo or a routed model is served by the
engine (`Serve`).

*Streams.* `client` is what an Anthropic or Chat client has made of the events so far: blocks
open, arguments received by tool, how often the text block was opened, and whether an event was
illegal or went to the wrong tool: text has index 0, and any other index may be used once.
`upstream` remembers what was sent, to compare; whether its events name an `output_index`; the calls
whose arguments came only where the route does not look (`unseen`); and whether there was text
before and after a tool call. `ToolDone` is `response.output_item.done` of a function call or of
a custom tool, whose input the code does not read there (`anthropic_sse.go:268`). A report of usage has
any part: input, output, both, or only a total (`Reports`). An answer that is not streamed waits until it is
there (`WholeAnswer`, `WholeFails`). `Final` is the common end; `Cut` is a cancelled
context or a failed read or write.

## 3. What is checked

| Run | Instance | Shows |
|---|---|---|
| `gateway_shared` | two concurrent requests over `solo` (no accounts) and a one-account `pool`, neither behind the quota gate, no Retry-After; deadline 2, clock 0..3 | `TypeOK`, `SiblingIsolation`, `CooldownNeverShortened`, `HealthyProviderIsTried` |
| `gateway_promise` | one request, strict or not; lists of one provider and `<<solo, pool, solo>>` with two accounts, `solo` with a pool of API keys, both behind the quota gate, with and without Retry-After; failing store, departing client; deadline 3, clock 0..4 | `EveryAttemptAccounted`, `BudgetReserved`, `KeepsPromise` (refinement, with liveness) |
| `gateway_all_cooldown` | as above, healthy store | violates `AllCooldownMeansCooldown` |
| `api_key_admission` | one key, two handlers reused for request after request, a dashboard session with two saves; limits 0 and 1; window 2, clock 0..3 | the six properties of admission |
| `async_log` | five logs, channel of two, batch of three, both stores, failing writes, shutdown at any moment | `Conserved`, `BufferedBeforeClose`, `LossIsCounted`, `ImplementsLogSink` (refinement, with liveness) |
| `async_log_offered` | the same | violates `EveryLogIsOffered` |
| `codex_quota_gate` | three calls for one account, limits 0 and 150, readings -5 and 120, or none, of either kind in up to three windows, TTL 2, clock 0..2 | `SingleFlight`, `DecisionMatchesCache`, `EveryCallDecides` |
| `store_backends` | four calls of any kinds, one failing write, one restart; two providers, two accounts, one proxy, one invoice, one API key, four settings, as a form or JSON body may send them | `Interchangeable`, `PayloadsFollowLogs`, `RestartKeepsState`, `OnlyOldLogsAreTrimmed`, `NoNewOrphans` |
| `store_reset` | three calls, no failure | violates `ResetClearsAccounts` |
| `credentials` | one provider, one account, one executor call at a time, one dashboard session, one callback handler, two sign-ins, three operations in all; both managers; repetitions 2 and 1 | `OwnCredentials`, `ExecutorBounded`, `DoneMeansSaved`, `PendingSessionIsTimed`, `SessionsEnd` (liveness) |
| `credentials_antigravity` | the same without sign-ins | violates `AntigravityKeepsOwn` |
| `gateway_requests` | one of three parts moves: two calls and a form over three keys, sticky limit 2; two requests for two guardrails, two fusions, two routers and a combo; one stream of three tool calls with up to two fragments each, on each of four routes, or an answer that is not streamed, copied or converted | `ExhaustedIsTrue`, `TurnsAreFair`; `StagesAreCharged`, `FailClosedIsValidated`, `ComboTurnsAreFair`; `BlocksAreWellFormed`, `ArgumentsReachTheirTool`, `EndedStreamIsBilled` |

**Why the bounds are enough.** Engine: two requests are what a race on the cooldown table or on
a streak needs; a list that repeats a provider gives a candidate whose cooldown the same request
set; two accounts give a sibling; the attempt limit is below the deadline, so that an attempt
timer can fire, leave budget, and leave none. Cooldowns of 1, 2 and 3 ticks and a Retry-After
above both caps meet every branch of the cooldown functions. Admission: one key suffices since
keys share no limiter entry and no counter; two handlers and a limit of one meet each limit from
both sides; four ticks hold two windows; two saves delete and recreate the key. Log: five logs
fill the channel and a batch at the same time; a batch of three has a first failing, a middle
and a skipped log. Gate: a leader, a follower, and a call that looked before the fetch and
leads after it.

Stores: the longest chain a property needs is to write a provider, its account and the proxy it
is bound to, and to fail while one of them is deleted; a retention bound of 1 or 2 is passed by
three logs; the settings inputs hold an entry for each way a normaliser drops, clamps or defaults.
Credentials: a second sign-in is what a late callback, timer or stop of the first can hit; one
account beside its provider is what a token can be stored in by mistake; one executor call, one
dashboard session and one callback interleave at every step. Requests: three keys give a list
that shrinks under a rotation, two calls cool keys for each other, the form forgets cooldowns
meanwhile; the virtual models include each other as stages (a guardrail over a combo and over a
fusion, a fusion with the same combo as two parallel experts, a router as an expert), with each
switch open and closed; three tool calls can be interleaved and finished out of order. The three
parts of that run share no state, so that a behaviour which moves one of them loses nothing;
calls and requests are symmetric.

Bounds that stop the models rather than the program are `MaxTime`, `MaxBurst`, `MaxSaves`,
`MaxCalls`, `MaxTotal`, `MaxFaults`, `MaxSessions` and `MaxFragments`; with these and requests
that are served once, the models do stop, hence `CHECK_DEADLOCK FALSE`; that nothing stops too
early is what the liveness properties say.

**Fairness.** The engine: the clock advances and the goroutine of every request takes its steps
(`WF`, Go's scheduler and timers); upstreams and clients owe nothing, and a request is ended by
its own deadline. `AttemptCut` and `StreamCut` are steps of the handler because `net/http`
returns from a request or a body read whose context ended. The gate: a fetch ends, since it runs
under `codexQuotaFetchTimeout`. The log: the worker runs, and a shutdown that began goes on;
nobody is obliged to shut down or to log. Sign-ins: the timer goes off and its goroutine runs;
browsers, token endpoints, editors and requests owe nothing. Strong fairness is used nowhere.

**What the violations show.**

- `gateway_all_cooldown`: the answer "all candidate providers are in cooldown" is given whenever
  nothing was attempted, also when every account is disabled or refused by the quota gate, or the
  budget was gone; the documentation says it means a cooldown.
- `async_log_offered`: "logs are never intentionally dropped" does not hold behind a log that
  SQLite refuses: the rest of its batch is given up (it is counted as one failure,
  `LossIsCounted`).
- `store_reset`: "clear all data" on SQLite leaves every provider account, with its credentials;
  the file store leaves none.
- `credentials_antigravity`: a refresh inside Antigravity's `ExecuteChat` is not told the account
  and stores the account's tokens as the provider's, which the comment above the refresh rules
  out. With Codex this cannot happen (`OwnCredentials`).

**Limits of what holds**, which the properties state as exactly as they hold:

- admission: the rate window is fixed, so a sliding window may see twice the limit
  (`SlidingRateBound`); the quota can be passed by the requests under way
  (`QuotaOvershootBounded`);
- engine: sibling isolation needs a store that answers; an attempt cut by the request deadline is
  not logged (`EveryAttemptAccounted`); `HealthyProviderIsTried` is about providers that were in
  no cooldown since the request began, and a failure that forbids fallback ends the request;
- key pools: `ExhaustedIsTrue` holds while no cooldown ends or is forgotten during the call;
  `MarkUnavailable` lets a shorter report shorten a cooldown, a short Retry-After can use up the
  attempts on one key with another untried, the peek takes a turn, and a media call never cools a
  key. Turns are fair as long as the list of available keys stays the same. Deleting the last key
  of a provider with an `APIKey` brings back "default", and two key forms lose one's change;
- stores: `Interchangeable` leaves out hidden models (`scanProvider` never decodes them) and
  invoices (SQLite's `UpsertInvoice` names 16 columns and gives 17 values, `sqlite.go:838-853`,
  and always fails). It excuses API keys without an id, whose usage the two look up at different
  moments, a reset of stored accounts, and a provider with three keys of one id (`KeysNamed`): the
  second and the third get the same time suffix, and the third another whenever the row is
  normalised again, which SQLite does with every read and the file store when it starts.
  `RestartKeepsState` excepts the same rows of the file store. When the settings cannot be read, `SaveSettings` of
  SQLite stores the usage that was sent. A lowered retention trims at the next log in the file
  store, at the next sweep or read in SQLite. The file store's reset keeps seeds un-normalised
  until the next start and it never deletes the payload files of trimmed logs;
- orphans: `NoNewOrphans` is about accounts that had their provider. A refresh at provider level,
  or an account edit or import, that finishes after the provider was deleted brings back one
  without the other; this is a step of `CredentialRows`, and no property forbids it;
- sign-ins: a `Start` that fails, or the unkeyed stop of an older sign-in, closes the server and
  the timer of a pending one, which then stays pending until the next (`orphaned`, excepted by
  `PendingSessionIsTimed` and `SessionsEnd`);
- orchestration: a fusion below its quorum drops the usage of the experts that answered, as
  `StagesAreCharged` says; `NormalizeGuardrails` opens a guardrail that is closed twice; an
  answer with tool calls or media is kept although the validator rewrote it; only the first of
  several choices is validated; a routed request counts as two requests on its key;
- log: a failure that is counted need not be a loss (a retention error; a file that is saved later),
  so `LossIsCounted` says only that without a counted failure nothing was lost;
- streams, blocks: the text of an Anthropic message always has index 0 (`anthropic_sse.go:62`), so that
  text which follows a tool call, itself after text, starts block 0 a second time, as does an error
  reported there. `BlocksAreWellFormed` allows this, in exactly this case, and says that no tool block
  is opened twice;
- streams, arguments: Chat tool arguments go to the block opened last, so interleaved ones are
  misattributed. A Chat client misses arguments that come only with
  `response.output_item.done`, and an Anthropic client the input of a custom tool that comes only
  there. Responses events without an `output_index` are taken for item 0 (added: for the next
  one), so that `ArgumentsReachTheirTool` needs either the indexes or at most one call;
- streams, usage: a stream that is cut bills what is known, possibly nothing. A report with
  only output, or only a total, is taken as it is (`usage.go:248-269`): `ensureOutputEstimated` fills
  in the output but never the input, so that the input is not billed then
  (`EndedStreamIsBilled` says when it may be missing). The
  comment of `ensureOutputEstimated` (`usage.go:106-108`) says that output an upstream leaves out
  of its report is filled in, lest it cost nothing; `passthroughAnthropicJSONWithUsage`
  (`anthropic_sse.go:15-33`) does not call it, so that a whole answer to an Anthropic client is
  billed without output then (`EndedStreamIsBilled` excepts it);
- quota gate: a window whose percentages are missing or unreadable counts as 0 % used
  (`formatCodexQuota`), so that an answer of such windows replaces a cached usage and opens the
  account, while an answer without windows, or an error, keeps the cached usage;
- listings: both stores list the accounts of one provider by priority and id, and are compared so;
  all accounts (`ListProviderAccounts("")`) come by priority and id from the file store and by
  provider, priority and id from SQLite.

## 4. What is proved

For every value of the constants that meets the module's named assumptions:

| Theorem | Statement | Argument |
|---|---|---|
| `GatewayFallbackProofs!TypeCorrect` | `[]TypeOK` | by the invariant `IInv` below |
| `GatewayFallbackProofs!SiblingsStayReachable` | `[]SiblingIsolation` | what a list of candidates may hold (`Sourced`) and which candidate is about to be charged (`Charged`) follow the request through the loop; hence a penalty meets only a provider without accounts |
| `GatewayFallbackProofs!CooldownMonotonic` | `CooldownNeverShortened` | only `Penalize` writes a cooldown, and `Charged` says its class carries one |
| `GatewayFallbackProofs!BudgetIsReserved` | `BudgetReserved` | by `Becomes`, what every step of a request does to it |
| `GatewayFallbackProofs!AttemptsAreAccounted` | `[]EveryAttemptAccounted` | `AccountInv`: at each place of the loop, how candidates tried, attempts started and logs differ (`Tallied`); candidates found and still to be found are no more than a route has (`Bounded`) |
| `GatewayFallbackProofs!HealthyProvidersAreTried` | `HealthyProviderIsTried` | the same invariant: a candidate the loop left behind was tried, or its provider was in cooldown at some time since the request began (`PassedOver`) |
| `GatewayFallbackProofs!PromiseIsKept` | the safety part of `KeepsPromise` | with the invariants, every step of a request is one its client can tell (`Noticed`: accepted, called, served, ended, left) or leaves all it sees alone, and these are the steps of `GatewayPromise` |
| `ApiKeyAdmissionProofs!TypeCorrect` | `[]TypeOK` | inductive as it stands |
| `ApiKeyAdmissionProofs!InFlightIsExact` | `[]InFlightExact` | with `TypeOK`: a step changes the set of holders of one key by one handler, and the count with it |
| `ApiKeyAdmissionProofs!ConcurrencyIsBounded` | `[]ConcurrencyBound` | the property speaks of the highest limit among the requests in flight, which changes as they come and go, so it is not inductive; `TightBound` bounds, for each m, the requests admitted under a limit of at most m |
| `ApiKeyAdmissionProofs!UsageIsNeverLost` | `UsageNeverLost` | every write of a stored policy keeps or increments its usage |
| `ApiKeyAdmissionProofs!OvershootIsBounded` | `[]QuotaOvershootBounded` | `QuotaInv`: the usage recorded and what the handlers under way may still log (`Pending`) are together within the overshoot; a request that arrives when the quota is used up has nothing to log |
| `ApiKeyAdmissionProofs!RateIsBounded` | `[]SlidingRateBound` | `RateInv`: an entry counts all that its window admitted, and what a sliding window that overlaps its start admitted before it is within one limit (`Counted`): so a sliding window sees two limits at most |
| `AsyncLogProofs!TypeCorrect` | `[]TypeOK` | inductive as it stands |
| `AsyncLogProofs!BufferedLogsPrecedeClose` | `[]BufferedBeforeClose` | `ShutdownOrder`: the stages of the shutdown, the worker's last state and the closed channel follow one another |
| `AsyncLogProofs!LogsAreConserved` | `[]Conserved` | `Places`: the channel and the batch hold no log twice, and every log is in one of channel, batch, caller and outcomes; a step moves one log (`OnlyOneMoves`) or a batch |
| `AsyncLogProofs!LossesAreCounted` | `[]LossIsCounted` | `Counted`: while no failure was counted, and none is about to be (`worker.err`), every log given to the store is stored; only this direction holds |
| `AsyncLogProofs!StepsAreSinkSteps` | the safety part of `ImplementsLogSink` | with `Places`, every step maps to a step of `LogSink` or leaves its variables alone |
| `CodexQuotaGateProofs!TypeCorrect` | `[]TypeOK` | clamping, whatever integer is read |
| `CodexQuotaGateProofs!FlightsAreSingle` | `[]SingleFlight` | `LeaderInv`: who fetches and what the table names agree |
| `CodexQuotaGateProofs!DecisionsAreCurrent` | `DecisionMatchesCache` | `FlightInv`: while a call fetches, nobody else writes the cache, so the snapshot it holds is the cache |
| `StoreBackendsProofs!AccountsKeepTheirProvider` | `NoNewOrphans` | `StoresInv`: rows of accounts name a provider, and a main file that no failed write left behind equals memory; each operation `Keeps` the providers of accounts, whichever statement fails |
| `StoreBackendsProofs!PayloadsAreWhereLogsSay` | `[]PayloadsFollowLogs` | `LogsInv`: logs have distinct times up to the clock, files equal memory unless a write failed, and payloads come before their log and go after it, statement by statement |
| `StoreBackendsProofs!NewestLogsAreKept` | `OnlyOldLogsAreTrimmed` | the same invariant: the file store's list is in the order of time, so that cutting it removes the oldest, and what SQLite deletes has as many newer logs as it keeps |
| `StoreBackendsProofs!BackendsAreInterchangeable` | `[]Interchangeable` | `BothInv`, below |
| `StoreBackendsProofs!RestartsKeepState` | `RestartKeepsState` | `BothInv`, below |
| `CredentialsProofs!InvAlways` | `[]Inv` | the invariant below |
| `CredentialsProofs!CredentialsAreOwn` | `[]OwnCredentials` | `Inv`: whatever copy of a row a call, a form or a sign-in holds, it holds for the row it will write |
| `CredentialsProofs!DoneIsSaved` | `[]DoneMeansSaved` | a callback at its last step has saved for its own state, and `Finish` compares states |
| `CredentialsProofs!PendingIsTimed` | `[]PendingSessionIsTimed` | timers and firing timeouts are numbered by sign-in, and `Finish` stops the timer only of the session it ends |
| `CredentialsProofs!ExecutorsAreBounded` | `[]ExecutorBounded` | a step of a call raises one counter below its limit |
| `OrchestrationProofs!RequestsAreSound` | `[]Inv` | the invariant below |
| `OrchestrationProofs!StagesCharged` | `[]StagesAreCharged` | a request under way owes what it used, an ended one has paid it |
| `OrchestrationProofs!ClosedIsValidated` | `[]FailClosedIsValidated` | only `AfterValidator` ends a closed guardrail with an answer |
| `OrchestrationProofs!ComboTurnsStayFair` | `[]ComboTurnsAreFair` | `TurnInv`: a combo's rotation goes round its models, so that at a place of it every model had the turns of the full rounds, and those before the place one more (`InRound`, `RoundLead`) |
| `GatewayRequestsProofs!ExhaustionIsTrue` | `[]ExhaustedIsTrue` | `KeyInv`: what an undisturbed call blamed stays in cooldown (`Blames`) and it is never given a cooling key, so its attempts are as many distinct keys (`CallInv`) |
| `GatewayRequestsProofs!TurnsStayFair` | `[]TurnsAreFair` | `TurnInv`: while the list stays the same the rotation goes round it, and a key's turns are those of the full rounds plus what it had of the current one (`GoesRound`, `Had`) |
| `GatewayRequestsProofs!BlocksStayWellFormed` | `[]BlocksAreWellFormed` | `DeliveryInv`, below |
| `GatewayRequestsProofs!ArgumentsArrive` | `[]ArgumentsReachTheirTool` | `DeliveryInv`, below |
| `GatewayRequestsProofs!EndedStreamsAreBilled` | `[]EndedStreamIsBilled` | `BillInv`: while a stream is open, the usage known is the upstream's last report, whichever parts it has; the end adds to it |

The engine's `IInv` is `TypeOK`, `SiblingIsolation` and, for each request, `Sourced` and
`Charged`. Its proof has one lemma for each action: the request becomes a `Good` one, and starts
an attempt only within its budget (`Becomes`). What the actions do to shared state is said once
(`SharedState`, `PenaltyStep`, `OutcomeStep`), and the theorems combine the two.

`Interchangeable` compares what callers read, which says little of what is stored. The
invariant `BothInv` behind it and `RestartKeepsState` is `StoresInv`, `LogsInv` and two more:

- `RowsInv`: memory and the main file of the file store hold rows which their normaliser leaves
  alone (providers need only have their Go type, since a reset stores the seeds as they are); and
  while nothing is `excused`, SQLite has the same rows, of providers the normalised ones, and every
  provider's keys are named (`KeysNamed`);
- `MatchInv`: then a log that both stores have is the same in both, and a payload that one of them
  has is one its log speaks of.

A step keeps `RowsInv` because every normaliser returns normal rows and leaves a normal row as it
is. Range checks and closed sets are arithmetic. For lists the argument is about positions:
what a loop with a `seen` map appends is the items at the indices that are valid and first of
their name (`FirstOfEach`), in the order of the list (`Sorted`); a list of which all are valid and
all names differ is left alone, and the result of any list is one. `NormalizeProviderKeys` goes through
its list with the keys kept so far, and keeps a list whose ids differ. Both views are then the
same function of the rows. A restart of the file store reads rows that are normal, from a file
that equals memory when nothing is unsaved; one of SQLite changes no row unless it has to seed.

The credentials' `Inv` is `RowsInv` and `ManagerInv`. Both speak of what a row may hold
(`Holds(f, id)`: its own tokens or none with Codex, anything with Antigravity) and of whom a copy
is for (`CallOwner`, `SignOwner`): a stored row, the copy in a call, in a form and in a callback
hold what their owner may hold, and a sign-in's number leads to the row it was started for
(`SignInOK`). `OwnCredentials` alone is not inductive, since it says nothing of the copies which
will be written. `Step` takes it over the actions, one lemma for each; `SavedInv`, `TimedInv` and
`BoundInv` add what the other three theorems need.

The orchestration's `Inv` says of each request that it is `UnderWay`, with its tokens still owed
(a router's are recorded as they come), or `Over`, with everything recorded and an answer that
may pass. The step is one lemma for each action, over facts about the switches (`AfterError` and
the others) that move a request from stage to stage.

`DeliveryInv` relates an open stream's locals to both ends of it. To an Anthropic client
(`ToAnthropicInv`): the tool blocks are the upstream's tool calls in the order they were started,
the client has exactly these open, and the text block exactly when `text` says so; how often the text
block was opened follows from where the upstream's text came (`TextInv`); a stream from Chat holds
nothing back, and in one from Responses `buffer` has what was sent of each call, as long as the
places of the calls are known (`Placed`) and but for what the code does not look at (`unseen`). To a Chat client (`ToChatInv`): as long as
tool calls come one after the other, the index under way is the number of those finished, and
`current` says whether one more was started. What a list of events does to the client is said
by `Runs`; the lemmas on `Deliver` follow it event by event, and `FinalRuns` goes through the
final ones: the text block closed, each buffer sent to the block of its own tool
(`FlushRuns`), each block closed (`StopsRun`), the message ended.

Lists which the code builds in a loop (the keys that are available, the events of a step, the
buffers flushed, the keys named) are recursive functions, over numbers only, in `KeyPool`, `Streams`
and `StoreRows`. The
proofs do induction on such a function with sets of numbers instead of operators: a set that
holds 0, and n + 1 with n, is `Nat` (`Induction`, from `Smallest`, the well-foundedness of `<`), and a
function that satisfies the recursive equation exists by the same lemma (`LoopExists`,
`RunExists`, `FlushedExists`).

The assumptions are those the code justifies: attempt limits and capacities are positive, and the
candidates of a request have a bound (`CandidatesBounded`; providers and accounts are finitely
many); the rate limits that policies may have include a greatest; what is sent to the
stores has its Go type, accounts name a provider, and ids come from a list that orders them
(`InputsAssumption`, `IdsAssumption`); a seed has no key list, since the environment gives it one key
at most (`SeedsAssumption`); a combo is a list of names with a
sticky limit, zero meaning one (`CombosAssumption`); the repetitions of Antigravity for 503 are no more than for 429; an
account names a provider it may be stored under; a guardrail is open at one of its stages, since
`NormalizeGuardrails` makes it so; and the keys of a provider have distinct ids and
positive priorities, and none of them is called "legacy" (`KeysAssumption`). Ids and priorities are what
`NormalizeProviderKeys` gives, save that the ids it makes up from the time, for three keys sent with
the same id within one second, can coincide; a key that a user calls "legacy" is taken for the
provider's own and never blamed (`key_retry.go:71`).

Only model-checked: everything temporal with fairness (the liveness of `KeepsPromise` and of
`ImplementsLogSink`, `EveryCallDecides`, `SessionsEnd`), which the prover does not do. Every
invariant and every other action property of the passing runs is the statement of a theorem
above. That the four violated properties fail is shown by the counterexamples of TLC.

## 5. Not modelled, and why

Payload conversion (translators, Antigravity transformation, token optimiser, debug log, RTK
bridge), rendering, metrics, backup encryption and the load test keep no shared state. Media
endpoints make one upstream call outside the engine, with the admission and the keys modelled
here. Of the dashboard, what rewrites shared rows is modelled; provider tests, model fetches and
the encrypted backup only read or replace. `RestoreAPI` overwrites the database file under a
running store; what SQLite then does is not specified by the code. Prompts, answers and the many
formats of usage are abstract. Torn reads of a policy that `FileStore.GetSettings` shares with
`RecordAPIKeyUsage` are left out: a policy is read at one instant. Two calls of a store never
overlap in `StoreBackends` (a mutex, or one writer at a time): how callers interleave loads and
saves is `ApiKeyAdmission` and `CredentialRows`. Logs get increasing times there; SQLite orders
them by text, and two in the same second whose fractions differ in length can swap. The calls an
executor repeats inside an attempt are one call of the engine's model, and steps of their own in
`KeyPool` and `CredentialRows`. Panics are not modelled.

In `AsyncLog`, operations of the store other than adding logs are left out: deleting
the debug payloads of a file store can only save an unsaved log sooner, a reset drops all logs. A server that stops by itself ends the process in `log.Fatalf` (`main.go:68`), without the
shutdown, and is left out too. In `Streams`, `return usage, final("stop")` is taken as Go's compilers
evaluate it, the call before the variable is read (`anthropic_sse.go:330`, `sse.go:281`), though the
language leaves that order open.

## 6. Plan

1. Compose `KeyPool` and `CredentialRows` with an attempt of the engine, in place of the results
   it is assumed to give.
2. The interleaving of two store calls of SQLite, statement by statement, for deletion against
   an account that is added meanwhile.
3. Media endpoints, which make their own single attempt, and the model fetches of the dashboard.
4. With the composition of 1, its refinement: the results an attempt may have are those the engine
   assumes.
