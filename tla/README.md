# orkoprox in TLA+

orkoprox is an LLM gateway: one FastAPI process that authenticates a request,
checks its rate and its budget, runs content guards, routes it along a chain of
providers, and records what it used. This directory holds TLA+ models of the
parts of it that carry state over time, the TLC runs that check them on small
instances, and TLAPS proofs of the properties that matter most.

## 1. The system

Every endpoint is an `async def` on the event loop of a single process
(`Dockerfile:40` starts one uvicorn worker), and the Redis client of the
metering is synchronous. What happens between two `await`s is therefore atomic
within a process, and requests interleave at the awaits: the provider call, the
backoff sleep, the chunks of a stream, the guard calls. Other processes (a second
gateway, the bootstrap script, the alerter) meet it only through Redis.

| Component | Source | State it keeps | Operations | Hard behaviour | What makes it correct |
|---|---|---|---|---|---|
| Provider registry | `providers/router.py`, `base.py`, `openai_compatible.py`, `stub.py` | `_state`: `cooldown_until` per `provider:scope`; the loop's `last_error`, `capability_error`, attempt | `chat_completions`, `chat_completions_stream`, `embeddings`, `_run_with_retry`, `_start_cooldown` | requests of one scope read and overwrite one cooldown between each other's awaits; retries; streams that fail before or after the first chunk; cancellation | chain order, the right error reported, a cooldown only for the provider and scope that failed, self-healing |
| Rate limiter | `rate_limit.py` | a bucket and an in-flight counter per key; the limits | `check_rate`, `try_acquire`, `release`, `reconfigure` | limits change under existing buckets; refill at the boundary | admissions bounded by burst and rate; nobody refused who is owed a token; the counter follows its holders wherever the limit stays on |
| Token metering | `token_metering.py`, `storage.py` | per-key config, day and month counters (Redis); a positive and a negative cache per process | `get_key_config`, `check_budget`, `record_usage`, `register_key`, `revoke_key` | check-then-act around the provider call; stale caches; a crash or a failure of the store between two increments; midnight | bounded overshoot; the two counters agree but for what was interrupted; revocation takes effect; a new key becomes visible |
| Key administration | `main.py:2516-2572`, `scripts/keyconfig_bootstrap.py` | the static key list, key configs | register, revoke, bootstrap | writers in two processes | as above |
| Chat pipeline | `main.py:1121-1710`, `hooks.py`, `services/content_moderation.py` | per request: pre-guard task, provider task, cascade tier, what the stream has sent | cache lookup, hooks, pre-guard in parallel, cancel, cascade, record, post-guard, stream | guard and provider race; cancellation; guards that raise; answers without usage; tiers that fail; streams that break before or after their own `[DONE]` | nothing goes out that a guard has yet to allow; no task left behind but by a guard that raises; usage recorded once; every request settles |
| Semantic cache | `semantic_cache.py` | entries with embeddings, TTL, capacity | `lookup`, `store` | hits without guards; eviction; two requests that both miss | nothing a guard did not let pass (but for those who skip guards), nothing past its TTL, never over its limit |
| Responses API | `responses_api.py`, `main.py:1712-1890` | stream translation state; stored responses and their index | translate, save, get, list, delete | text and tool calls in any order; clients that close; index read-modify-write by two processes; crashes between commands | well-bracketed events; what is stored is what the client is told, or would have been; follow-ups see whole responses |
| Policy | `policy.py`, `main.py:2356-2390` | parsed policy, mtime, settings | `reload_if_changed`, `apply_policy_to_settings` | file replaced while read; keys removed | settings follow the file |
| Alerter | `scripts/alerter.py` | counters, active alerts, snapshot in Redis | one cron run | crash between message and write; expiring keys; restarted counters; flapping | messages are earned, alternate, and come |
| Health, metrics, audit log, admin auth, wire formats, pricing and capability tables, reranker | `healthz.py`, `metrics.py`, `audit_log.py`, `admin_auth.py`, `compat.py`, `schemas.py`, `providers/*_pricing.py`, `capability_matrix.py`, `reranker.py` | none, or counters that are only incremented | conversions, probes | none over time | not modelled |

Interactions: the chat handler calls, in this order, authentication (which may
look a key up in the metering), the rate limiter, the budget check, the cache,
hooks and guards, the registry, and the metering again to record. A policy
reload writes settings and calls `reconfigure` of the limiter.

The hazards of this code, each at its line and with the properties that would
catch it, are listed in `PROJECT.json`.

## 2. Modules

| Module | Models | Runs / proofs |
|---|---|---|
| `Failover` | the registry | `MCFailover` with `FailoverChain`, `FailoverLive`, `FailoverRateLimitDoc`, `FailoverEscapeDoc`; `FailoverProofs`, `CooldownProofs` |
| `Breaker` | what the cooldown table promises: a circuit breaker per (provider, scope) | `ImplementsBreaker` in `FailoverChain`; `BreakerProofs` |
| `RateLimiter` | the limiter and its reload | `MCRateLimiter` with `RateLimiter`; `RateLimiterProofs` |
| `Metering` | budgets, key configurations and their caches | `MCMetering` with `Metering`, `MeteringHardStopDoc`, `MeteringRevokeDoc`; `MeteringProofs` |
| `ChatPipeline` | the handler of `/v1/chat/completions` and the semantic cache | `MCChatPipeline` with `ChatPipeline`, `ChatPipelineFilterDoc`; `ChatPipelineProofs` |
| `ResponseStream` | the translation of a chat stream into Responses events, as operators on its state | through `Responses`; `ResponsesProofs` |
| `Responses` | the handler of `/v1/responses`, the response store and its index, on `ResponseStream` | `MCResponses` with `Responses`; `ResponsesProofs` |
| `Alerter` | the cron job and its Redis keys, and the gateway it watches | `MCAlerter` with `Alerter`; `AlerterProofs` |

An operator whose comment says "a variant that must fail" is a plausible bug:
`PROJECT.json` pairs it with the definition it replaces and with the property
that must then be violated.

### Failover

A slot `r` of `Requests` is a request in flight; `pc[r]` is `idle`, `calling` (an
awaited provider call), `waiting` (the backoff sleep), `streaming` (after the first
chunk) or `done`. `cooldown[<<p, s>>]` and `wait[r]` are the time that *remains* until
`cooldown_until` and until the sleep ends, so time needs no bound. The three loops of
`router.py` (chat, streaming, embeddings) share one skeleton and differ where the code
differs: only chat looks for empty content, only chat and streaming check capabilities
and remember a cooling candidate as `last_error`, only a stream has a first chunk. A
stream that retries has noted its failure in `last_error` before it sleeps
(`router.py:1400`); the other two loops note it when the candidate is given up.

* `Arrive`: resolve the route, scan the chain from its head.
* `Serve`, `EmptyContent`, `Retry`, `GiveUp`, `Escape`: the reply of the provider
  and everything the loop does up to its next await: start the cooldown, pass
  over unable and cooling candidates (`Proceed`), call the next one or raise.
* `Resume`, `StreamOver`, `Cancel`, `Leave`, `Tick`: the end of a sleep, of a
  stream, of a task cancelled by the pre-guard, of the handler; time.

`Listed[x]` is the route's provider list *with* its repetitions (the global list
is appended to the route's own); `FallbackChain` removes them as
`_fallback_chain_for_route` does. `fate` is history: what became of each
candidate; it is what `FailureReport` compares the final error with.

Abstractions. Payloads, model names and their rewriting are data; a call carries
the set of providers able to serve it. An upstream failure is one of four kinds,
which is what the error handling tells apart. The stub and a missing API key
fail without an await; here their reply is a step of its own, which adds
interleavings and removes none. Branches no provider of the tree can reach
(`ollama`, `NotImplementedError` with the synthetic stream) are left out.
Reranking keeps no state.

### RateLimiter

Tokens are counted in units of `1/Minute` of a token, so a clock unit refills
exactly `perMinute` units; the float rounding of the code is abstracted. A check
is one of three actions (`FirstCheck`, `Admit`, `Refuse`) by what it finds;
`admitted[k]` is the history of admission times. `Reconfigure` may set any of the
configured limits at any time and keeps buckets and counters, as the code does.
No handler calls `try_acquire` and `release` today; they are modelled by their
contract: a caller releases once what it acquired. `leaked` and `uncounted` are
history: a slot was released, or acquired, while the concurrency limit was off (0, the
default), so the counter was left alone.

### Metering

Two or more gateway processes and the bootstrap script on one store. A handler runs from
authentication to the end of the budget check without an await (`Admit`, `Refuse`; the
reads of the day's and of the month's counter are one step), and the two increments of
`record_usage` are two steps (`RecordDay`, `RecordMonth`) with nothing of the same
process in between (`Free`), because another process or a crash can come between them.
The store may also fail under `record_usage` with the process living on (`LoseDay`,
`LoseMonth`): each increment reads its counters back (`storage.py:68-74`), so the
failure may come before or after what it was to add; the media handlers log it and answer
all the same (`main.py:1958`, `2163`, `2327`), the others leave with a 500. `faults`
counts crashes and such failures. A store that fails under a lookup or an admin's write
is a 500 that changes nothing, and left out. `Lookup` and `RememberLookup` are the
result and the effect of `get_key_config`. Endpoints fall into three kinds: *hard*
(embeddings, rerank, `/v1/messages`, `/api/chat`), *chat* (with the degrade alias) and
*media* (audio, images, vision), which record but never check.

History variables: `spent` (what the daily counters of a month add up to),
`waived` (tokens of today no daily limit was compared with), `foreign` (another
process wrote the key since this one last read it) and `known` (how long the
store has had the key).

Abstractions: the weighted tokens of a request are a number from `Costs`; of the
two windows the counters' TTLs (7 and 90 days) outlast the windows and are left
out; the store is Redis (with the in-memory store a restart also loses the
counters).

### ChatPipeline

A slot `r` is a request; what it is (stream, cascade, guard skipped, tools) is its
`kind`. The states of a slot are the awaits of the handler: the embedding, the guard and
the provider at once (each with a state of its own, so that either may end first), a
cascade tier, the post-guard, a chunk of a stream. `Begin` starts the pre-guard task;
`PreVerdict`, `Cancelled`, `ProviderEnds`, `TierEnds` and `PostVerdict` are what ends an
await, each with everything the handler does up to the next one (`Settle`, `Finish`,
`Deliver`, `Keep`). `Chunk`, `UpstreamDone`, `UpstreamEnds`, `UpstreamBreaks`,
`StreamVerdict` and `Disconnect` are the steps of `stream_iter`. A guard call may also
end in an exception instead of a verdict: the parsing of its answer is outside its `try`
(`content_moderation.py:144`, `208`). Before the provider (`PreRaises`) the handler
leaves with a 500 and its provider task running; `ProviderEnds` covers the end of that
task too. After it (`PostRaises`) it is a 500 for an answer already recorded. The stream
catches it and ends as if unguarded (`StreamRaises`, `main.py:1443-1450`). `TierEscapes`
is a cascade tier that raises what is no `ProviderError`. `usage` is what
`_extract_usage_from_response` finds: a count, none (or no key to record it for;
`main.py:1560-1561` then records nothing), or a field that cannot be read, which is a
500. `Live`, `Nearest`, `Touch`, `Evict` and `Store` are the cache; `Live(c)` is what is
left of entries `c` when the expired ones are dropped. An entry's `origin` (let pass by
the guards, or by one who skips them) and `old` (its true age) are history.

Abstractions. A text is a model value and closeness of embeddings a relation on texts;
what a hook does to a text is data, a hook may pass or block. The reply of the registry
is a success, a failure or an empty answer (`Failover` says which); the budget check and
its degrade alias come before this handler's first await (`Metering`). The stream's
post-guard is switched on (`GUARD_POST_STREAM_ENABLED`). A request id can be chosen by
the client, so `Store` may replace an entry. The client of a plain request may
disconnect too, but that does not stop its handler. Streams and cascades do not use the
cache and so do not meet other requests.

### ResponseStream and Responses

The translator is a record of its local variables; `TextDelta`, `CallDelta`,
`CloseText`, `CloseCall` and `Complete` map a state to the next, with the events they
emit appended. `response.created` carries no number in the code; the model gives it the
0 the numbering starts from. A request streams (`Delta`); `StreamEnds` closes the
message item however the chat stream ended, `EndCall` one tool call after the other,
`Report` sends the whole and the final marker, and only `Persist` saves: each `yield` in
between is a place where the client may be gone. Contents are numbered fragments: enough
to tell a lost, repeated or misplaced one. Two gateway processes handle a streamed
response, a request that continues it (`previous_response_id`) and deletions; every
Redis command (`SaveObject`, `SaveMessages`, `ReadIndex`, `WriteIndex`, `DeleteObject`,
`DeleteMessages`) is a step between which another process, or a crash, can come. Within
a process the store is called without an await, so its commands are not interleaved with
other handlers of the same process (`Free`). A client may close at any event
(`Disconnect`): the generator ends at its `yield`. `made` is the output a handler has
produced, `out` what its client has been told: a stream tells before it saves
(`Report`), a plain request saves first (`main.py:1784-1791`) and tells when the last
command of the save is over (`Return`), so a crash may come in between.

Abstractions. The translation of the request and the contents of messages are
data; finished output is kept as the kinds of its items. Call indices are numbered
in the order they come. `get`, the list and the input items change nothing.

### Alerter

`Plan` is the order of a run's tasks; `Start`, `Recover`, `CheckUp`, `CheckDown` and
`Metrics` are one each. A task that sends a message ends there, and `Remember` is
the write that follows, so a `Crash` may come between. `Expire` drops a key that
the last run did not refresh: the TTL (a day) is far longer than the minute
between two runs, so a key a run has just refreshed cannot be gone at the next.
`downs`, `ups`, `expected`, `base` and `sound` are history: what the alerter should
know.

Abstractions. Whether a message arrives is left out, the code ignores it. The
count of high windows does not outlive the snapshot (each run that counts stores
both). The gateway changes between runs, not during one; cron runs do not
overlap; a crash inside a task that sends nothing is the crash after or before it.

## 3. Runs

| Run | Question | Instance |
|---|---|---|
| `FailoverChain` | order, bookkeeping, report, cooldowns, refinement of `Breaker` | 2 requests; 5 kinds of calls: a chain with a repetition, a stream one of whose providers is unable, a call nobody can serve, OCR ending in the stub, embeddings; 1 retry; cooldowns 2 and 1 |
| `FailoverLive` | every accepted call settles; a cooldown runs out again; the books of streams that retry on either provider | 2 requests of one scope in opposite order; no symmetry |
| `FailoverRateLimitDoc` | expected violation | the long cooldown for 429 |
| `FailoverEscapeDoc` | expected violation | failover for every kind of failure |
| `RateLimiter` | bound on admissions, no needless refusal, slots | 1 key, 3 settings (bursts 2 and 3, rates 1 and 3 per minute, concurrency 2 and 1; and the default: all off), minute of 2 clock units, clock up to 6, 2 callers |
| `Metering` | overshoot, agreement of the counters, visibility of a new key, revocation | 2 processes, 1 static key, 2 requests in flight, one crash or failure of the store, two days (a month each), 3 tokens |
| `MeteringHardStopDoc` | expected violation | the budget as a hard stop on every endpoint |
| `MeteringRevokeDoc` | expected violation | a revocation behind a stale negative cache |
| `ChatPipeline` | guards, cancellation, cache, cascade, streams, settling | 2 requests: one slot for a paraphrase by somebody who skips the guards, a guarded text that is not close, a guarded stream with tools, a cascade of 3 tiers without text; the other plain and guarded; 3 texts, two of them close; 2 cache entries, TTL 2 |
| `ChatPipelineFilterDoc` | expected violation | a request that skips the guard |
| `Responses` | bracketing, what is stored, listing, follow-ups | 2 processes, a stream and its continuation, at most 8 chunks, 2 tool calls, 1 crash |
| `Alerter` | what is reported, and when | 1 backend, 1 way for the health check to fail, 2 failures, 2 recoveries and 2 windows, threshold one half, counters up to 2, 1 crash |

Why the bounds are enough. *Failover*: interference is pairwise (a cooldown another
request wrote, or did not), so two requests show it; a chain of two providers plus a
repetition has a first, a next and a last candidate; the cooldowns differ between scopes
and one is longer than a backoff, so a cooldown can outlast, and run out during, a
retry. *RateLimiter*: `BurstBound` needs a bucket drained, refilled past its cap and
drained again under two different settings, which a clock of six half-minutes allows.
Keys are independent entries of two dictionaries, so the run has one. *Metering*: two
processes are one that is out of date and one that is not; `BudgetBound` is tight with
two requests (limit 1, both checked before either is charged); three tokens let a month
pass its limit; one fault separates a day from its month. With one key nothing can be
charged to a wrong key: keys are independent in every operation. *ChatPipeline*: two
requests meet only in the cache; with two entries the cache is full and a third text
evicts, an entry can be stored while another request holds the miss that led to its own
store, and a TTL of two lets an entry be touched before it expires. One cascade needs a
first, a middle and a last tier. *Responses*: two tool calls can be opened, continued
out of order and closed; two processes are the writer and the one that interferes; eight
chunks are text, a call, text again, another call and both continued. *Alerter*:
thresholds of two tell "once" from "in a row"; backends do not share anything but the
`active` hash, and the alerts of the health check and of the fallback rate share it with
the one backend.

`CHECK_DEADLOCK FALSE` in the metering runs: with requests idle and the bounds on
days, tokens and crashes reached, nothing need be enabled. In
`Responses` every id is used once, so the system ends. The other systems never stop
under their bounds and deadlock is checked.

What passes:

* `ChainOrder`, `Bookkeeping`, `FailureReport`: whatever other requests do to the
  cooldowns meanwhile, a request visits its chain in order, and the error it ends
  with is the fate of the last candidate able to serve it. A capability mismatch
  never hides a provider's error. Between its awaits `last_error` sums up the candidates
  before the current one, or, in a stream that retries, is the current one's own error.
* `CooldownOnlyByFailure`, `CooldownBounded`, `CooldownNotShortened`: a cooldown
  is started exactly by a failure that blames that provider in that scope, is
  never longer than its setting, and is never cut short by a late failure. These
  two bounds are for settings that stay: a policy reload may set
  `provider_cooldown_seconds` while a cooldown runs (`policy.py:131-133`), and then they
  compare two different settings. The
  last holds only because all failures of a scope cool down equally long;
  passing the upstream's 429 through (see below) would break it, since
  `_start_cooldown` overwrites without comparing. That is its mutant.
* `ImplementsBreaker`: the registry is a circuit breaker per (provider, scope): no
  request is bound to a provider that is cooling down when it gets there, and
  failover is one step. A request that is already bound stays bound: a retry
  after a backoff does not look at the cooldown again, and the breaker says so.
* `BurstBound`, `NoNeedlessRefusal`: admissions are bounded, and a refusal is needed,
  under any limits set in between. `SlotsMatchHolders`: the counter of slots is too high
  only if a slot was released while the limit was off, too low only if one was acquired
  then. Both do happen when the limit is switched off and on, which the run does.
* `BudgetBound`: a daily limit is overshot by at most one request per slot,
  whatever the caches of the processes hold. `MonthAgrees`: the month is never
  ahead of its days and behind them only by open requests and by one request for
  each crash and each failure of the store, which nothing makes up for.
  `NewKeyVisible`, `RevokedRefused`.
* `NothingUnchecked`, `NoOrphan`: whichever of guard and provider ends first, a guarded
  client gets nothing made of its prompt before the verdict on it, and no plain answer
  whose text the guard did not let pass; from the cache, where nobody reads its own
  prompt, only what was let pass for somebody else, or what somebody produced who skips
  the guards. The text of a stream goes out before the guard reads it. A blocked request
  leaves no provider task running; only a guard that raises does, and then the client
  has a 500 and nothing is recorded. `ServedFresh`: the cache serves nothing past its
  TTL, however often it was touched. `ChargedOnce`: the usage of the answer that was
  kept is recorded once if it counts anything, whatever became of its later tiers and of
  the guard after it; cache hits, blocks, errors, streams and answers without usage are
  not. `StreamShape`: a stream ends with its `[DONE]`, an error comes before it, and a
  whole guarded stream with text has had its verdict unless the guard raised.
  `EveryRequestSettles`: no handler waits for a task that has ended.
* `WellBracketed`, `EndsFaithful`: in whatever order text and tool calls come, items are
  opened and closed once and numbered without gaps; the done event of a call says what
  its deltas added up to, that of a message all the text of the stream so far (see
  below), and the whole response the items that were done. `StoredAsSent`: what is
  stored is the whole output of a handler, as its client was told, or, for a plain
  answer, is about to be told unless a crash comes between. `Durable`: what a client was
  told is stored stays readable until it is deleted. `Listed` and `HistoryWhole` say
  that an undisturbed save or delete is whole, whatever happens to other responses. They
  do not say more, because the code does not do more: the index is read and written
  back, so two processes may lose an entry, and a crash or a second process at the same
  id may leave half a response.
* `Earned`, `Alternating`, `FallbackJustified`: no message before its count of runs in a
  row, none twice (but after a crash between message and write, or an expired mark),
  no alert about fallbacks from traffic that had none, but for one window bent by a
  failed fetch, or after a restart. `OutageReported`, `RecoveryReported`: what lasts
  is reported.

## 4. Disagreements with the documentation

1. A rate-limited provider gets the short cooldown (`FailoverRateLimitDoc`): the
   adapter raises every upstream error as `status_code=502`, so the 429 branch of
   `_cooldown_seconds_for` is dead. `config.py:126` promises 300 s.
2. A stream that ends before its first chunk, or a 200 whose body is not JSON,
   ends the request with the fallback untried (`FailoverEscapeDoc`).
3. The audio, image and vision endpoints never check the budget
   (`MeteringHardStopDoc`).
4. Revoking a key that another process registered within the negative cache's
   30 s does nothing and reports success (`MeteringRevokeDoc`).
5. Whoever skips the pre-guard skips the post-guard too (`ChatPipelineFilterDoc`);
   `main.py:1102` and `config.py:398` say the output always stays filtered.

Read off while modelling, without a run of their own; the models do what the code
does:

* `release()` returns early while the concurrency limit is off, so a slot acquired
  while it was on is never given back. No handler calls `try_acquire` or `release`.
* Cached answers may come from requests that no guard has read (`main.py:1684`
  against the comment at 1168-1169, "the cached answer was already guarded when first
  produced"): those who skip the guards store theirs, and so does a guard that is
  unavailable and fails open. They are served to guarded requests too.
* A guard that answers without a text raises: a 500 that leaves the provider call
  running, a 500 after the usage was recorded, or a stream without a verdict.
* Hooks run after the text was embedded, and the guard reads the text as it came
  (comment at `main.py:1211`).
* The cascade hardly ever escalates: the registry turns an empty answer into a
  failure, and a failure of the first tier raises at `main.py:1532`, before the
  cascade begins. What is left is content that is empty but no string.
* After the upstream's own `[DONE]` a guard warning follows it (the comment says
  before the final one).
* The translator's accumulated text is never reset: a second text item of one
  response repeats the first one's text in its done event, and the output list of
  `response.completed` orders items otherwise than their indices.
* An interrupted or guard-warned stream is still reported, and stored, as completed.
* `ResponseStore.TTL_SECONDS` and the alerter's `P95_THRESHOLD_MS` are never used.
* An alert is sent again when the key of active alerts expires in a long outage
  ("no further alerts while down"), and a failed fetch of the metrics stores zeros,
  so that the next window is the lifetime (`alerter.py:292`: "not lifetime").
* A key removed from the policy file keeps its old override (`policy.py:26`:
  "everything else falls back").

## 5. Fairness

`FairSpec` of `Failover`: weak fairness of `Tick`, and per request of `Reply`,
`Resume`, `StreamOver` and `Leave`. The event loop runs every ready task; httpx
has timeouts on connect, read, write and pool, so a pending call is answered or
raises; sleeps end. Fairness of `StreamOver` assumes that upstream streams are
finite (the read timeout is per read, so an upstream that keeps sending keeps the
request). No fairness is assumed of clients, of cancellation, or of a provider
ever answering well.

`FairSpec` of `ChatPipeline`: weak fairness of each request's `Step`, by the same
argument; the guard has a timeout of its own. Nothing is assumed of clients.
`FairSpec` of `Alerter`: weak fairness of `Run`. Cron starts a run every minute, its
fetches and Redis calls end. That the backend stays down or up is the premise of
the liveness properties, not an assumption. `Responses` assumes no fairness.

## 6. Proofs

All are for arbitrary values of the constants, under the named assumptions of
the modules (`RoutesAssumption`, `CallsAssumption`, `TimesAssumption`;
`LimitsAssumption`; `MeteringAssumption`; `ChatAssumption`; `ResponsesAssumption`;
`AlerterAssumption`), which TLC evaluates on every run of the module. They say what the
constants are (numbers, finite sets, kinds of requests) and that a mark such as `None`,
`NoConfig` or `NoText` is none of the values it stands beside.

Every safety property and every step property that a passing run checks is proved, and so
is the refinement.

* `FailoverProofs`: `TypeOK`, `ChainOrder`, `Bookkeeping` and `FailureReport`.
  `FailureReport` is not inductive: it speaks of the end of the loop only. The invariant
  `IInv` is `TypeOK` and, per request, the books of the loop: what `last_error` and
  `capability_error` say about the candidates so far (`Noted` tells the three loops
  apart while one retries), and that a request asleep has attempts left. `ScanFates`,
  `ScanStops`, `ScanEnds` and `ScanBooks` say what one scan of the chain (`Proceed`)
  does; `ProceedOK` carries the invariant over it, and every action that scans cites it.
  `Frame` says that the invariant of one request does not depend on the others.
* `CooldownProofs`: `CooldownBounded`, and the action properties
  `CooldownOnlyByFailure` and `CooldownNotShortened`, from `CooldownStep`, which
  says what any step can do to the table; `OneSettingPerScope` is the fact that
  all failures of a scope cool down equally long.
* `BreakerProofs`: `Spec => ImplementsBreaker`. `MapEnter`, `MapExit`, `MapHop`
  and `MapStay` give the mapped step, `MapOpen` the breaker a failure may open;
  `StepMaps` goes through the actions.
* `RateLimiterProofs`: `TypeOK`, `BurstBound`, `NoNeedlessRefusal` and
  `SlotsMatchHolders`, for any set of limits, those that switch a limit off included.
  `TypeOK` keeps a level within the largest capacity and a refill out of the future. The
  level of a bucket alone bounds nothing. `IInv` relates it to the history: from any
  past admission on, the level is at most what the largest burst and rate leave, and at
  least what the smallest leave from some admission on (`Upper`, `Lower`). A refill
  (`RefillOK`) and an admission (`AdmissionOK`, `FirstOK`) keep these books.

* `MeteringProofs`: all five invariants of the run, for any number of processes, keys,
  days, crashes and failures of the store. `TypeOK` needs no more than itself: `OneHalf`
  is its part that a process has one request between its two increments, which `Free`
  guards. `NewKeyVisible` and `RevokedRefused` rest on what a step can do to what one
  process knows of one key (`Known`: nothing, a lookup, a write here or elsewhere, a
  restart, a tick). A negative entry and the time its key has been there never exceed
  the TTL together (`Runs`); a process nobody has overtaken knows what the store says
  (`Fresh`). `BudgetBound` is about what has been charged, and a step charges what was
  let in long before. `Reserve` counts the requests still to be charged at their
  dearest: admission adds one while the day is below its limit, a charge turns a promise
  into tokens. So the overshoot is one request per slot, not per check. For
  `MonthAgrees`, `Books` balances a month's counter with its days: they differ by the
  debt of the requests between their increments and, from below, by at most the dearest
  request for each fault. The sum over those requests is the cardinality of a set
  (`Debt` pairs a request with each token it owes), so the finite set theorems do the
  induction.

* `ChatPipelineProofs`: all invariants and the step property of the run, for any number
  of requests, tiers, texts and cached entries. `NothingUnchecked` speaks of what has
  been answered, and is not inductive: before the answer nothing in it says that the
  guard has been waited for. `Progress` adds that: at every await of the handler, how
  far the guard, the provider task, the answer and the record of usage are, and what an
  exception has left behind. A step touches one request (`Local`), so `Frame` carries
  the others over. `BeginOK`, `DeliverOK`, `FinishOK` and `SettleOK` treat the parts
  several actions share, `CrashKeeps` the three ways to end in a 500. The contents of
  the cache play no part in that argument. They do in the second, for `TypeOK`,
  `ServedFresh`, `StreamShape` and what `NothingUnchecked` says of cached answers:
  `Outer` says that the cache is within its limit and holds servable answers (`Kept`),
  that a request that will store one has one to store (`Asking`), and how far a stream's
  output is (`Shape`: `Whole` once it is finished). What a lookup leaves of a cache, and
  the nearest entry it picks, are defined by recursion and by `CHOOSE`; `LiveDefined`,
  `LiveKept` and `NearestIsClose` say what they yield for every cache.
* `ResponsesProofs`: all six invariants of the run and `HistoryWhole`. *The
  translation.* `Sound` is what holds of a translator wherever it is: events are well
  formed (`Ordered`: an item's id tells where it was begun, nothing follows an item's
  end) and the items begun and not ended are exactly those it holds open (`Accounted`).
  `Flowing` is what it is while deltas come, `Streamed` at each stage of its request.
  `WellBracketed` follows from the account when the response is reported. `EndsFaithful`
  needs what the translator holds to be what it has sent (`Told`): the arguments of each
  call are the fragments received of it, the text is all the text of the stream, the
  finished items are those done. `Hears` says what one event adds to what was received;
  an item that is done gets no more (`StaysTruthful`). *The store.* `Types` is the type
  invariant and which process is at which method for which request (`Serving`,
  `Waiting`, `Reading`). `StoredAsSent` and `Durable` follow from `Storing` (an output
  is stored from its save to its deletion, the messages from the save's end) and
  `Informing` (a client is told by the end of the save, and what was made), `Listed`
  from `Indexed`. `HistoryWhole` is about two reads with other processes' commands
  between: `Chaining` says that two processes at one id have torn it, and that an id
  nobody has torn has both its parts or neither, except between the two commands of a
  save or a delete.
* `AlerterProofs`: `TypeOK`, `Earned`, `FallbackJustified` and `Alternating`, for any
  set of backends and any thresholds, with crashes and expiring keys. `IInv` adds what
  the three rest on: a stored counter is at most what really happened in a row
  (`Counts`); the mark in `active` says which message is expected next, unless it
  expired or a crash came between message and mark (`Told`); while high windows are
  counted and the gateway has not restarted, the snapshot is the last reading, and at
  most the first of the windows was bent by a failed fetch (`Sampled`).

`Least`, in the two modules that need it, says that a set of numbers has a least
element; it follows from the library's theorem on well-founded relations. It is how the
proofs do induction over a sequence: were there a place where the claim fails, there
would be a first one. The library's induction theorems take an operator and cannot be
used here. So the recursive functions `Live` and `FlattenSeq`, the community modules'
concatenation that `Received`, `TextUpTo` and `DoneBodies` are defined by, are proved
about for every argument.

Only model-checked: the liveness properties (`EveryCallSettles`, `CooldownExpires`,
`EveryRequestSettles`, `OutageReported`, `RecoveryReported`), because TLAPS 1.4.5 proves
nothing about fairness and `ENABLED`; and the expected violations, which are single
behaviours.

## 7. Plan

1. `Failover`, `Breaker` — done, proved.
2. `RateLimiter` — done, proved.
3. `Metering` — done, proved.
4. `ChatPipeline` with the semantic cache — done, proved.
5. `ResponseStream`, `Responses` — done, proved.
6. `Alerter` — done, proved.

Not modelled:

* *Policy reload*: one synchronous call of an administrator that reads a file and sets
  attributes. What it does to a running system is `RateLimiter!Reconfigure`; other
  settings are read afresh by each request.
* *Health probes*: independent I/O per request, nothing is kept. *Metrics*: counters
  that are only incremented and rendered. *Audit log*, *admin authentication*: a line
  appended and a comparison per request.
* *Wire formats*, *pricing and capability tables*: conversions and constant tables; what
  they yield (able or not, how many weighted tokens) is a parameter of the models.
  *Reranker*: one stateless call.
