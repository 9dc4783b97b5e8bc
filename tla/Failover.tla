------------------------------ MODULE Failover ------------------------------
(***************************************************************************)
(* The provider registry of app/providers/router.py: every request walks   *)
(* the fallback chain of its route, retries the provider it is on, and     *)
(* puts a provider that failed into a cooldown that all later requests of  *)
(* the same scope see.                                                     *)
(*                                                                         *)
(* The registry runs on one asyncio event loop, so a step is what the loop *)
(* does between two awaits: a reply is handled, the cooldown is started    *)
(* and the rest of the chain is scanned up to the next provider call in    *)
(* one step.  Requests interleave at the awaits: the provider call, the    *)
(* backoff sleep and the chunks of a stream.                               *)
(*                                                                         *)
(* Time is kept as the time that remains: cooldown[k] is                   *)
(* max(0, cooldown_until - time.time()), wait[r] what is left of a backoff *)
(* sleep.  No bound on time is needed.                                     *)
(***************************************************************************)
EXTENDS Integers, Sequences

CONSTANTS
    Requests,             \* slots for requests in flight at the same time
    Providers,            \* canonical provider names
    Stub,                 \* the placeholder provider that always fails
    Routes,               \* what resolution yields: preferred provider + route key
    Scopes,               \* route keys, and the embeddings scope
    Embeddings,           \* the scope of the embeddings path
    OcrScopes,            \* the scopes with their own cooldown ("ocr", "vision")
    ScopeOf,              \* ScopeOf[x]: the route key of route x
    Listed,               \* Listed[x]: providers named for route x, in order,
                          \* repetitions included
    Calls,                \* the requests that arrive
    NoCall,               \* what an idle slot holds
    MaxRetries,           \* provider_max_retries
    BackoffBase,          \* provider_retry_backoff_seconds
    BackoffCap,           \* provider_retry_backoff_cap_seconds
    CooldownDefault,      \* provider_cooldown_seconds
    CooldownOcr,          \* provider_cooldown_seconds_ocr
    CooldownRateLimited   \* provider_cooldown_seconds_rate_limited

\* A call: its route, whether it streams, and the providers whose declared
\* capabilities (and whose model for this route) cover the payload.  The
\* embeddings path has no capability check and no streaming.
CallType == [route : Routes, stream : BOOLEAN, able : SUBSET Providers]

ASSUME RoutesAssumption ==
    /\ Stub \in Providers
    /\ Embeddings \in Scopes
    /\ OcrScopes \subseteq Scopes
    /\ ScopeOf \in [Routes -> Scopes]
    /\ Listed \in [Routes -> Seq(Providers)]
    /\ \A x \in Routes : ScopeOf[x] # Embeddings => Listed[x] # << >>

ASSUME CallsAssumption ==
    /\ Calls \subseteq CallType
    /\ NoCall \notin Calls
    /\ \A c \in Calls :
          ScopeOf[c.route] = Embeddings => ~c.stream /\ c.able = Providers

ASSUME TimesAssumption ==
    /\ MaxRetries \in Nat
    /\ BackoffBase \in Nat
    /\ BackoffCap \in Nat
    /\ CooldownDefault \in Nat
    /\ CooldownOcr \in Nat
    /\ CooldownRateLimited \in Nat

VARIABLES
    cooldown,   \* cooldown[<<p, s>>]: time left before p is tried again for s
    pc,         \* where the request is
    call,       \* the call a slot carries
    at,         \* position in Listed of the candidate being tried
    attempt,    \* attempts already failed on this candidate
    wait,       \* time left of the backoff sleep
    lastError,  \* last_error of the chain loop, by kind
    capError,   \* capability_error of the chain loop is set
    answer,     \* how the registry settled the request
    fate        \* fate[r][j]: what became of candidate j (history)

vars == <<cooldown, pc, call, at, attempt, wait, lastError, capError, answer, fate>>
requestVars == <<pc, call, at, attempt, wait, lastError, capError, answer, fate>>

-----------------------------------------------------------------------------
(* Vocabulary *)

Keys == Providers \X Scopes

\* How a provider call fails, by what the error handling tells apart:
\*   badRequest   400/404/413/422: the payload's fault
\*   refused      other client errors (401/403), no API key, the stub's 503
\*   rateLimited  429
\*   fault        5xx, 408/409/425, timeout, network error
FailureKinds == {"badRequest", "refused", "rateLimited", "fault"}

\* RETRYABLE_STATUS, and the timeouts and network errors raised retryable.
Retryable == {"rateLimited", "fault"}

ErrorKinds == FailureKinds \cup {"empty", "cooling"}

\* Errors that end a request after its chain is exhausted.
ChainErrors == ErrorKinds \cup {"unsupported", "unavailable"}

Answers == ChainErrors \cup {"none", "served", "broken", "escaped", "cancelled"}

Fates == ErrorKinds \cup {"untried", "unable", "served", "escaped", "cancelled"}

Positions == UNION {DOMAIN Listed[x] : x \in Routes}

ProviderAt(c, j) == Listed[c.route][j]

Scope(c) == ScopeOf[c.route]

KeyOf(c, j) == <<ProviderAt(c, j), Scope(c)>>

IsEmbedding(c) == Scope(c) = Embeddings

\* The fallback chain: the listed providers without their repetitions.
FallbackChain ==
    [x \in Routes |->
        {j \in DOMAIN Listed[x] : \A i \in 1..(j - 1) : Listed[x][i] # Listed[x][j]}]

Candidates(c) == FallbackChain[c.route]

Least(S) == CHOOSE i \in S : \A j \in S : i <= j

-----------------------------------------------------------------------------
(* Cooldown and backoff *)

\* The retry sleep: exponential, capped.
Backoff(n) ==
    LET exponential == BackoffBase * 2^n
    IN  IF exponential \in 0..BackoffCap THEN exponential ELSE BackoffCap

\* A variant that must fail: 429 passed through, as the long cooldown expects.
RaisedStatusWith429 == [badRequest  |-> {502}, refused |-> {502, 503},
                        rateLimited |-> {429}, fault   |-> {502, 504},
                        empty       |-> {502}]

\* The status_code of the ProviderError a failure is raised with: 502 for
\* every upstream error status (which the adapter keeps in the details), 503
\* for a missing key and for the stub, 504 for a timeout.
RaisedStatus == [badRequest  |-> {502}, refused |-> {502, 503},
                 rateLimited |-> {502}, fault   |-> {502, 504},
                 empty       |-> {502}]

CooldownSecondsFor(s, kind) ==
    IF 429 \in RaisedStatus[kind] THEN CooldownRateLimited
    ELSE IF s \in OcrScopes THEN CooldownOcr
    ELSE CooldownDefault

\* Variants that must fail: the stub cools down like any provider; a failure
\* cools the provider down for every scope.
StartCooldownOfStub(cd, k, kind) ==
    IF kind = "badRequest" THEN cd ELSE [cd EXCEPT ![k] = CooldownSecondsFor(k[2], kind)]

StartCooldownOfAllScopes(cd, k, kind) ==
    IF k[1] = Stub \/ kind = "badRequest" THEN cd
    ELSE [l \in DOMAIN cd |-> IF l[1] = k[1] THEN CooldownSecondsFor(k[2], kind) ELSE cd[l]]

\* The stub never cools down, and a payload error says nothing about the
\* provider.  Anything else overwrites what was left of the cooldown.
StartCooldown(cd, k, kind) ==
    IF k[1] = Stub \/ kind = "badRequest"
    THEN cd
    ELSE [cd EXCEPT ![k] = CooldownSecondsFor(k[2], kind)]

-----------------------------------------------------------------------------
(* The chain loop *)

CoolingDown(cd, k) == cd[k] > 0

\* A variant that must fail: the loop resumes at the candidate that failed.
AheadFromHere(c, i) == {j \in Candidates(c) : j >= i}

\* Candidates after position i, and those among them that cannot serve.
Ahead(c, i) == {j \in Candidates(c) : j > i}

Unable(c, i) == {j \in Ahead(c, i) : ProviderAt(c, j) \notin c.able}

\* A variant that must fail: the cooldown is consulted for the preferred
\* provider only.
UsableHot(c, i, cd) ==
    {j \in Ahead(c, i) \ Unable(c, i) : i = 0 => ~CoolingDown(cd, KeyOf(c, j))}

\* Those of them the loop calls: able to serve the request, and not cooling.
Usable(c, i, cd) ==
    {j \in Ahead(c, i) \ Unable(c, i) : ~CoolingDown(cd, KeyOf(c, j))}

\* The candidates passed over before the next call (all, if there is none).
Passed(c, i, cd) ==
    {j \in Ahead(c, i) : \A u \in Usable(c, i, cd) : j < u}

PassedCooling(c, i, cd) == Passed(c, i, cd) \ Unable(c, i)

PassedUnable(c, i, cd) == Passed(c, i, cd) \cap Unable(c, i)

\* A variant that must fail: no loop remembers it.
ErrorAfterNoSkip(c, i, cd, err) == err

\* The chat loops remember a cooling candidate as last_error; the embeddings
\* loop passes over it silently.
ErrorAfter(c, i, cd, err) ==
    IF PassedCooling(c, i, cd) # {} /\ ~IsEmbedding(c) THEN "cooling" ELSE err

\* A variant that must fail: the capability error hides the provider's.
FinalErrorCapabilityFirst(err, cap) ==
    IF cap THEN "unsupported" ELSE IF err # "none" THEN err ELSE "unavailable"

FinalError(err, cap) ==
    IF err # "none" THEN err ELSE IF cap THEN "unsupported" ELSE "unavailable"

CapErrorAfter(c, i, cd, cap) == cap \/ PassedUnable(c, i, cd) # {}

FateAfter(c, i, cd, fates) ==
    [j \in Positions |-> IF j \in PassedUnable(c, i, cd) THEN "unable"
                         ELSE IF j \in PassedCooling(c, i, cd) THEN "cooling"
                         ELSE fates[j]]

\* The loop, resumed after position i under cooldowns cd with last_error err
\* and capability_error cap: up to the next provider call, or to the raise.
Proceed(r, c, i, cd, err, cap, fates) ==
    LET usable == Usable(c, i, cd)
        err2   == ErrorAfter(c, i, cd, err)
        cap2   == CapErrorAfter(c, i, cd, cap)
    IN  /\ fate' = [fate EXCEPT ![r] = FateAfter(c, i, cd, fates)]
        /\ lastError' = [lastError EXCEPT ![r] = err2]
        /\ capError' = [capError EXCEPT ![r] = cap2]
        /\ attempt' = [attempt EXCEPT ![r] = 0]
        /\ IF usable # {}
           THEN /\ pc' = [pc EXCEPT ![r] = "calling"]
                /\ at' = [at EXCEPT ![r] = Least(usable)]
                /\ UNCHANGED answer
           ELSE /\ pc' = [pc EXCEPT ![r] = "done"]
                /\ answer' = [answer EXCEPT ![r] = FinalError(err2, cap2)]
                /\ UNCHANGED at

\* A request arrives: the route is resolved and the chain entered at its head.
Arrive(r, c) ==
    /\ pc[r] = "idle"
    /\ call' = [call EXCEPT ![r] = c]
    /\ Proceed(r, c, 0, cooldown, "none", FALSE, fate[r])
    /\ UNCHANGED <<cooldown, wait>>

\* The candidate's last attempt failed: it cools down, the loop continues.
FailCandidate(r, kind) ==
    LET cd == StartCooldown(cooldown, KeyOf(call[r], at[r]), kind)
    IN  /\ cooldown' = cd
        /\ Proceed(r, call[r], at[r], cd, kind, capError[r],
                   [fate[r] EXCEPT ![at[r]] = kind])
        /\ UNCHANGED <<call, wait>>

\* The request leaves the chain at its current candidate, cooldowns untouched.
Settle(r, to, result, what) ==
    /\ pc' = [pc EXCEPT ![r] = to]
    /\ answer' = [answer EXCEPT ![r] = result]
    /\ fate' = [fate EXCEPT ![r][at[r]] = what]
    /\ UNCHANGED <<cooldown, call, at, attempt, wait, lastError, capError>>

-----------------------------------------------------------------------------
(* Replies of the provider a request is calling *)

CanAnswer(r) == ProviderAt(call[r], at[r]) # Stub

\* The stub raises stub_provider and nothing else.
CanFail(r, kind) == CanAnswer(r) \/ kind = "refused"

\* A usable answer; for a stream, its first chunk, after which the response
\* is the client's and the rest of the chain is no longer available.
Serve(r) ==
    /\ pc[r] = "calling"
    /\ CanAnswer(r)
    /\ IF call[r].stream
       THEN Settle(r, "streaming", "none", "served")
       ELSE Settle(r, "done", "served", "served")

\* A 200 without content counts as a failure of the candidate; only the
\* non-streaming chat path looks at the content.
EmptyContent(r) ==
    /\ pc[r] = "calling"
    /\ CanAnswer(r)
    /\ ~call[r].stream /\ ~IsEmbedding(call[r])
    /\ FailCandidate(r, "empty")

\* A variant that must fail: one retry too many.
RetryOnceMore(r, kind) ==
    /\ pc[r] = "calling"
    /\ CanFail(r, kind)
    /\ kind \in Retryable
    /\ attempt[r] <= MaxRetries
    /\ pc' = [pc EXCEPT ![r] = "waiting"]
    /\ wait' = [wait EXCEPT ![r] = Backoff(attempt[r])]
    /\ lastError' = [lastError EXCEPT ![r] = IF call[r].stream THEN kind ELSE @]
    /\ UNCHANGED <<cooldown, call, at, attempt, capError, answer, fate>>

\* A variant that must fail: every failure starts the attempts anew.
RetryFromScratch(r, kind) ==
    /\ pc[r] = "calling"
    /\ CanFail(r, kind)
    /\ kind \in Retryable
    /\ pc' = [pc EXCEPT ![r] = "waiting"]
    /\ wait' = [wait EXCEPT ![r] = Backoff(attempt[r])]
    /\ attempt' = [attempt EXCEPT ![r] = 0]
    /\ lastError' = [lastError EXCEPT ![r] = IF call[r].stream THEN kind ELSE @]
    /\ UNCHANGED <<cooldown, call, at, capError, answer, fate>>

\* A variant that must fail: the retry forgets what went wrong before.
RetryForgetting(r, kind) ==
    /\ pc[r] = "calling"
    /\ CanFail(r, kind)
    /\ kind \in Retryable
    /\ attempt[r] < MaxRetries
    /\ pc' = [pc EXCEPT ![r] = "waiting"]
    /\ wait' = [wait EXCEPT ![r] = Backoff(attempt[r])]
    /\ lastError' = [lastError EXCEPT ![r] = "none"]
    /\ UNCHANGED <<cooldown, call, at, attempt, capError, answer, fate>>

\* A retryable failure with attempts left: sleep, then the same candidate.
\* The streaming loop has noted the failure by then; the other paths retry
\* inside _run_with_retry, whose caller sees the last failure only.
Retry(r, kind) ==
    /\ pc[r] = "calling"
    /\ CanFail(r, kind)
    /\ kind \in Retryable
    /\ attempt[r] < MaxRetries
    /\ pc' = [pc EXCEPT ![r] = "waiting"]
    /\ wait' = [wait EXCEPT ![r] = Backoff(attempt[r])]
    /\ lastError' = [lastError EXCEPT ![r] = IF call[r].stream THEN kind ELSE @]
    /\ UNCHANGED <<cooldown, call, at, attempt, capError, answer, fate>>

\* A failure that is final for the candidate.
GiveUp(r, kind) ==
    /\ pc[r] = "calling"
    /\ CanFail(r, kind)
    /\ kind \notin Retryable \/ attempt[r] = MaxRetries
    /\ FailCandidate(r, kind)

\* An exception that leaves the loop: a body that is not JSON (ValueError),
\* or a stream that ends before its first chunk (raised from a sibling
\* except clause, so the ProviderError handler does not see it).
Escape(r) ==
    /\ pc[r] = "calling"
    /\ CanAnswer(r)
    /\ Settle(r, "done", "escaped", "escaped")

Reply(r) ==
    \/ Serve(r)
    \/ EmptyContent(r)
    \/ \E kind \in FailureKinds : Retry(r, kind) \/ GiveUp(r, kind)
    \/ Escape(r)

\* The backoff sleep is over.  The cooldown is not looked at again.
Resume(r) ==
    /\ pc[r] = "waiting"
    /\ wait[r] = 0
    /\ pc' = [pc EXCEPT ![r] = "calling"]
    /\ attempt' = [attempt EXCEPT ![r] = @ + 1]
    /\ UNCHANGED <<cooldown, call, at, wait, lastError, capError, answer, fate>>

\* The stream after its first chunk: it ends, or it breaks.  Nothing fails
\* over any more and nothing cools down.
StreamOver(r) ==
    /\ pc[r] = "streaming"
    /\ \E result \in {"served", "broken"} :
          Settle(r, "done", result, "served")

\* The caller cancels the task (the pre-guard blocked the prompt).
Cancel(r) ==
    /\ pc[r] \in {"calling", "waiting", "streaming"}
    /\ ~IsEmbedding(call[r])
    /\ wait' = [wait EXCEPT ![r] = 0]
    /\ pc' = [pc EXCEPT ![r] = "done"]
    /\ answer' = [answer EXCEPT ![r] = "cancelled"]
    /\ fate' = [fate EXCEPT ![r][at[r]] = "cancelled"]
    /\ UNCHANGED <<cooldown, call, at, attempt, lastError, capError>>

\* The handler returns; the slot is free for another request.
Leave(r) ==
    /\ pc[r] = "done"
    /\ pc' = [pc EXCEPT ![r] = "idle"]
    /\ call' = [call EXCEPT ![r] = NoCall]
    /\ at' = [at EXCEPT ![r] = 0]
    /\ attempt' = [attempt EXCEPT ![r] = 0]
    /\ lastError' = [lastError EXCEPT ![r] = "none"]
    /\ capError' = [capError EXCEPT ![r] = FALSE]
    /\ answer' = [answer EXCEPT ![r] = "none"]
    /\ fate' = [fate EXCEPT ![r] = [j \in Positions |-> "untried"]]
    /\ UNCHANGED <<cooldown, wait>>

Before(t) == IF t > 0 THEN t - 1 ELSE 0

\* One unit of time passes.
Tick ==
    /\ \/ \E k \in Keys : cooldown[k] > 0
       \/ \E r \in Requests : wait[r] > 0
    /\ cooldown' = [k \in Keys |-> Before(cooldown[k])]
    /\ wait' = [r \in Requests |-> Before(wait[r])]
    /\ UNCHANGED <<pc, call, at, attempt, lastError, capError, answer, fate>>

-----------------------------------------------------------------------------
(* Specification *)

Init ==
    /\ cooldown = [k \in Keys |-> 0]
    /\ pc = [r \in Requests |-> "idle"]
    /\ call = [r \in Requests |-> NoCall]
    /\ at = [r \in Requests |-> 0]
    /\ attempt = [r \in Requests |-> 0]
    /\ wait = [r \in Requests |-> 0]
    /\ lastError = [r \in Requests |-> "none"]
    /\ capError = [r \in Requests |-> FALSE]
    /\ answer = [r \in Requests |-> "none"]
    /\ fate = [r \in Requests |-> [j \in Positions |-> "untried"]]

Next ==
    \/ \E r \in Requests :
          \/ \E c \in Calls : Arrive(r, c)
          \/ Reply(r)
          \/ Resume(r)
          \/ StreamOver(r)
          \/ Cancel(r)
          \/ Leave(r)
    \/ Tick

Spec == Init /\ [][Next]_vars

\* The event loop runs ready tasks, time passes, and httpx turns a silent
\* upstream into a timeout, so every pending call is answered.  Clients need
\* not send requests and nobody has to cancel.
Fairness ==
    /\ WF_vars(Tick)
    /\ \A r \in Requests :
          /\ WF_vars(Reply(r))
          /\ WF_vars(Resume(r))
          /\ WF_vars(StreamOver(r))
          /\ WF_vars(Leave(r))

FairSpec == Spec /\ Fairness

-----------------------------------------------------------------------------
(* Properties *)

\* The tables of the registry and the locals of its loops are well formed; no
\* candidate is tried more than MaxRetries + 1 times.
TypeOK ==
    /\ cooldown \in [Keys -> Nat]
    /\ pc \in [Requests -> {"idle", "calling", "waiting", "streaming", "done"}]
    /\ call \in [Requests -> Calls \cup {NoCall}]
    /\ at \in [Requests -> Nat]
    /\ attempt \in [Requests -> 0..MaxRetries]
    /\ wait \in [Requests -> Nat]
    /\ lastError \in [Requests -> ErrorKinds \cup {"none"}]
    /\ capError \in [Requests -> BOOLEAN]
    /\ answer \in [Requests -> Answers]
    /\ fate \in [Requests -> [Positions -> Fates]]

Active(r) == pc[r] \in {"calling", "waiting", "streaming"}

\* A request stands on a candidate that can serve it; every candidate before
\* it was passed over or failed, none after it has been touched.  A repeated
\* provider, a failed one tried again or a healthy one jumped over breaks it.
ChainOrder ==
    \A r \in Requests : Active(r) =>
        /\ at[r] \in Candidates(call[r]) \ Unable(call[r], 0)
        /\ \A j \in Candidates(call[r]) :
              /\ j < at[r] => fate[r][j] \in ErrorKinds \cup {"unable"}
              /\ j = at[r] => fate[r][j] \in {"untried", "served"}
              /\ j > at[r] => fate[r][j] = "untried"

\* The candidates of r whose fate its caller can be told: those able to serve
\* it; the embeddings loop does not report the ones it found cooling.
Told(r) ==
    {j \in Candidates(call[r]) :
        /\ fate[r][j] # "unable"
        /\ ~(IsEmbedding(call[r]) /\ fate[r][j] = "cooling")}

\* A request is given up only when every candidate of its chain was passed
\* over or has failed, and the error it reports is the fate of the last
\* candidate able to serve it; "unsupported capabilities" is reported only
\* when no candidate was able, "unavailable" only by the embeddings path
\* with every candidate cooling.
FailureReport ==
    \A r \in Requests : answer[r] \in ChainErrors =>
        /\ \A j \in Candidates(call[r]) : fate[r][j] \in ErrorKinds \cup {"unable"}
        /\ \A j \in Told(r) : (\A i \in Told(r) : i <= j) => answer[r] = fate[r][j]
        /\ Told(r) = {} =>
              answer[r] = IF \E j \in Candidates(call[r]) : fate[r][j] = "unable"
                          THEN "unsupported" ELSE "unavailable"

\* The books of the loop: after the candidates up to position i, with fates f,
\* err is the fate of the last one the caller can be told about, and cap says
\* whether any was unable.
Books(c, f, i, err, cap) ==
    LET told == {j \in Candidates(c) :
                    /\ f[j] \in ErrorKinds
                    /\ ~(IsEmbedding(c) /\ f[j] = "cooling")}
    IN  /\ \A j \in Candidates(c) :
              IF j <= i THEN f[j] \in ErrorKinds \cup {"unable"}
              ELSE f[j] \in {"untried", "served"}
        /\ cap <=> \E j \in Candidates(c) : f[j] = "unable"
        /\ \A j \in told : (\A k \in told : k <= j) => err = f[j]
        /\ told = {} => err = "none"

\* A stream that has had a failure of its current candidate: last_error is
\* that failure, not what the candidates before came to.
Retrying(r) == call[r].stream /\ (pc[r] = "waiting" \/ attempt[r] > 0)

\* last_error of r while err is what the candidates before its current one
\* came to.
Noted(r, err) ==
    IF Retrying(r) THEN lastError[r] \in Retryable ELSE lastError[r] = err

\* While a request is under way capability_error and last_error sum up
\* exactly the candidates before the current one, across sleeps and the
\* failures of other requests; but for a stream that retries its candidate,
\* whose last_error is already the candidate's own, retryable failure.  (With
\* ChainOrder and TypeOK this is inductive; it is what FailureReport rests
\* on.)
Bookkeeping ==
    \A r \in Requests :
        /\ Active(r) =>
              /\ \E err \in ErrorKinds \cup {"none"} :
                    /\ Books(call[r], fate[r], at[r] - 1, err, capError[r])
                    /\ Noted(r, err)
              /\ fate[r][at[r]] = "served" <=> pc[r] = "streaming"
        /\ pc[r] = "idle" <=> call[r] = NoCall
        /\ pc[r] = "idle" => fate[r] = [j \in Positions |-> "untried"]
        /\ answer[r] # "none" => pc[r] = "done"

\* No cooldown outlasts the setting of its scope, and the stub has none.
CooldownBounded ==
    \A k \in Keys :
        cooldown[k] <= IF k[1] = Stub THEN 0
                       ELSE IF k[2] \in OcrScopes THEN CooldownOcr
                       ELSE CooldownDefault

\* r's candidate fails in this step with an error that blames the provider.
ProviderFails(r) ==
    /\ pc[r] = "calling"
    /\ fate[r][at[r]] = "untried"
    /\ fate'[r][at[r]] \in {"empty", "refused", "rateLimited", "fault"}
    /\ ProviderAt(call[r], at[r]) # Stub

\* A cooldown is (re)started exactly when a request of that very scope sees
\* that very provider fail: never by a payload error, a cancelled or an
\* escaped call, a retry that is still to come, or a request of another scope
\* ("an embedding failure must NOT block chat calls").
CooldownOnlyByFailure ==
    [][/\ \A r \in Requests : ProviderFails(r) =>
             cooldown'[KeyOf(call[r], at[r])]
                = CooldownSecondsFor(Scope(call[r]), fate'[r][at[r]])
       /\ \A k \in Keys : cooldown'[k] > cooldown[k] =>
             \E r \in Requests : ProviderFails(r) /\ KeyOf(call[r], at[r]) = k]_vars

\* A request that fails late never cuts short the cooldown an earlier failure
\* started: _start_cooldown overwrites cooldown_until without comparing, and
\* is safe only because all failures of a scope cool down equally long.
CooldownNotShortened ==
    [][\A r \in Requests : ProviderFails(r) =>
          LET k == KeyOf(call[r], at[r]) IN cooldown'[k] >= cooldown[k]]_vars

\* Every call the registry accepts comes to an end.
EveryCallSettles ==
    \A r \in Requests : Active(r) ~> pc[r] = "done"

\* Self-healing: however many requests keep failing on a provider, its
\* cooldown runs out again and again, so the preferred provider is retried.
CooldownExpires ==
    \A k \in Keys : []<>(cooldown[k] = 0)

\* The cooldown table is a circuit breaker per (provider, scope).
BreakerOf ==
    INSTANCE Breaker WITH
        open  <- [k \in Keys |-> cooldown[k] > 0],
        using <- [k \in Keys |->
                    {r \in Requests : /\ pc[r] \in {"calling", "waiting"}
                                      /\ KeyOf(call[r], at[r]) = k}]

\* The registry's steps are those of the breakers: a request enters a backend
\* only while its cooldown is over, failover takes one step, and a cooldown
\* is opened only by a request that was using that backend.
ImplementsBreaker == BreakerOf!Spec

-----------------------------------------------------------------------------
(* What the documentation and the comments say, which the code does not do *)

\* "Rate-limit (HTTP 429) cooldown stays at 300s to protect quota budgets."
RateLimitCoolsLong ==
    [][\A r \in Requests :
          ProviderFails(r) /\ fate'[r][at[r]] = "rateLimited"
          => cooldown'[KeyOf(call[r], at[r])] = CooldownRateLimited]_vars

\* "If the primary backend is unhealthy, traffic shifts to the fallback
\* automatically": no request errors out with candidates left untried.
EveryFailureFailsOver ==
    \A r \in Requests : answer[r] = "escaped" =>
        \A j \in Candidates(call[r]) : fate[r][j] # "untried"
=============================================================================
