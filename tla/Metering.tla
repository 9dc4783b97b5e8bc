------------------------------ MODULE Metering ------------------------------
(***************************************************************************)
(* Per-key budgets: app/token_metering.py on a shared store                *)
(* (app/storage.py), with the endpoints of app/main.py that authenticate,  *)
(* check and record, the admin endpoints, and the bootstrap script that    *)
(* writes key configurations from another process.                         *)
(*                                                                         *)
(* Gateway processes share the store; each has its caches.  A handler runs *)
(* without an await from authentication to the end of the budget check,    *)
(* and from the first to the second increment of record_usage, so within a *)
(* process these are atomic; processes interleave, and may crash, between  *)
(* the two increments.  The store may fail under record_usage, which       *)
(* raises with the process living on; a store that fails under a lookup or *)
(* an admin's write is left out.                                           *)
(*                                                                         *)
(* The counters kept are those somebody reads: today's, which starts at    *)
(* zero every midnight UTC, and one per month; what the daily counters of  *)
(* a month add up to is history.  Their TTLs (7 and 90 days) outlast the   *)
(* windows they count and are left out.                                    *)
(***************************************************************************)
EXTENDS Integers, FiniteSets, Functions

CONSTANTS
    Procs,              \* gateway processes
    Keys,               \* API keys
    Requests,           \* slots for requests in flight
    StaticKeys,         \* PROXY_API_KEYS of the environment
    AdminDailies,       \* daily limits the admin endpoint registers
    BootstrapLimits,    \* [daily, monthly] limits the bootstrap script writes
    Factor,             \* DEFAULT_DAILY_TO_MONTHLY_FACTOR
    Costs,              \* weighted tokens a request may cost
    Degrade,            \* BUDGET_DEGRADE_ALIAS is configured
    TTL,                \* NEGATIVE_CACHE_TTL_S, in clock units
    DaysPerMonth,
    LastDay,            \* bound on the days
    MostTokens,         \* bound on the tokens a key spends
    MostFaults,         \* bound on the crashes and the store's failures
    NoConfig, NoRequest

\* KeyConfig: a limit of 0 is no limit.
ConfigType == [daily : Nat, monthly : Nat, active : BOOLEAN]

\* KeyConfig.__init__: a missing monthly limit is derived from the daily one.
KeyConfig(d, m, a) ==
    [daily |-> d, monthly |-> IF m <= 0 /\ d > 0 THEN d * Factor ELSE m, active |-> a]

\* hard: embeddings, rerank, messages, /api/chat.  chat: chat completions,
\* with the degrade path.  media: audio, images, vision, with no budget check.
Kinds == {"hard", "chat", "media"}

Month(d) == d \div DaysPerMonth

Months == 0..Month(LastDay)

\* What a request was compared with when it was let in: a daily limit of its
\* key, other things, or nothing at all.
Checks == {"daily", "other", "none"}

\* half: the month whose counter record_usage still has to increment, and by
\* what, after it has incremented the day's; no half: the request is running.
RequestType ==
    [proc : Procs, key : Keys, check : Checks, half : {<< >>} \cup (Months \X Costs)]

ASSUME MeteringAssumption ==
    /\ StaticKeys \subseteq Keys
    /\ AdminDailies \subseteq Nat
    /\ BootstrapLimits \subseteq [daily : Nat, monthly : Nat]
    /\ Costs \subseteq Nat
    /\ Degrade \in BOOLEAN
    /\ TTL \in Nat \ {0} /\ Factor \in Nat \ {0} /\ DaysPerMonth \in Nat \ {0}
    /\ LastDay \in Nat /\ MostTokens \in Nat /\ MostFaults \in Nat
    /\ IsFiniteSet(Requests) /\ IsFiniteSet(Costs)
    /\ IsFiniteSet(AdminDailies) /\ IsFiniteSet(BootstrapLimits)
    /\ NoConfig \notin ConfigType /\ NoRequest \notin RequestType

VARIABLES
    \* the store
    config,     \* config[k]: the KeyConfig of k, or NoConfig
    today,      \* today[k]: total_tokens of k's counter of the day
    monthly,    \* monthly[k][m]: total_tokens of k's counter of month m
    \* the processes
    cache,      \* cache[p][k]: the positive cache, kept for good
    negative,   \* negative[p][k]: time a negative cache entry stays valid
    static,     \* static[p]: settings.api_keys
    \* the requests
    request,    \* request[r]: NoRequest, or what is in flight
    \* the world
    day,        \* days since the start
    faults,     \* crashes of processes and failures of the store so far
    \* history
    spent,      \* spent[k][m]: tokens the daily counters of month m add up to
    waived,     \* waived[k]: tokens today of requests no limit was compared with
    foreign,    \* foreign[p][k]: another process wrote k since p last read it
    known       \* known[k]: time the store has had a config for k, up to TTL

storeVars == <<config, today, monthly>>
procVars == <<cache, negative, static>>
historyVars == <<spent, waived, foreign, known>>
vars == <<storeVars, procVars, request, day, faults, historyVars>>

\* A variant that must fail: handlers run in threads, beside one another.
FreeOfLoop(p) == p \in Procs

\* No handler of p is between its two increments: the loop of p is free.
Free(p) ==
    \A r \in Requests :
        request[r] # NoRequest /\ request[r].proc = p => request[r].half = << >>

-----------------------------------------------------------------------------
(* get_key_config *)

\* What a lookup returns: the positive cache, then a valid negative entry,
\* then the store.
Lookup(p, k) ==
    IF cache[p][k] # NoConfig THEN cache[p][k]
    ELSE IF negative[p][k] > 0 THEN NoConfig
    ELSE config[k]

\* The lookup asks the store.
AsksStore(p, k) == cache[p][k] = NoConfig /\ negative[p][k] = 0

\* What a lookup leaves in the caches.
RememberLookup(p, k) ==
    /\ cache' = [cache EXCEPT ![p][k] = Lookup(p, k)]
    /\ negative' = [negative EXCEPT ![p][k] =
                       IF AsksStore(p, k) /\ config[k] = NoConfig THEN TTL ELSE @]
    /\ foreign' = [foreign EXCEPT ![p][k] = @ /\ ~AsksStore(p, k)]

-----------------------------------------------------------------------------
(* A request: authentication, budget, usage *)

\* A static key is let in without a lookup; any other needs an active config.
Authenticated(p, k) ==
    \/ k \in static[p]
    \/ Lookup(p, k) # NoConfig /\ Lookup(p, k).active

LooksUp(p, k, kind) == k \notin static[p] \/ kind # "media"

\* A variant that must fail: the request that exhausts a budget is followed
\* by one more.
WithinBudgetOneMore(c, k) ==
    /\ c.active
    /\ c.daily > 0 => today[k] <= c.daily
    /\ c.monthly > 0 => monthly[k][Month(day)] <= c.monthly

\* check_budget of a key with a config: active, and below the limits it has.
WithinBudget(c, k) ==
    /\ c.active
    /\ c.daily > 0 => today[k] < c.daily
    /\ c.monthly > 0 => monthly[k][Month(day)] < c.monthly

\* Exhausted, but served by the cheaper model.
Degraded(c, k, kind) ==
    /\ kind = "chat" /\ Degrade
    /\ c.active /\ ~WithinBudget(c, k)

\* A variant that must fail: the degrade path ignores the revocation.
AllowedRevoked(p, k, kind) ==
    LET c == Lookup(p, k)
    IN  kind # "media" /\ c # NoConfig => WithinBudget(c, k) \/ kind = "chat"

Allowed(p, k, kind) ==
    LET c == Lookup(p, k)
    IN  kind # "media" /\ c # NoConfig => WithinBudget(c, k) \/ Degraded(c, k, kind)

\* Media endpoints check nothing; the others pass a key without config or
\* without a daily limit, and chat a key whose budget is exhausted.
CheckOf(p, k, kind) ==
    LET c == Lookup(p, k)
    IN  CASE kind = "media" -> "none"
          [] kind # "media" /\ c # NoConfig /\ c.daily > 0 /\ WithinBudget(c, k) -> "daily"
          [] OTHER -> "other"

Lookups(p, k, kind) ==
    IF LooksUp(p, k, kind) THEN RememberLookup(p, k)
    ELSE UNCHANGED <<cache, negative, foreign>>

\* A request is authenticated, passes the budget check and is on its way.
Admit(r, p, k, kind) ==
    /\ Free(p)
    /\ request[r] = NoRequest
    /\ Authenticated(p, k) /\ Allowed(p, k, kind)
    /\ Lookups(p, k, kind)
    /\ request' = [request EXCEPT ![r] =
                      [proc |-> p, key |-> k, check |-> CheckOf(p, k, kind), half |-> << >>]]
    /\ UNCHANGED <<storeVars, static, day, faults, spent, waived, known>>

\* 401, 403 or 429.
Refuse(p, k, kind) ==
    /\ Free(p)
    /\ ~(Authenticated(p, k) /\ Allowed(p, k, kind))
    /\ Lookups(p, k, kind)
    /\ UNCHANGED <<storeVars, static, request, day, faults, spent, waived, known>>

\* The request ends without a record: an error, a cache hit, no usage in the
\* answer, or a stream, whose tokens are not counted.
EndUnrecorded(r) ==
    /\ request[r] # NoRequest /\ request[r].half = << >>
    /\ Free(request[r].proc)
    /\ request' = [request EXCEPT ![r] = NoRequest]
    /\ UNCHANGED <<storeVars, procVars, day, faults, historyVars>>

\* The bound on the tokens a key spends.
Room(k, cost) == FoldFunction(+, cost, spent[k]) <= MostTokens

\* The day's counter of k is incremented, for a request let in by check.
DayCharged(k, check, cost) ==
    /\ Room(k, cost)
    /\ today' = [today EXCEPT ![k] = @ + cost]
    /\ spent' = [spent EXCEPT ![k][Month(day)] = @ + cost]
    /\ waived' = [waived EXCEPT ![k] = IF check = "daily" THEN @ ELSE @ + cost]

\* record_usage, first increment: the day's counter.  Day and month are read
\* from the clock once, for both increments.
RecordDay(r, cost) ==
    /\ request[r] # NoRequest /\ request[r].half = << >>
    /\ Free(request[r].proc)
    /\ DayCharged(request[r].key, request[r].check, cost)
    /\ request' = [request EXCEPT ![r].half = <<Month(day), cost>>]
    /\ UNCHANGED <<config, monthly, procVars, day, faults, foreign, known>>

\* The store fails after it has incremented the day's counter (incr_fields
\* reads the counters back): record_usage raises, the month is not told.  When
\* it fails before, the request ends unrecorded.
LoseDay(r, cost) ==
    /\ faults < MostFaults
    /\ faults' = faults + 1
    /\ request[r] # NoRequest /\ request[r].half = << >>
    /\ Free(request[r].proc)
    /\ DayCharged(request[r].key, request[r].check, cost)
    /\ request' = [request EXCEPT ![r] = NoRequest]
    /\ UNCHANGED <<config, monthly, procVars, day, foreign, known>>

\* A variant that must fail: the month is read from the clock a second time.
RecordMonthLate(r) ==
    /\ request[r] # NoRequest /\ request[r].half # << >>
    /\ LET p    == request[r].proc
           k    == request[r].key
           cost == request[r].half[2]
       IN  /\ monthly' = [monthly EXCEPT ![k][Month(day)] = @ + cost]
           /\ RememberLookup(p, k)
    /\ request' = [request EXCEPT ![r] = NoRequest]
    /\ UNCHANGED <<config, today, static, day, faults, spent, waived, known>>

\* Second increment: the month's counter; then the config is looked up.
RecordMonth(r) ==
    /\ request[r] # NoRequest /\ request[r].half # << >>
    /\ LET p    == request[r].proc
           k    == request[r].key
           cost == request[r].half[2]
       IN  /\ monthly' = [monthly EXCEPT ![k][request[r].half[1]] = @ + cost]
           /\ RememberLookup(p, k)
    /\ request' = [request EXCEPT ![r] = NoRequest]
    /\ UNCHANGED <<config, today, static, day, faults, spent, waived, known>>

\* The store fails at the month's increment, or after it (at the counters read
\* back or at the lookup): record_usage raises, and the request is over.
LoseMonth(r) ==
    /\ faults < MostFaults
    /\ faults' = faults + 1
    /\ request[r] # NoRequest /\ request[r].half # << >>
    /\ \/ monthly' = [monthly EXCEPT ![request[r].key][request[r].half[1]] = @ + request[r].half[2]]
       \/ UNCHANGED monthly
    /\ request' = [request EXCEPT ![r] = NoRequest]
    /\ UNCHANGED <<config, today, procVars, day, historyVars>>

-----------------------------------------------------------------------------
(* Key administration *)

\* Process p wrote the config of k: news to the others.
Written(p, k) ==
    /\ foreign' = [q \in Procs |-> [foreign[q] EXCEPT ![k] = (q # p)]]
    /\ known' = [known EXCEPT ![k] = IF config[k] = NoConfig THEN 0 ELSE @]

\* The admin endpoint registers a key, here and in the static keys of p.
AdminRegister(p, k, d, a) ==
    LET c == KeyConfig(d, 0, a)
    IN  /\ Free(p)
        /\ config' = [config EXCEPT ![k] = c]
        /\ cache' = [cache EXCEPT ![p][k] = c]
        /\ negative' = [negative EXCEPT ![p][k] = 0]
        /\ static' = [static EXCEPT ![p] = @ \cup {k}]
        /\ Written(p, k)
        /\ UNCHANGED <<today, monthly, request, day, faults, spent, waived>>

\* A variant that must fail: the store is told, the process is not.
AdminRevokeStoreOnly(p, k) ==
    LET c == Lookup(p, k)
    IN  /\ Free(p)
        /\ IF c = NoConfig
           THEN UNCHANGED <<config, foreign, known>>
           ELSE config' = [config EXCEPT ![k] = [c EXCEPT !.active = FALSE]] /\ Written(p, k)
        /\ UNCHANGED <<today, monthly, procVars, request, day, faults, spent, waived>>

\* revoke_key: the config as p knows it is written back inactive; p forgets
\* what it cached.  A key p does not know is left as it is.
AdminRevoke(p, k) ==
    LET c == Lookup(p, k)
    IN  /\ Free(p)
        /\ IF c = NoConfig
           THEN /\ foreign' = [foreign EXCEPT ![p][k] = @ /\ ~AsksStore(p, k)]
                /\ UNCHANGED <<config, known>>
           ELSE /\ config' = [config EXCEPT ![k] = [c EXCEPT !.active = FALSE]]
                /\ Written(p, k)
        /\ cache' = [cache EXCEPT ![p][k] = NoConfig]
        /\ negative' = [negative EXCEPT ![p][k] = 0]
        /\ UNCHANGED <<today, monthly, static, request, day, faults, spent, waived>>

\* scripts/keyconfig_bootstrap.py: a process of its own, straight to the store.
Bootstrap(k, l) ==
    /\ config' = [config EXCEPT ![k] = KeyConfig(l.daily, l.monthly, TRUE)]
    /\ foreign' = [q \in Procs |-> [foreign[q] EXCEPT ![k] = TRUE]]
    /\ known' = [known EXCEPT ![k] = IF config[k] = NoConfig THEN 0 ELSE @]
    /\ UNCHANGED <<today, monthly, procVars, request, day, faults, spent, waived>>

-----------------------------------------------------------------------------
(* Time and crashes *)

\* A variant that must fail: an entry stays for good.
BeforeNever(t) == t

\* The time left of an entry, a clock unit later.
Before(t) == IF t > 0 THEN t - 1 ELSE 0

\* A clock unit of the negative caches.
Tick ==
    /\ \/ \E p \in Procs, k \in Keys : negative[p][k] > 0
       \/ \E k \in Keys : config[k] # NoConfig /\ known[k] < TTL
    /\ negative' = [p \in Procs |-> [k \in Keys |-> Before(negative[p][k])]]
    /\ known' = [k \in Keys |->
                    IF config[k] # NoConfig /\ known[k] < TTL THEN known[k] + 1 ELSE known[k]]
    /\ UNCHANGED <<storeVars, cache, static, request, day, faults, spent, waived, foreign>>

\* Midnight UTC.
NextDay ==
    /\ day < LastDay
    /\ day' = day + 1
    /\ today' = [k \in Keys |-> 0]
    /\ waived' = [k \in Keys |-> 0]
    /\ UNCHANGED <<config, monthly, procVars, request, faults, spent, foreign, known>>

\* A process dies with its requests and starts again with the environment.
Crash(p) ==
    /\ faults < MostFaults
    /\ faults' = faults + 1
    /\ cache' = [cache EXCEPT ![p] = [k \in Keys |-> NoConfig]]
    /\ negative' = [negative EXCEPT ![p] = [k \in Keys |-> 0]]
    /\ static' = [static EXCEPT ![p] = StaticKeys]
    /\ foreign' = [foreign EXCEPT ![p] = [k \in Keys |-> FALSE]]
    /\ request' = [r \in Requests |->
                      IF request[r] # NoRequest /\ request[r].proc = p
                      THEN NoRequest ELSE request[r]]
    /\ UNCHANGED <<storeVars, day, spent, waived, known>>

-----------------------------------------------------------------------------
(* Specification *)

Init ==
    /\ config = [k \in Keys |-> NoConfig]
    /\ today = [k \in Keys |-> 0]
    /\ monthly = [k \in Keys |-> [m \in Months |-> 0]]
    /\ cache = [p \in Procs |-> [k \in Keys |-> NoConfig]]
    /\ negative = [p \in Procs |-> [k \in Keys |-> 0]]
    /\ static = [p \in Procs |-> StaticKeys]
    /\ request = [r \in Requests |-> NoRequest]
    /\ day = 0
    /\ faults = 0
    /\ spent = [k \in Keys |-> [m \in Months |-> 0]]
    /\ waived = [k \in Keys |-> 0]
    /\ foreign = [p \in Procs |-> [k \in Keys |-> FALSE]]
    /\ known = [k \in Keys |-> 0]

Next ==
    \/ \E p \in Procs, k \in Keys :
          \/ \E kind \in Kinds :
                \/ \E r \in Requests : Admit(r, p, k, kind)
                \/ Refuse(p, k, kind)
          \/ \E d \in AdminDailies, a \in BOOLEAN : AdminRegister(p, k, d, a)
          \/ AdminRevoke(p, k)
    \/ \E r \in Requests :
          \/ EndUnrecorded(r)
          \/ \E cost \in Costs : RecordDay(r, cost) \/ LoseDay(r, cost)
          \/ RecordMonth(r) \/ LoseMonth(r)
    \/ \E k \in Keys, l \in BootstrapLimits : Bootstrap(k, l)
    \/ Tick
    \/ NextDay
    \/ \E p \in Procs : Crash(p)

Spec == Init /\ [][Next]_vars

-----------------------------------------------------------------------------
(* Properties *)

\* The store, the caches and the requests are well formed; at most one
\* handler of a process is between its two increments.
TypeOK ==
    /\ config \in [Keys -> ConfigType \cup {NoConfig}]
    /\ today \in [Keys -> Nat]
    /\ monthly \in [Keys -> [Months -> Nat]]
    /\ cache \in [Procs -> [Keys -> ConfigType \cup {NoConfig}]]
    /\ negative \in [Procs -> [Keys -> 0..TTL]]
    /\ static \in [Procs -> SUBSET Keys]
    /\ request \in [Requests -> RequestType \cup {NoRequest}]
    /\ day \in 0..LastDay
    /\ faults \in 0..MostFaults
    /\ spent \in [Keys -> [Months -> Nat]]
    /\ waived \in [Keys -> Nat]
    /\ foreign \in [Procs -> [Keys -> BOOLEAN]]
    /\ known \in [Keys -> 0..TTL]
    /\ \A r, s \in Requests :
          /\ request[r] # NoRequest /\ request[r].half # << >>
          /\ request[s] # NoRequest /\ request[s].half # << >>
          /\ request[r].proc = request[s].proc
          => r = s

\* The largest of a set of numbers, 0 if there is none.
Most(S) == IF S = {} THEN 0 ELSE CHOOSE x \in S : \A y \in S : y <= x

MostDaily == Most(AdminDailies \cup {l.daily : l \in BootstrapLimits})

\* Check-then-record: requests in flight together overshoot a daily limit, but
\* by no more than one request's tokens per slot, whatever the processes'
\* caches hold and however midnight, configuration changes and faults fall.
\* What media requests, degraded requests and keys without a daily limit use
\* is not bounded, and not counted here.
BudgetBound ==
    \A k \in Keys :
        MostDaily > 0 =>
            today[k] - waived[k] <= MostDaily - 1 + Most(Costs) * Cardinality(Requests)

\* Requests whose month's increment of k is still to come.
Halves(k, m) ==
    {r \in Requests : /\ request[r] # NoRequest
                      /\ request[r].key = k
                      /\ request[r].half # << >>
                      /\ request[r].half[1] = m}

\* A month's counter is never ahead of its days, and behind them only by the
\* requests between their two increments and by one request per crash or
\* failure of the store: what record_usage could not finish is never made up.
MonthAgrees ==
    \A k \in Keys, m \in Months :
        LET behind == spent[k][m] - monthly[k][m]
        IN  0 <= behind /\ behind <= Most(Costs) * (Cardinality(Halves(k, m)) + faults)

Arrived(r) == request[r] = NoRequest /\ request'[r] # NoRequest

\* A process serves a key the store has as revoked only on the media endpoints,
\* which do not check, or while it has not noticed another process's write.
RevokedRefused ==
    [][\A r \in Requests : Arrived(r) =>
          LET p == request'[r].proc
              k == request'[r].key
          IN  config[k] # NoConfig /\ ~config[k].active /\ ~foreign[p][k]
              => request'[r].check = "none"]_vars

\* A key that has been in the store for the TTL is not unknown to any process:
\* a lookup that misses asks the store, however often it was asked before.
NewKeyVisible ==
    \A p \in Procs, k \in Keys :
        config[k] # NoConfig /\ known[k] = TTL => Lookup(p, k) # NoConfig

-----------------------------------------------------------------------------
(* What the documentation says, which the code does not do *)

\* "Hard stop on exceeded - requests from a key with an exhausted budget get a
\* 429" (with no degrade alias, and no cache out of date).
HardStop ==
    [][\A r \in Requests : Arrived(r) =>
          LET p == request'[r].proc
              k == request'[r].key
          IN  ~Degrade /\ config[k] # NoConfig /\ config[k].active /\ ~foreign[p][k]
              => WithinBudget(config[k], k)]_vars

\* "Deactivate a metered API key."
RevokeDeactivates ==
    [][\A p \in Procs, k \in Keys :
          AdminRevoke(p, k) /\ config[k] # NoConfig => ~config'[k].active]_vars
=============================================================================
