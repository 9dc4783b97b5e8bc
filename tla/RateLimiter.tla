---------------------------- MODULE RateLimiter ----------------------------
(***************************************************************************)
(* app/rate_limit.py: per API key, a token bucket for requests per minute  *)
(* and a counter of requests in flight.                                    *)
(*                                                                         *)
(* Every caller runs on the one event loop and no method awaits, so each   *)
(* call is one step.  Time is a number of clock units, Minute of them to a *)
(* minute.  Tokens are counted in units of 1/Minute of a token, so that a  *)
(* clock unit refills exactly per_minute of them: the float rounding of    *)
(* the code is abstracted away.                                            *)
(*                                                                         *)
(* The gateway calls check_rate before a request and reconfigure at a      *)
(* policy reload.  No handler of it calls try_acquire or release yet: the  *)
(* concurrency limiter is modelled as the class, used as its docstring     *)
(* says (who acquires a slot releases it once).                            *)
(***************************************************************************)
EXTENDS Integers, Sequences

CONSTANTS
    Keys,               \* API keys
    Limits,             \* the settings: [perMinute, burst, concurrency]
    Minute,             \* clock units in a minute
    Horizon,            \* bound on the clock
    Callers,            \* bound on the requests of a key in flight
    LeastBurst,         \* bounds on the capacity and the rate of the settings
    MostBurst,          \*   that limit the rate
    LeastRate,
    MostRate

\* The bucket's capacity, in tokens: burst if given, else the rate.
Capacity(l) == IF l.burst > 0 THEN l.burst ELSE l.perMinute

RateEnabled(l) == l.perMinute > 0

ConcurrencyEnabled(l) == l.concurrency > 0

ASSUME LimitsAssumption ==
    /\ Limits \subseteq [perMinute : Nat, burst : Nat, concurrency : Nat]
    /\ Limits # {}
    /\ Minute \in Nat \ {0}
    /\ Horizon \in Nat
    /\ Callers \in Nat
    /\ LeastBurst \in Nat \ {0} /\ MostBurst \in Nat
    /\ LeastRate \in Nat /\ MostRate \in Nat
    /\ \A l \in Limits : RateEnabled(l) =>
          /\ LeastBurst <= Capacity(l) /\ Capacity(l) <= MostBurst
          /\ LeastRate <= l.perMinute /\ l.perMinute <= MostRate

VARIABLES
    limits,     \* the limits in force
    now,        \* the clock
    tokens,     \* tokens[k]: level of k's bucket at its last refill
    refilled,   \* refilled[k]: last_refill of k's bucket
    admitted,   \* admitted[k]: when the rated requests of k were let in (history);
                \*   k has a bucket iff it is not empty
    inflight,   \* inflight[k]: the counter
    held,       \* held[k]: successful acquires not yet released (history)
    uncounted,  \* uncounted[k]: k acquired while the limit was off (history)
    leaked      \* leaked[k]: k released while the limit was off (history)

vars == <<limits, now, tokens, refilled, admitted, inflight, held, uncounted, leaked>>
bucketVars == <<tokens, refilled, admitted>>
slotVars == <<inflight, held, uncounted, leaked>>

-----------------------------------------------------------------------------
(* check_rate *)

Least2(a, b) == IF a <= b THEN a ELSE b

\* A variant that must fail: the level is not capped.
LevelUncapped(k) == tokens[k] + (now - refilled[k]) * limits.perMinute

\* The level after the refill every check starts with, capped.
Level(k) ==
    Least2(Capacity(limits) * Minute,
           tokens[k] + (now - refilled[k]) * limits.perMinute)

HasBucket(k) == admitted[k] # << >>

\* The first request of a key creates its bucket, full but for this request.
FirstCheck(k) ==
    /\ RateEnabled(limits)
    /\ ~HasBucket(k)
    /\ tokens' = [tokens EXCEPT ![k] = (Capacity(limits) - 1) * Minute]
    /\ refilled' = [refilled EXCEPT ![k] = now]
    /\ admitted' = [admitted EXCEPT ![k] = Append(@, now)]
    /\ UNCHANGED <<limits, now, slotVars>>

\* A variant that must fail: the refill is not dated.
AdmitUndated(k) ==
    /\ RateEnabled(limits)
    /\ HasBucket(k)
    /\ Level(k) >= Minute
    /\ tokens' = [tokens EXCEPT ![k] = Level(k) - Minute]
    /\ admitted' = [admitted EXCEPT ![k] = Append(@, now)]
    /\ UNCHANGED <<limits, now, refilled, slotVars>>

\* A token is there: it is taken.
Admit(k) ==
    /\ RateEnabled(limits)
    /\ HasBucket(k)
    /\ Level(k) >= Minute
    /\ tokens' = [tokens EXCEPT ![k] = Level(k) - Minute]
    /\ refilled' = [refilled EXCEPT ![k] = now]
    /\ admitted' = [admitted EXCEPT ![k] = Append(@, now)]
    /\ UNCHANGED <<limits, now, slotVars>>

\* A variant that must fail: a refusal forgets the time that has passed.
RefuseForgetful(k) ==
    /\ RateEnabled(limits)
    /\ HasBucket(k)
    /\ Level(k) < Minute
    /\ refilled' = [refilled EXCEPT ![k] = now]
    /\ UNCHANGED <<limits, now, tokens, admitted, slotVars>>

\* A refused request refills the bucket all the same.
Refuse(k) ==
    /\ RateEnabled(limits)
    /\ HasBucket(k)
    /\ Level(k) < Minute
    /\ tokens' = [tokens EXCEPT ![k] = Level(k)]
    /\ refilled' = [refilled EXCEPT ![k] = now]
    /\ UNCHANGED <<limits, now, admitted, slotVars>>

-----------------------------------------------------------------------------
(* try_acquire, release *)

\* An acquire that returns True; the caller then must call release.  One that
\* returns False changes nothing.
TryAcquire(k) ==
    /\ held[k] < Callers
    /\ ~ConcurrencyEnabled(limits) \/ inflight[k] < limits.concurrency
    /\ held' = [held EXCEPT ![k] = @ + 1]
    /\ inflight' = [inflight EXCEPT ![k] = IF ConcurrencyEnabled(limits) THEN @ + 1 ELSE @]
    /\ uncounted' = [uncounted EXCEPT ![k] = @ \/ ~ConcurrencyEnabled(limits)]
    /\ UNCHANGED <<limits, now, bucketVars, leaked>>

\* A variant that must fail: the entry is dropped while others hold slots.
ReleaseAll(k) ==
    /\ held[k] > 0
    /\ held' = [held EXCEPT ![k] = @ - 1]
    /\ inflight' = [inflight EXCEPT ![k] = IF ConcurrencyEnabled(limits) THEN 0 ELSE @]
    /\ leaked' = [leaked EXCEPT ![k] = @ \/ ~ConcurrencyEnabled(limits)]
    /\ UNCHANGED <<limits, now, bucketVars, uncounted>>

\* A caller's release; the counter does not go below zero, and is left alone
\* if the limit is off by now.
Release(k) ==
    /\ held[k] > 0
    /\ held' = [held EXCEPT ![k] = @ - 1]
    /\ inflight' = [inflight EXCEPT ![k] =
                       IF ConcurrencyEnabled(limits) /\ @ > 0 THEN @ - 1 ELSE @]
    /\ leaked' = [leaked EXCEPT ![k] = @ \/ ~ConcurrencyEnabled(limits)]
    /\ UNCHANGED <<limits, now, bucketVars, uncounted>>

-----------------------------------------------------------------------------
(* reconfigure, and time *)

\* New limits, at run time; buckets and counters are kept.
Reconfigure(l) ==
    /\ l # limits
    /\ limits' = l
    /\ UNCHANGED <<now, bucketVars, slotVars>>

Tick ==
    /\ now < Horizon
    /\ now' = now + 1
    /\ UNCHANGED <<limits, bucketVars, slotVars>>

-----------------------------------------------------------------------------
(* Specification *)

Init ==
    /\ limits \in Limits
    /\ now = 0
    /\ tokens = [k \in Keys |-> 0]
    /\ refilled = [k \in Keys |-> 0]
    /\ admitted = [k \in Keys |-> << >>]
    /\ inflight = [k \in Keys |-> 0]
    /\ held = [k \in Keys |-> 0]
    /\ uncounted = [k \in Keys |-> FALSE]
    /\ leaked = [k \in Keys |-> FALSE]

Next ==
    \/ \E k \in Keys :
          \/ FirstCheck(k)
          \/ Admit(k)
          \/ Refuse(k)
          \/ TryAcquire(k)
          \/ Release(k)
    \/ \E l \in Limits : Reconfigure(l)
    \/ Tick

Spec == Init /\ [][Next]_vars

-----------------------------------------------------------------------------
(* Properties *)

\* A bucket's level is a whole number of units between zero and the largest
\* capacity any setting gives it; its last refill is not in the future.
TypeOK ==
    /\ limits \in Limits
    /\ now \in Nat
    /\ tokens \in [Keys -> 0..(MostBurst * Minute)]
    /\ refilled \in [Keys -> 0..now]
    /\ admitted \in [Keys -> Seq(Nat)]
    /\ inflight \in [Keys -> Nat]
    /\ held \in [Keys -> Nat]
    /\ uncounted \in [Keys -> BOOLEAN]
    /\ leaked \in [Keys -> BOOLEAN]

\* Requests of k let in from its i-th on.
Since(k, i) == Len(admitted[k]) - i + 1

\* Whatever the limits were changed to in between, from any admission of a key
\* to any later one no more requests are let in than the largest burst and the
\* largest rate allow for the time between the two.
BurstBound ==
    \A k \in Keys : \A i, j \in DOMAIN admitted[k] : i <= j =>
        (j - i + 1) * Minute
           <= MostBurst * Minute + MostRate * (admitted[k][j] - admitted[k][i])

\* A request is refused only if letting it in would exceed what the smallest
\* burst and the smallest rate allow since some earlier admission: refusals
\* themselves, idle time and changes of the limits cost a key nothing.
NoNeedlessRefusal ==
    [][\A k \in Keys : Refuse(k) =>
          \E i \in DOMAIN admitted[k] :
             (Since(k, i) + 1) * Minute
                > LeastBurst * Minute + LeastRate * (now - admitted[k][i])]_vars

\* The counter of a key is the number of its callers that acquired a slot and
\* have not released it, across every change of the limit but switching it off
\* and on: it is too high only after a release while the limit was off (the
\* slot is never given back), too low only after an acquire while it was off
\* (the caller is not counted and yet gives a slot back).
SlotsMatchHolders ==
    \A k \in Keys :
        /\ inflight[k] > held[k] => leaked[k]
        /\ inflight[k] < held[k] => uncounted[k]

=============================================================================

